------------------------------ MODULE MCTasks ------------------------------
(* Small instances of AgentTasks.                                           *)
EXTENDS AgentTasks, TLC

Symmetric ==
  Permutations(Replica) \cup Permutations(Task) \cup Permutations(Session)

(* Local variables that no step reads at the present await are hidden: all  *)
(* of a runner that has ended, `from` outside a take-over, `alone` outside  *)
(* an abort, and what will be written before it is known.                   *)
Read(c) ==
  IF pc[c] = "none" THEN <<>> ELSE
  <<loc[c].session, loc[c].reason, loc[c].sent,
    IF pc[c] = "listed" THEN loc[c].from ELSE NoReplica,
    pc[c] \in {"fenced", "aborting", "release"} /\ loc[c].alone>>

Write(c) == IF pc[c] = "finish" THEN <<loc[c].outcome, loc[c].answer>> ELSE <<>>

(* Nobody asks any more whether a task that nobody follows was to be stopped.*)
Followed == Running \cup {t \in Task : \E r \in Replica : pc[<<r, t>>] # "none"}

Shared ==
  <<owner, sess, fence, wish \cap Followed, late \cap Followed, old, pc,
    [c \in Runner |-> Read(c)], wire, rounds, box, down, faults>>

Relevant == <<state, result, talk, [c \in Runner |-> Write(c)], Shared>>

(* For properties about rounds: how a task ended and what it answered are    *)
(* hidden, too.                                                             *)
Commands == <<[t \in Task |-> IF state[t] \in Ended THEN "ENDED" ELSE state[t]], Shared>>
=============================================================================
