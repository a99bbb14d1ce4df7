------------------------------ MODULE MCQueue ------------------------------
(* Small instances of WaitQueue.                                            *)
EXTENDS WaitQueue, TLC

Symmetric == Permutations(Request) \cup Permutations(Sandbox)

(* What no later step and no invariant reads is hidden: the attempts of a   *)
(* request that is not claiming, its candidate outside `cas`, and what has  *)
(* become of the deadline, the heartbeat and the client of one that has     *)
(* ended (a refused one is asked whether its client had left).              *)
Claiming == {"list", "cas", "setTimeout", "endLease", "revert", "resume", "finish"}
Running == {q \in Request : pc[q] \notin Final}

Relevant ==
  <<pc, seq, waiter, sandbox, holder, quiet, draining, faults,
    [q \in Request |-> IF pc[q] \in Claiming THEN tries[q] ELSE 0],
    [q \in Request |-> IF pc[q] = "cas" THEN cand[q] ELSE NoSandbox],
    late \cap (Running \cup Waiting), stale \cap Waiting, lost \cap Running,
    gone \cap {q \in Request : pc[q] \notin {"answered", "dead"}}>>
=============================================================================
