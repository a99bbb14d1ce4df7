------------------------------ MODULE AgentTasks ------------------------------
(***************************************************************************)
(* The tasks of an agent: admission (agent/service.py), the runner that    *)
(* follows a task (agent/runner.py), take-over by another replica          *)
(* (agent/maintainer.py), and the table `tasks` (store/agent_repo.py).     *)
(*                                                                         *)
(* A runner is a replica together with a task; its pc names the await it   *)
(* is at.  The tasks share one sandbox, in which the engine (opencode)     *)
(* keeps sessions; a session outlives a task and may be continued by the   *)
(* next.  An abort names the session, not the task.                        *)
(***************************************************************************)
EXTENDS Naturals, Sequences, FiniteSets

CONSTANTS
  Replica, Task, Session,
  NoReplica, NoTask, NoSession,
  MaxRunning,   \* agent_max_running_tasks
  Patient,      \* no task's deadline passes
  Punctual,     \* a live runner's heartbeat is never as late as takeover_s
  DbPrompt,     \* begin_abort is answered within _ABORT_HOLD_S - _ABORT_TIMEOUT_S
  Lossy,        \* abort commands may fail without limit
  MaxFaults     \* bound on crashes, other failed requests and lost sandboxes

ASSUME AgentTasksConstants ==
  /\ IsFiniteSet(Task)
  /\ NoReplica \notin Replica /\ NoTask \notin Task /\ NoSession \notin Session
  /\ MaxRunning \in Nat /\ MaxFaults \in Nat
  /\ {Patient, Punctual, DbPrompt, Lossy} \subseteq BOOLEAN

VARIABLES
  state,    \* Task -> tasks.state, "NEW" before it exists
  owner,    \* Task -> tasks.op_owner
  sess,     \* Task -> tasks.session_id
  wish,     \* tasks with abort_requested
  fence,    \* Task -> who set its abort_fence_until, while it has not passed
  old,      \* tasks whose op_deadline has passed
  late,     \* tasks whose deadline has passed
  result,   \* Task -> the task that result_text answers
  pc,       \* Replica \X Task -> where the runner is
  loc,      \* Replica \X Task -> the runner's local variables
  wire,     \* runners with an abort command under way to the engine
  rounds,   \* Session -> tasks whose round the engine is working on
  talk,     \* Session -> the tasks whose prompts it holds, in order
  serving,  \* the sandbox's row is ACTIVE or RETIRING
  alive,    \* the sandbox answers
  doomed,   \* somebody is about to destroy the sandbox
  down,     \* replicas that have died or are being stopped
  faults

table == <<state, owner, sess, wish, fence, old, late, result>>
engine == <<rounds, talk>>
box == <<serving, alive, doomed>>
vars == <<state, owner, sess, wish, fence, old, late, result, pc, loc, wire, rounds,
          talk, serving, alive, doomed, down, faults>>

Ended == {"SUCCEEDED", "FAILED", "ABORTED", "TIMEOUT"}
Runner == Replica \X Task

\* "none": not following.  "fenced" to "release" are in _check_abort, "listed" and
\* "taken" in takeover_tasks.
Await == {"none", "connect", "session", "save", "prompt", "follow", "begin", "fenced",
          "aborting", "release", "ended", "messages", "finish", "listed", "taken"}

\* session: self.session_id (or the session read before a take-over); from: the
\* owner read before it; reason: _abort_reason; sent: _abort_sent; alone: whether
\* begin_abort found no other fence; outcome and answer: what _finish will write.
Locals ==
  [session : Session \cup {NoSession}, from : Replica \cup {NoReplica},
   reason : {"none", "ABORTED", "TIMEOUT"}, sent : BOOLEAN, alone : BOOLEAN,
   outcome : Ended, answer : Task \cup {NoTask}]

Fresh(s) ==
  [session |-> s, from |-> NoReplica, reason |-> "none", sent |-> FALSE,
   alone |-> FALSE, outcome |-> "FAILED", answer |-> NoTask]

TypeOK ==
  /\ state \in [Task -> Ended \cup {"NEW", "RUNNING"}]
  /\ owner \in [Task -> Replica \cup {NoReplica}]
  /\ sess \in [Task -> Session \cup {NoSession}]
  /\ fence \in [Task -> Replica \cup {NoReplica}]
  /\ result \in [Task -> Task \cup {NoTask}]
  /\ wish \subseteq Task /\ old \subseteq Task /\ late \subseteq Task
  /\ pc \in [Runner -> Await]
  /\ loc \in [Runner -> Locals]
  /\ wire \subseteq Runner
  /\ rounds \in [Session -> SUBSET Task]
  /\ talk \in [Session -> Seq(Task)]
  /\ {serving, alive, doomed} \subseteq BOOLEAN
  /\ down \subseteq Replica
  /\ faults \in 0..MaxFaults

Init ==
  /\ state = [t \in Task |-> "NEW"]
  /\ owner = [t \in Task |-> NoReplica]
  /\ sess = [t \in Task |-> NoSession]
  /\ wish = {} /\ old = {} /\ late = {}
  /\ fence = [t \in Task |-> NoReplica]
  /\ result = [t \in Task |-> NoTask]
  /\ pc = [c \in Runner |-> "none"]
  /\ loc = [c \in Runner |-> Fresh(NoSession)]
  /\ wire = {}
  /\ rounds = [s \in Session |-> {}]
  /\ talk = [s \in Session |-> <<>>]
  /\ serving = TRUE /\ alive = TRUE /\ doomed = FALSE
  /\ down = {} /\ faults = 0

-----------------------------------------------------------------------------
Running == {t \in Task : state[t] = "RUNNING"}
Owns(r, t) == state[t] = "RUNNING" /\ owner[t] = r

Fault ==
  /\ faults < MaxFaults
  /\ faults' = faults + 1

Goto(r, t, to) == pc' = [pc EXCEPT ![<<r, t>>] = to]
Let(r, t, l) == loc' = [loc EXCEPT ![<<r, t>>] = l]

\* The runner stops following; nothing it knew is used again.
Leave(r, t) == Goto(r, t, "none") /\ UNCHANGED loc

\* The task ends in the row: state, no owner, no op_deadline.
End(t, final, answer) ==
  /\ state' = [state EXCEPT ![t] = final]
  /\ owner' = [owner EXCEPT ![t] = NoReplica]
  /\ result' = [result EXCEPT ![t] = answer]
  /\ old' = old \ {t}

-----------------------------------------------------------------------------
(* Admission: create_task.                                                  *)

\* Mutated form of Admissible: running tasks of the session are not counted.
AdmissibleBusy(s) ==
  /\ serving
  /\ Cardinality(Running) < MaxRunning
  /\ \A u \in Task : s # NoSession /\ sess[u] = s => fence[u] = NoReplica

\* Neither session_busy nor aborting, too_many or gone.
Admissible(s) ==
  /\ serving
  /\ Cardinality(Running) < MaxRunning
  /\ \A u \in Task : s # NoSession /\ sess[u] = s
                       => state[u] # "RUNNING" /\ fence[u] = NoReplica

\* A task in a new session, or in one that an earlier task created.
Create(r, t, s) ==
  /\ state[t] = "NEW"
  /\ r \notin down
  /\ s = NoSession \/ \E u \in Task : sess[u] = s
  /\ Admissible(s)
  /\ state' = [state EXCEPT ![t] = "RUNNING"]
  /\ owner' = [owner EXCEPT ![t] = r]
  /\ sess' = [sess EXCEPT ![t] = s]
  /\ Goto(r, t, "connect")
  /\ Let(r, t, Fresh(s))
  /\ UNCHANGED <<wish, fence, old, late, result, wire, engine, box, down, faults>>

-----------------------------------------------------------------------------
(* The runner, up to the prompt.                                            *)

Connect(r, t) ==
  /\ pc[<<r, t>>] = "connect"
  /\ alive
  /\ Goto(r, t, IF loc[<<r, t>>].session = NoSession THEN "session" ELSE "prompt")
  /\ UNCHANGED <<table, loc, wire, engine, box, down, faults>>

\* The engine makes a session that no task has.
CreateSession(r, t) ==
  /\ pc[<<r, t>>] = "session"
  /\ alive
  /\ \E s \in Session :
       /\ \A u \in Task : sess[u] # s
       /\ \A c \in Runner : pc[c] = "save" => loc[c].session # s
       /\ Let(r, t, [loc[<<r, t>>] EXCEPT !.session = s])
  /\ Goto(r, t, "save")
  /\ UNCHANGED <<table, wire, engine, box, down, faults>>

SaveSession(r, t) ==
  /\ pc[<<r, t>>] = "save"
  /\ IF Owns(r, t)
     THEN /\ sess' = [sess EXCEPT ![t] = loc[<<r, t>>].session]
          /\ Goto(r, t, "prompt")
          /\ UNCHANGED loc
     ELSE Leave(r, t) /\ UNCHANGED sess
  /\ UNCHANGED <<state, owner, wish, fence, old, late, result, wire, engine, box,
                 down, faults>>

\* The engine takes the prompt: a round of t begins in its session.
Deliver(t, s) ==
  /\ rounds' = [rounds EXCEPT ![s] = @ \cup {t}]
  /\ talk' = [talk EXCEPT ![s] = Append(@, t)]

Prompt(r, t) ==
  /\ pc[<<r, t>>] = "prompt"
  /\ alive
  /\ Deliver(t, loc[<<r, t>>].session)
  /\ Goto(r, t, "follow")
  /\ UNCHANGED <<table, loc, wire, box, down, faults>>

\* A request to the sandbox or the database fails; a prompt may have been taken all
\* the same.  The task will be FAILED.  While a round is followed only the database
\* counts, and when _finish fails it is called once more.
RequestFails(r, t) ==
  /\ pc[<<r, t>>] \in {"connect", "session", "save", "prompt", "follow", "ended", "messages",
                      "finish"}
  /\ IF alive \/ pc[<<r, t>>] \in {"follow", "finish"} THEN Fault ELSE UNCHANGED faults
  /\ Goto(r, t, "finish")
  /\ Let(r, t, [loc[<<r, t>>] EXCEPT !.outcome = "FAILED", !.answer = NoTask])
  /\ \/ UNCHANGED engine
     \/ pc[<<r, t>>] = "prompt" /\ alive /\ Deliver(t, loc[<<r, t>>].session)
  /\ UNCHANGED <<table, wire, box, down>>

-----------------------------------------------------------------------------
(* The runner following a round.                                            *)

\* It stops when it learns that the task is not its own any more.
Lose(r, t) ==
  /\ pc[<<r, t>>] = "follow"
  /\ ~Owns(r, t)
  /\ Leave(r, t)
  /\ UNCHANGED <<table, wire, engine, box, down, faults>>

Heartbeat(r, t) ==
  /\ pc[<<r, t>>] \notin {"none", "listed", "taken"}
  /\ Owns(r, t)
  /\ t \in old
  /\ old' = old \ {t}
  /\ UNCHANGED <<state, owner, sess, wish, fence, late, result, pc, loc, wire, engine,
                 box, down, faults>>

\* Mutated form of DecideAbort: a mark left in the database is not looked for.
DecideAbortLate(r, t) ==
  /\ pc[<<r, t>>] = "follow"
  /\ loc[<<r, t>>].reason = "none"
  /\ t \in late
  /\ Let(r, t, [loc[<<r, t>>] EXCEPT !.reason = "TIMEOUT"])
  /\ Goto(r, t, "begin")
  /\ UNCHANGED <<table, wire, engine, box, down, faults>>

\* The deadline is looked at before the wish.
DecideAbort(r, t) ==
  /\ pc[<<r, t>>] = "follow"
  /\ loc[<<r, t>>].reason = "none"
  /\ t \in late \cup wish
  /\ Let(r, t, [loc[<<r, t>>] EXCEPT
                  !.reason = IF t \in late THEN "TIMEOUT" ELSE "ABORTED"])
  /\ Goto(r, t, "begin")
  /\ UNCHANGED <<table, wire, engine, box, down, faults>>

RetryAbort(r, t) ==
  /\ pc[<<r, t>>] = "follow"
  /\ loc[<<r, t>>].reason # "none" /\ ~loc[<<r, t>>].sent
  /\ Goto(r, t, "begin")
  /\ UNCHANGED <<table, loc, wire, engine, box, down, faults>>

\* begin_abort: only the owner sets the fence.
BeginAbort(r, t) ==
  /\ pc[<<r, t>>] = "begin"
  /\ IF Owns(r, t)
     THEN /\ fence' = [fence EXCEPT ![t] = r]
          /\ Let(r, t, [loc[<<r, t>>] EXCEPT !.alone = fence[t] = NoReplica])
          /\ Goto(r, t, "fenced")
     ELSE Leave(r, t) /\ UNCHANGED fence
  /\ UNCHANGED <<state, owner, sess, wish, old, late, result, wire, engine, box, down,
                 faults>>

\* The database fails: the next round tries again.
BeginAbortFails(r, t) ==
  /\ pc[<<r, t>>] = "begin"
  /\ Fault
  /\ Goto(r, t, "follow")
  /\ \/ UNCHANGED fence
     \/ Owns(r, t) /\ fence' = [fence EXCEPT ![t] = r]
  /\ UNCHANGED <<state, owner, sess, wish, old, late, result, loc, wire, engine, box,
                 down>>

\* The command leaves, with a time limit of its own.
SendAbort(r, t) ==
  /\ pc[<<r, t>>] = "fenced"
  /\ wire' = wire \cup {<<r, t>>}
  /\ Goto(r, t, "aborting")
  /\ UNCHANGED <<table, loc, engine, box, down, faults>>

\* It reaches the engine, which ends every round of the session, or is lost.
AbortArrives(r, t) ==
  /\ <<r, t>> \in wire
  /\ wire' = wire \ {<<r, t>>}
  /\ \/ alive /\ rounds' = [rounds EXCEPT ![sess[t]] = {}]
     \/ pc[<<r, t>>] # "aborting" /\ UNCHANGED rounds
  /\ UNCHANGED <<table, pc, loc, talk, box, down, faults>>

\* Mutated form of AbortAnswered: a fence is given back whoever else has one.
AbortAnsweredAlone(r, t) ==
  /\ pc[<<r, t>>] = "aborting"
  /\ <<r, t>> \notin wire
  /\ Let(r, t, [loc[<<r, t>>] EXCEPT !.sent = TRUE])
  /\ Goto(r, t, "release")
  /\ UNCHANGED <<table, wire, engine, box, down, faults>>

\* Delivered; a fence set while another was in force is left to lapse.
AbortAnswered(r, t) ==
  /\ pc[<<r, t>>] = "aborting"
  /\ <<r, t>> \notin wire
  /\ Let(r, t, [loc[<<r, t>>] EXCEPT !.sent = TRUE])
  /\ Goto(r, t, IF loc[<<r, t>>].alone THEN "release" ELSE "follow")
  /\ UNCHANGED <<table, wire, engine, box, down, faults>>

\* No answer within the time limit: try again later; the command may be under way.
AbortUnanswered(r, t) ==
  /\ pc[<<r, t>>] = "aborting"
  /\ IF alive /\ ~Lossy THEN Fault ELSE UNCHANGED faults
  /\ Goto(r, t, "follow")
  /\ UNCHANGED <<table, loc, wire, engine, box, down>>

\* end_abort: only one's own fence, which lapses anyway if the write fails.
EndAbort(r, t) ==
  /\ pc[<<r, t>>] = "release"
  /\ \/ /\ fence' = IF fence[t] = r THEN [fence EXCEPT ![t] = NoReplica] ELSE fence
        /\ UNCHANGED faults
     \/ Fault /\ UNCHANGED fence
  /\ Goto(r, t, "follow")
  /\ UNCHANGED <<state, owner, sess, wish, old, late, result, loc, wire, engine, box,
                 down>>

-----------------------------------------------------------------------------
(* The end of a task.                                                       *)

\* Mutated form of SeeIdle: a round that is being aborted counts as over.
SeeIdleDecided(r, t) ==
  /\ pc[<<r, t>>] = "follow"
  /\ alive
  /\ rounds[loc[<<r, t>>].session] = {} \/ loc[<<r, t>>].reason # "none"
  /\ Goto(r, t, "ended")
  /\ UNCHANGED <<table, loc, wire, engine, box, down, faults>>

\* The session is idle: an event, or a poll of its status.
SeeIdle(r, t) ==
  /\ pc[<<r, t>>] = "follow"
  /\ alive
  /\ rounds[loc[<<r, t>>].session] = {}
  /\ Goto(r, t, "ended")
  /\ UNCHANGED <<table, loc, wire, engine, box, down, faults>>

\* The poll fails and the sandbox's row is gone.
SeeGone(r, t) ==
  /\ pc[<<r, t>>] = "follow"
  /\ ~alive /\ ~serving
  /\ Goto(r, t, "finish")
  /\ Let(r, t, [loc[<<r, t>>] EXCEPT !.outcome = "FAILED", !.answer = NoTask])
  /\ UNCHANGED <<table, wire, engine, box, down, faults>>

\* The round may have ended before the wish was seen.
AskAgain(r, t) ==
  /\ pc[<<r, t>>] = "ended"
  /\ Let(r, t, IF loc[<<r, t>>].reason = "none" /\ t \in wish
               THEN [loc[<<r, t>>] EXCEPT !.reason = "ABORTED"] ELSE loc[<<r, t>>])
  /\ Goto(r, t, "messages")
  /\ UNCHANGED <<table, wire, engine, box, down, faults>>

\* The answer to the last prompt; the engine may report an error instead.
Messages(r, t) ==
  /\ pc[<<r, t>>] = "messages"
  /\ alive
  /\ LET said == talk[loc[<<r, t>>].session] IN
     \E final \in IF loc[<<r, t>>].reason = "none" THEN {"SUCCEEDED", "FAILED"}
                  ELSE {loc[<<r, t>>].reason} :
       Let(r, t, [loc[<<r, t>>] EXCEPT
                    !.outcome = final,
                    !.answer = IF said = <<>> THEN NoTask ELSE said[Len(said)]])
  /\ Goto(r, t, "finish")
  /\ UNCHANGED <<table, wire, engine, box, down, faults>>

\* Mutated form of Finish: whoever followed the task writes its end.
FinishAnyway(r, t) ==
  /\ pc[<<r, t>>] = "finish"
  /\ End(t, loc[<<r, t>>].outcome, loc[<<r, t>>].answer)
  /\ Leave(r, t)
  /\ UNCHANGED <<sess, wish, fence, late, wire, engine, box, down, faults>>

\* Mutated form of Finish: the reason of an abort is written, even if there is none.
FinishReason(r, t) ==
  /\ pc[<<r, t>>] = "finish"
  /\ IF Owns(r, t)
     THEN End(t, loc[<<r, t>>].reason, loc[<<r, t>>].answer)
     ELSE UNCHANGED <<state, owner, result, old>>
  /\ Leave(r, t)
  /\ UNCHANGED <<sess, wish, fence, late, wire, engine, box, down, faults>>

\* _finish writes the end if the task is still its own.
Finish(r, t) ==
  /\ pc[<<r, t>>] = "finish"
  /\ IF Owns(r, t)
     THEN End(t, loc[<<r, t>>].outcome, loc[<<r, t>>].answer)
     ELSE UNCHANGED <<state, owner, result, old>>
  /\ Leave(r, t)
  /\ UNCHANGED <<sess, wish, fence, late, wire, engine, box, down, faults>>

\* The database fails, for _finish again: the runner ends, or does not begin; its
\* task is not ended.
FinishFails(r, t) ==
  /\ pc[<<r, t>>] \in {"finish", "listed", "taken"}
  /\ Fault
  /\ Leave(r, t)
  /\ UNCHANGED <<table, wire, engine, box, down>>

-----------------------------------------------------------------------------
(* Take-over.                                                               *)

List(r, t) ==
  /\ pc[<<r, t>>] = "none"
  /\ r \notin down
  /\ state[t] = "RUNNING" /\ t \in old
  /\ Let(r, t, [Fresh(sess[t]) EXCEPT !.from = owner[t]])
  /\ Goto(r, t, "listed")
  /\ UNCHANGED <<table, wire, engine, box, down, faults>>

\* The owner must be the one that was read, and still be late.
TakeOver(r, t) ==
  /\ pc[<<r, t>>] = "listed"
  /\ IF Owns(loc[<<r, t>>].from, t) /\ t \in old
     THEN /\ owner' = [owner EXCEPT ![t] = r]
          /\ old' = old \ {t}
          /\ Goto(r, t, "taken")
          /\ UNCHANGED loc
     ELSE Leave(r, t) /\ UNCHANGED <<owner, old>>
  /\ UNCHANGED <<state, sess, wish, fence, late, result, wire, engine, box, down,
                 faults>>

Resume(r, t) ==
  /\ pc[<<r, t>>] = "taken"
  /\ serving /\ loc[<<r, t>>].session # NoSession
  /\ Goto(r, t, "follow")
  /\ UNCHANGED <<table, loc, wire, engine, box, down, faults>>

\* No sandbox, or no session in the row that was read: the task is FAILED.
GiveUp(r, t) ==
  /\ pc[<<r, t>>] = "taken"
  /\ ~serving \/ loc[<<r, t>>].session = NoSession
  /\ IF Owns(r, t) THEN End(t, "FAILED", NoTask)
     ELSE UNCHANGED <<state, owner, result, old>>
  /\ Leave(r, t)
  /\ UNCHANGED <<sess, wish, fence, late, wire, engine, box, down, faults>>

\* The replica is being stopped: it takes nothing over, and its runners give their
\* tasks away as they loop.
Release(r, t) ==
  /\ pc[<<r, t>>] = "follow"
  /\ IF r \in down THEN UNCHANGED faults ELSE Fault
  /\ down' = down \cup {r}
  /\ old' = IF Owns(r, t) THEN old \cup {t} ELSE old
  /\ Leave(r, t)
  /\ UNCHANGED <<state, owner, sess, wish, fence, late, result, wire, engine, box>>

\* A replica dies; a prompt it was sending may still arrive.
Crash(r) ==
  /\ r \notin down
  /\ Fault
  /\ down' = down \cup {r}
  /\ pc' = [c \in Runner |-> IF c[1] = r THEN "none" ELSE pc[c]]
  /\ \/ UNCHANGED engine
     \/ /\ alive
        /\ \E t \in Task : pc[<<r, t>>] = "prompt" /\ Deliver(t, loc[<<r, t>>].session)
  /\ UNCHANGED <<table, loc, wire, box>>

-----------------------------------------------------------------------------
(* Users, time, the engine and the sandbox.                                 *)

\* abort_task only leaves a mark for the runner.
AbortTask(t) ==
  /\ state[t] = "RUNNING"
  /\ t \notin wish
  /\ wish' = wish \cup {t}
  /\ UNCHANGED <<state, owner, sess, fence, old, late, result, pc, loc, wire, engine,
                 box, down, faults>>

DeadlinePasses(t) ==
  /\ ~Patient
  /\ state[t] = "RUNNING"
  /\ t \notin late
  /\ late' = late \cup {t}
  /\ UNCHANGED <<state, owner, sess, wish, fence, old, result, pc, loc, wire, engine,
                 box, down, faults>>

GrowOld(t) ==
  /\ state[t] = "RUNNING"
  /\ t \notin old
  /\ Punctual => pc[<<owner[t], t>>] = "none"
  /\ old' = old \cup {t}
  /\ UNCHANGED <<state, owner, sess, wish, fence, late, result, pc, loc, wire, engine,
                 box, down, faults>>

\* A fence outlasts the command it is for: the time limit is shorter.
Lapse(t) ==
  /\ fence[t] # NoReplica
  /\ \A r \in Replica :
       /\ pc[<<r, t>>] # "aborting" /\ <<r, t>> \notin wire
       /\ DbPrompt => pc[<<r, t>>] # "fenced"
  /\ fence' = [fence EXCEPT ![t] = NoReplica]
  /\ UNCHANGED <<state, owner, sess, wish, old, late, result, pc, loc, wire, engine,
                 box, down, faults>>

RoundEnds(s) ==
  \E t \in rounds[s] :
    /\ rounds' = [rounds EXCEPT ![s] = @ \ {t}]
    /\ UNCHANGED <<table, pc, loc, wire, talk, box, down, faults>>

SandboxDies ==
  /\ alive
  /\ Fault
  /\ alive' = FALSE
  /\ rounds' = [s \in Session |-> {}]
  /\ UNCHANGED <<table, pc, loc, wire, talk, serving, doomed, down>>

\* A reset, the end of its life, or failing health checks.
Doom ==
  /\ serving /\ ~doomed
  /\ IF alive THEN Fault ELSE UNCHANGED faults
  /\ doomed' = TRUE
  /\ UNCHANGED <<table, pc, loc, wire, engine, serving, alive, down>>

\* fail_tasks, one task after the other.
FailTask(t) ==
  /\ doomed
  /\ state[t] = "RUNNING"
  /\ End(t, "FAILED", NoTask)
  /\ UNCHANGED <<sess, wish, fence, late, pc, loc, wire, engine, box, down, faults>>

Destroy ==
  /\ doomed /\ serving
  /\ serving' = FALSE /\ alive' = FALSE
  /\ rounds' = [s \in Session |-> {}]
  /\ UNCHANGED <<table, pc, loc, wire, talk, doomed, down, faults>>

-----------------------------------------------------------------------------
Step(r, t) ==
  \/ Connect(r, t) \/ CreateSession(r, t) \/ SaveSession(r, t) \/ Prompt(r, t)
  \/ RequestFails(r, t) \/ Lose(r, t) \/ DecideAbort(r, t) \/ RetryAbort(r, t)
  \/ BeginAbort(r, t) \/ SendAbort(r, t) \/ AbortAnswered(r, t)
  \/ AbortUnanswered(r, t) \/ EndAbort(r, t) \/ SeeIdle(r, t) \/ SeeGone(r, t)
  \/ AskAgain(r, t) \/ Messages(r, t) \/ Finish(r, t) \/ TakeOver(r, t)
  \/ Resume(r, t) \/ GiveUp(r, t)

Next ==
  \/ \E r \in Replica, t \in Task :
       \/ \E s \in Session \cup {NoSession} : Create(r, t, s)
       \/ Step(r, t) \/ Heartbeat(r, t) \/ AbortArrives(r, t) \/ FinishFails(r, t)
       \/ BeginAbortFails(r, t)
       \/ List(r, t) \/ Release(r, t)
  \/ \E t \in Task :
       \/ AbortTask(t) \/ DeadlinePasses(t) \/ GrowOld(t) \/ Lapse(t) \/ FailTask(t)
  \/ \E r \in Replica : Crash(r)
  \/ \E s \in Session : RoundEnds(s)
  \/ SandboxDies \/ Doom \/ Destroy

Spec == Init /\ [][Next]_vars

\* Event loops run and every request has a timeout; a loop of the runner both looks
\* at the abort and polls the engine, so neither keeps the other from happening.
\* Replicas tick, heartbeats stop with their runner, commands arrive or are lost,
\* and a dead sandbox is found dead by its health checks.
FairSpec ==
  /\ Spec
  /\ \A r \in Replica, t \in Task :
       /\ WF_vars(Step(r, t)) /\ WF_vars(List(r, t)) /\ WF_vars(AbortArrives(r, t))
       /\ SF_vars(SeeIdle(r, t) \/ SeeGone(r, t) \/ Lose(r, t))
  /\ \A t \in Task : WF_vars(GrowOld(t)) /\ WF_vars(FailTask(t))
  /\ WF_vars(~alive /\ Doom) /\ WF_vars(Destroy)

-----------------------------------------------------------------------------
(* Properties.                                                             *)

\* A session has one running task, however many replicas admit, take over and
\* resume tasks at the same time.
OneTaskPerSession ==
  \A t, u \in Running : t # u /\ sess[t] = sess[u] => sess[t] = NoSession

\* An abort command ends no round of a running task but its own, though it names
\* only the session, may be late, and may come from a replica that has lost the
\* task, which may have ended and been followed by another.
AbortHitsItsTask ==
  [][\A c \in wire \ wire' : \A u \in Running \ {c[2]} :
       u \in rounds[sess[c[2]]] => u \in rounds'[sess[c[2]]]]_vars

\* A task that is recorded as having succeeded, or as stopped, is not still being
\* worked on in its session, whoever recorded it.
EndedIsStopped ==
  \A t \in Task : state[t] \in {"SUCCEEDED", "ABORTED", "TIMEOUT"}
                    => \A s \in Session : t \notin rounds[s]

\* If the engine has taken the prompt of a task, a result of that task is the
\* answer to it and never that to another prompt in the session.  (Not in a sandbox
\* that is being destroyed: a runner whose task has been failed may still prompt.)
OwnAnswer ==
  doomed \/ \A t \in Task :
    state[t] = "SUCCEEDED" /\ (\E i \in DOMAIN talk[sess[t]] : talk[sess[t]][i] = t)
      => result[t] = t

\* What a crash before the prompt may leave: a task that succeeded without a
\* result.
OwnAnswerOrNone ==
  \A t \in Task : state[t] = "SUCCEEDED" => result[t] \in {t, NoTask}

\* A task ends once; it is ABORTED only if a user asked for it and TIMEOUT only if
\* its deadline had passed, whoever followed it and however often it changed hands.
Life == INSTANCE TaskLife
ImplementsTaskLife == Life!Spec

\* A task that somebody wants stopped, or whose deadline passes, ends: whatever
\* becomes of its runner, its sandbox and the commands, while a replica is left.
StopEnds ==
  \A t \in Task : t \in wish \cup late ~> state[t] # "RUNNING" \/ down = Replica
=============================================================================
