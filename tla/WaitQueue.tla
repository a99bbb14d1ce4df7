------------------------------ MODULE WaitQueue ------------------------------
(***************************************************************************)
(* The waiting queue of the pool: Allocator.acquire (core/allocator.py)    *)
(* with its heartbeat, and the `waiters` table (store/repository.py) that  *)
(* every replica reads and writes.                                         *)
(*                                                                         *)
(* A request is one coroutine; its pc names the await it is at.  What the  *)
(* rest of the pool does to a sandbox (SandboxPool) is kept to what a      *)
(* request can see: a sandbox appears, pauses, is taken over or is lost.   *)
(***************************************************************************)
EXTENDS Naturals, FiniteSets

CONSTANTS
  Request,       \* calls of acquire
  Sandbox,       \* places of the pool; each holds one sandbox after another
  NoRequest,     \* lease_id IS NULL, and no resume under way
  NoSandbox,     \* no candidate, or one that changed since it was read
  QueueMax,      \* queue_max
  StrictFifo,    \* strict_fifo
  PauseEnabled,  \* pause_enabled
  MaxAttempts,   \* _MAX_CLAIM_ATTEMPTS
  Patient,       \* no deadline passes: wait_timeout_s is longer than the run
  Punctual,      \* a live request's heartbeat is never as late as the timeout
  MaxFaults      \* bound on failures of the platform, losses and take-overs

ASSUME WaitQueueConstants ==
  /\ IsFiniteSet(Request) /\ IsFiniteSet(Sandbox)
  /\ NoRequest \notin Request
  /\ NoSandbox \notin Sandbox
  /\ QueueMax \in Nat
  /\ MaxAttempts \in Nat \ {0}
  /\ MaxFaults \in Nat
  /\ {StrictFifo, PauseEnabled, Patient, Punctual} \subseteq BOOLEAN

VARIABLES
  pc,        \* Request -> where acquire is
  seq,       \* Request -> its waiters.seq, 0 before it is enqueued
  waiter,    \* Request -> waiters.state, "NONE" before it is enqueued
  tries,     \* Request -> failed attempts of the current _try_claim
  cand,      \* Request -> the row read as a candidate, while it is unchanged
  late,      \* requests whose deadline has passed
  stale,     \* waiters whose heartbeat_at is older than the timeout
  lost,      \* requests whose _Heartbeat.lost is set
  gone,      \* requests whose client has disconnected
  sandbox,   \* Sandbox -> state of its row, "NONE" without one
  holder,    \* Sandbox -> the request that resumes or leases it
  quiet,     \* this tick's pause_idle counted no waiter
  draining,  \* pool_kv.draining
  faults     \* failures so far

request == <<pc, seq, waiter, tries, cand>>
clocks == <<late, stale, lost, gone>>
pool == <<sandbox, holder, quiet, draining, faults>>
vars == <<pc, seq, waiter, tries, cand, late, stale, lost, gone, sandbox,
          holder, quiet, draining, faults>>

Final == {"refused", "answered", "dead"}

TypeOK ==
  /\ pc \in [Request -> {"idle", "arrived", "count", "enqueue", "loop", "position",
                         "turn", "noTurn", "list", "cas", "setTimeout", "endLease",
                         "revert", "resume", "finish", "hand"} \cup Final]
  /\ seq \in [Request -> Nat]
  /\ waiter \in [Request -> {"NONE", "WAITING", "GRANTED", "TIMEOUT", "CANCELLED"}]
  /\ tries \in [Request -> 0..MaxAttempts]
  /\ cand \in [Request -> Sandbox \cup {NoSandbox}]
  /\ late \subseteq Request /\ stale \subseteq Request
  /\ lost \subseteq Request /\ gone \subseteq Request
  /\ sandbox \in [Sandbox ->
       {"NONE", "READY", "PAUSING", "PAUSED", "RESUMING", "LEASED"}]
  /\ holder \in [Sandbox -> Request \cup {NoRequest}]
  /\ quiet \in BOOLEAN /\ draining \in BOOLEAN
  /\ faults \in 0..MaxFaults

Init ==
  /\ pc = [q \in Request |-> "idle"]
  /\ seq = [q \in Request |-> 0]
  /\ waiter = [q \in Request |-> "NONE"]
  /\ tries = [q \in Request |-> 0]
  /\ cand = [q \in Request |-> NoSandbox]
  /\ late = {} /\ stale = {} /\ lost = {} /\ gone = {}
  /\ sandbox \in [Sandbox -> {"READY", "PAUSED"}]
  /\ holder = [s \in Sandbox |-> NoRequest]
  /\ quiet = FALSE /\ draining = FALSE
  /\ faults = 0

-----------------------------------------------------------------------------
(* The tables.                                                             *)

Waiting == {q \in Request : waiter[q] = "WAITING"}
Available == {s \in Sandbox : sandbox[s] \in {"READY", "PAUSED", "RESUMING"}}
Ahead(q) == {p \in Waiting : seq[p] < seq[q]}

\* A candidate of _try_claim: READY before PAUSED.
Candidates ==
  LET ready == {s \in Sandbox : sandbox[s] = "READY"} IN
  IF ready # {} THEN ready ELSE {s \in Sandbox : sandbox[s] = "PAUSED"}

\* An UPDATE of the row of s: who read it before has a version that is not current.
Move(s, state, h) ==
  /\ sandbox' = [sandbox EXCEPT ![s] = state]
  /\ holder' = [holder EXCEPT ![s] = h]
  /\ cand' = [p \in Request |-> IF cand[p] = s THEN NoSandbox ELSE cand[p]]

\* cas_waiter
CasWaiter(q, from, to) ==
  waiter' = IF waiter[q] = from THEN [waiter EXCEPT ![q] = to] ELSE waiter

\* Mutated form of GrantWaiter: a waiter already timed out is left as it is.
GrantWaiting(q) == CasWaiter(q, "WAITING", "GRANTED")

\* _grant_waiter, in the transaction that leases the sandbox.
GrantWaiter(q) ==
  waiter' = IF waiter[q] \in {"WAITING", "TIMEOUT"}
            THEN [waiter EXCEPT ![q] = "GRANTED"] ELSE waiter

Fault ==
  /\ faults < MaxFaults
  /\ faults' = faults + 1

Goto(q, to) == pc' = [pc EXCEPT ![q] = to]

\* The request is in the queue: its heartbeat task runs and its handlers apply.
Queued(q) == seq[q] # 0 /\ pc[q] \notin Final

-----------------------------------------------------------------------------
(* acquire, up to the queue.                                               *)

Arrive(q) ==
  /\ pc[q] = "idle"
  /\ Goto(q, "arrived")
  /\ UNCHANGED <<seq, waiter, tries, cand, clocks, pool>>

\* PoolDraining, or on to the queue; without strict_fifo, past it when it is empty.
Admit(q) ==
  /\ pc[q] = "arrived"
  /\ Goto(q, IF draining THEN "refused" ELSE IF StrictFifo THEN "enqueue" ELSE "count")
  /\ UNCHANGED <<seq, waiter, tries, cand, clocks, pool>>

Count(q) ==
  /\ pc[q] = "count"
  /\ Goto(q, IF Waiting = {} THEN "list" ELSE "enqueue")
  /\ UNCHANGED <<seq, waiter, tries, cand, clocks, pool>>

\* Mutated form of Enqueue: the waiters are counted before the lock is taken.
EnqueueUncounted(q) ==
  /\ pc[q] = "enqueue"
  /\ seq' = [seq EXCEPT ![q] = 1 + Cardinality({p \in Request : seq[p] # 0})]
  /\ waiter' = [waiter EXCEPT ![q] = "WAITING"]
  /\ Goto(q, "loop")
  /\ UNCHANGED <<tries, cand, clocks, pool>>

\* Under the pool's lock row: QueueFull, or a waiter with the next seq.
Enqueue(q) ==
  \/ /\ Cardinality(Waiting) < QueueMax + IF StrictFifo THEN Cardinality(Available) ELSE 0
     /\ EnqueueUncounted(q)
  \/ /\ pc[q] = "enqueue"
     /\ Cardinality(Waiting) >= QueueMax + IF StrictFifo THEN Cardinality(Available) ELSE 0
     /\ Goto(q, "refused")
     /\ UNCHANGED <<seq, waiter, tries, cand, clocks, pool>>

-----------------------------------------------------------------------------
(* The loop of a queued request.                                           *)

\* The deadline is checked first, then the client, then the heartbeat.  Each of
\* them stays true, so a round that passes them all is a step of its own; the
\* deadline may pass while the client is being asked.
GiveUp(q) ==
  /\ pc[q] = "loop"
  /\ \/ q \in late /\ CasWaiter(q, "WAITING", "TIMEOUT")
     \/ q \in gone /\ CasWaiter(q, "WAITING", "CANCELLED")
     \/ q \in lost /\ UNCHANGED waiter
  /\ Goto(q, "refused")
  /\ UNCHANGED <<seq, tries, cand, clocks, pool>>

Proceed(q) ==
  /\ pc[q] = "loop"
  /\ q \notin late \cup gone \cup lost
  /\ Goto(q, "position")
  /\ UNCHANGED <<seq, waiter, tries, cand, clocks, pool>>

\* Mutated form of Position: the head of the queue alone may claim, and anyone may.
PositionIgnored(q) ==
  /\ pc[q] = "position"
  /\ Goto(q, IF Available # {} THEN "turn" ELSE "loop")
  /\ UNCHANGED <<seq, waiter, tries, cand, clocks, pool>>

\* queue_position, one read: one's turn, the head without a sandbox, or sleep.
Position(q) ==
  /\ pc[q] = "position"
  /\ LET ahead == Cardinality(Ahead(q)) IN
     Goto(q, IF ahead < Cardinality(Available) THEN "turn"
             ELSE IF ahead = 0 THEN "noTurn" ELSE "loop")
  /\ UNCHANGED <<seq, waiter, tries, cand, clocks, pool>>

Turn(q) ==
  /\ pc[q] \in {"turn", "noTurn"}
  /\ IF draining
     THEN CasWaiter(q, "WAITING", "CANCELLED") /\ Goto(q, "refused")
     ELSE UNCHANGED waiter /\ Goto(q, IF pc[q] = "turn" THEN "list" ELSE "loop")
  /\ UNCHANGED <<seq, tries, cand, clocks, pool>>

-----------------------------------------------------------------------------
(* _try_claim, queued or not.                                              *)

\* No grant: back to sleep, or into the queue.
NoGrant(q) ==
  /\ Goto(q, IF seq[q] = 0 THEN "enqueue" ELSE "loop")
  /\ tries' = [tries EXCEPT ![q] = 0]

\* Mutated form of NextAttempt: one attempt too many.
NextAttemptLate(q) ==
  IF tries[q] <= MaxAttempts
  THEN Goto(q, "list") /\ tries' = [tries EXCEPT ![q] = @ + 1]
  ELSE NoGrant(q)

\* The attempt failed: another candidate, up to MaxAttempts of them.
NextAttempt(q) ==
  IF tries[q] + 1 < MaxAttempts
  THEN Goto(q, "list") /\ tries' = [tries EXCEPT ![q] = @ + 1]
  ELSE NoGrant(q)

List(q) ==
  /\ pc[q] = "list"
  /\ IF Candidates = {}
     THEN NoGrant(q) /\ UNCHANGED cand
     ELSE \E s \in Candidates :
            /\ cand' = [cand EXCEPT ![q] = s]
            /\ Goto(q, "cas")
            /\ UNCHANGED tries
  /\ UNCHANGED <<seq, waiter, clocks, pool>>

\* The candidate changed since it was read: the CAS finds no row.
LoseRace(q) ==
  /\ pc[q] = "cas"
  /\ cand[q] = NoSandbox
  /\ NextAttempt(q)
  /\ UNCHANGED <<seq, waiter, cand, clocks, pool>>

\* claim_ready: the lease and the waiter in one transaction.
ClaimReady(q) ==
  /\ pc[q] = "cas"
  /\ cand[q] # NoSandbox
  /\ sandbox[cand[q]] = "READY"
  /\ Move(cand[q], "LEASED", q)
  /\ GrantWaiter(q)
  /\ Goto(q, "setTimeout")
  /\ UNCHANGED <<seq, tries, clocks, quiet, draining, faults>>

\* The PAUSED row becomes RESUMING; the waiter is still WAITING.
ClaimPaused(q) ==
  /\ pc[q] = "cas"
  /\ cand[q] # NoSandbox
  /\ sandbox[cand[q]] = "PAUSED"
  /\ Move(cand[q], "RESUMING", q)
  /\ Goto(q, "resume")
  /\ UNCHANGED <<seq, waiter, tries, clocks, quiet, draining, faults>>

SetTimeout(q) ==
  /\ pc[q] = "setTimeout"
  /\ \/ Goto(q, "hand") /\ UNCHANGED faults
     \/ Goto(q, "endLease") /\ Fault
  /\ UNCHANGED <<seq, waiter, tries, cand, clocks, sandbox, holder, quiet, draining>>

\* Mutated form of EndFailed: the unusable sandbox stays leased.
EndFailedKeeping(q) ==
  /\ pc[q] = "endLease"
  /\ IF seq[q] # 0 THEN Goto(q, "revert") /\ UNCHANGED tries ELSE NextAttempt(q)
  /\ UNCHANGED <<seq, waiter, cand, clocks, pool>>

\* end_lease: the lease is FAILED and its sandbox goes.
EndFailed(q) ==
  /\ pc[q] = "endLease"
  /\ IF seq[q] # 0 THEN Goto(q, "revert") /\ UNCHANGED tries ELSE NextAttempt(q)
  /\ \/ \E s \in Sandbox : holder[s] = q /\ Move(s, "NONE", NoRequest)
     \/ (\A s \in Sandbox : holder[s] # q) /\ UNCHANGED <<sandbox, holder, cand>>
  /\ UNCHANGED <<seq, waiter, clocks, quiet, draining, faults>>

\* In a later transaction the waiter goes back to the queue, in its old place.
Revert(q) ==
  /\ pc[q] = "revert"
  /\ CasWaiter(q, "GRANTED", "WAITING")
  /\ NextAttempt(q)
  /\ UNCHANGED <<seq, cand, clocks, pool>>

\* The resume fails: the row is destroyed if it is still ours.
Resume(q) ==
  /\ pc[q] = "resume"
  /\ \/ Goto(q, "finish") /\ UNCHANGED <<tries, cand, sandbox, holder, faults>>
     \/ /\ Fault
        /\ NextAttempt(q)
        /\ \/ \E s \in Sandbox : holder[s] = q /\ Move(s, "NONE", NoRequest)
           \/ (\A s \in Sandbox : holder[s] # q) /\ UNCHANGED <<sandbox, holder, cand>>
  /\ UNCHANGED <<seq, waiter, clocks, quiet, draining>>

\* finish_resume, unless the row was taken over.
Finish(q) ==
  /\ pc[q] = "finish"
  /\ \/ \E s \in Sandbox :
          /\ holder[s] = q
          /\ Move(s, "LEASED", q)
          /\ GrantWaiter(q)
          /\ Goto(q, "hand")
          /\ UNCHANGED tries
     \/ /\ \A s \in Sandbox : holder[s] # q
        /\ NextAttempt(q)
        /\ UNCHANGED <<waiter, sandbox, holder, cand>>
  /\ UNCHANGED <<seq, clocks, quiet, draining, faults>>

\* _hand_over: the sandbox goes back when the client has left.
Hand(q) ==
  /\ pc[q] = "hand"
  /\ Goto(q, IF q \in gone THEN "refused" ELSE "answered")
  /\ \/ \E s \in Sandbox : q \in gone /\ holder[s] = q /\ Move(s, "NONE", NoRequest)
     \/ /\ q \in gone => \A s \in Sandbox : holder[s] # q
        /\ UNCHANGED <<sandbox, holder, cand>>
  /\ UNCHANGED <<seq, waiter, tries, clocks, quiet, draining, faults>>

-----------------------------------------------------------------------------
(* The heartbeat task, clients and time.                                   *)

\* Mutated form of Heartbeat: only WAITING counts as valid.
HeartbeatWaiting(q) ==
  /\ Queued(q)
  /\ q \notin lost
  /\ IF waiter[q] = "WAITING"
     THEN stale' = stale \ {q} /\ UNCHANGED lost
     ELSE lost' = lost \cup {q} /\ UNCHANGED stale
  /\ UNCHANGED <<request, late, gone, pool>>

Heartbeat(q) ==
  /\ Queued(q)
  /\ q \notin lost
  /\ IF waiter[q] \in {"WAITING", "GRANTED"}
     THEN stale' = stale \ {q} /\ UNCHANGED lost
     ELSE lost' = lost \cup {q} /\ UNCHANGED stale
  /\ UNCHANGED <<request, late, gone, pool>>

\* No heartbeat for waiter_heartbeat_timeout_s.
GoStale(q) ==
  /\ waiter[q] = "WAITING"
  /\ Punctual => pc[q] \in Final
  /\ stale' = stale \cup {q}
  /\ UNCHANGED <<request, late, lost, gone, pool>>

DeadlinePasses(q) ==
  /\ ~Patient
  /\ Queued(q)
  /\ late' = late \cup {q}
  /\ UNCHANGED <<request, stale, lost, gone, pool>>

Disconnect(q) ==
  /\ pc[q] \notin Final \cup {"idle"}
  /\ gone' = gone \cup {q}
  /\ UNCHANGED <<request, late, stale, lost, pool>>

\* The process dies, or the coroutine is cancelled: in the queue, the handler
\* of CancelledError gives its waiter up.
Stop(q) ==
  /\ pc[q] \notin Final \cup {"idle"}
  /\ Fault
  /\ Goto(q, "dead")
  /\ \/ UNCHANGED waiter
     \/ Queued(q) /\ CasWaiter(q, "WAITING", "CANCELLED")
  /\ UNCHANGED <<seq, tries, cand, clocks, sandbox, holder, quiet, draining>>

-----------------------------------------------------------------------------
(* The maintainer and the rest of the pool.                                *)

\* Mutated form of ExpireWaiters: only the deadline counts.
ExpireLate ==
  /\ Waiting \cap late # {}
  /\ waiter' = [q \in Request |-> IF q \in Waiting \cap late
                                  THEN "TIMEOUT" ELSE waiter[q]]
  /\ UNCHANGED <<pc, seq, tries, cand, clocks, pool>>

\* expire_waiters
ExpireWaiters ==
  /\ Waiting \cap (late \cup stale) # {}
  /\ waiter' = [q \in Request |-> IF q \in Waiting \cap (late \cup stale)
                                  THEN "TIMEOUT" ELSE waiter[q]]
  /\ UNCHANGED <<pc, seq, tries, cand, clocks, pool>>

\* pause_idle counts the waiters once, and pauses row after row.
CountBeforePausing ==
  /\ PauseEnabled
  /\ ~draining
  /\ quiet' = (Waiting = {})
  /\ UNCHANGED <<request, clocks, sandbox, holder, draining, faults>>

Pause(s) ==
  /\ \/ quiet /\ sandbox[s] = "READY" /\ Move(s, "PAUSING", NoRequest)
     \/ sandbox[s] = "PAUSING" /\ Move(s, "PAUSED", NoRequest)
  /\ UNCHANGED <<pc, seq, waiter, tries, clocks, quiet, draining, faults>>

\* A new sandbox becomes READY.
Replenish(s) ==
  /\ sandbox[s] = "NONE"
  /\ ~draining
  /\ Move(s, "READY", NoRequest)
  /\ UNCHANGED <<pc, seq, waiter, tries, clocks, quiet, draining, faults>>

\* A lease is released or expires; its sandbox is destroyed.
LeaseEnds(s) ==
  /\ sandbox[s] = "LEASED"
  /\ pc[holder[s]] \in Final
  /\ Move(s, "NONE", NoRequest)
  /\ UNCHANGED <<pc, seq, waiter, tries, clocks, quiet, draining, faults>>

\* The sandbox vanishes or is retired, or a resume that is too slow is taken
\* over and its sandbox adopted.
Disturb(s) ==
  /\ Fault
  /\ \/ sandbox[s] # "NONE" /\ Move(s, "NONE", NoRequest)
     \/ sandbox[s] = "RESUMING" /\ Move(s, "READY", NoRequest)
  /\ UNCHANGED <<pc, seq, waiter, tries, clocks, quiet, draining>>

\* A resume whose request is dead is taken over as well, and is no new failure.
Recover(s) ==
  /\ sandbox[s] = "RESUMING"
  /\ pc[holder[s]] = "dead"
  /\ \E state \in {"READY", "NONE"} : Move(s, state, NoRequest)
  /\ UNCHANGED <<pc, seq, waiter, tries, clocks, quiet, draining, faults>>

\* The administrator drains the pool; what is idle is destroyed.
Drain ==
  /\ ~draining
  /\ draining' = TRUE
  /\ UNCHANGED <<request, clocks, sandbox, holder, quiet, faults>>

DrainIdle(s) ==
  /\ draining
  /\ sandbox[s] \in {"READY", "PAUSED"}
  /\ Move(s, "NONE", NoRequest)
  /\ UNCHANGED <<pc, seq, waiter, tries, clocks, quiet, draining, faults>>

-----------------------------------------------------------------------------
Step(q) ==
  \/ Admit(q) \/ Count(q) \/ Enqueue(q) \/ GiveUp(q) \/ Proceed(q) \/ Position(q)
  \/ Turn(q) \/ List(q) \/ LoseRace(q) \/ ClaimReady(q) \/ ClaimPaused(q)
  \/ SetTimeout(q) \/ EndFailed(q) \/ Revert(q) \/ Resume(q) \/ Finish(q) \/ Hand(q)

Next ==
  \/ \E q \in Request :
       \/ Arrive(q) \/ Step(q) \/ Heartbeat(q) \/ GoStale(q) \/ DeadlinePasses(q)
       \/ Disconnect(q) \/ Stop(q)
  \/ \E s \in Sandbox :
       \/ Pause(s) \/ Replenish(s) \/ LeaseEnds(s) \/ Disturb(s) \/ Recover(s)
       \/ DrainIdle(s)
  \/ ExpireWaiters \/ CountBeforePausing \/ Drain

Spec == Init /\ [][Next]_vars

\* Event loops run, every request to the platform has a timeout, every replica
\* ticks, created sandboxes become READY, and every lease ends at hard_deadline.
FairSpec ==
  /\ Spec
  /\ \A q \in Request :
       WF_vars(Step(q)) /\ WF_vars(GoStale(q) /\ pc[q] \in Final)
  /\ \A s \in Sandbox :
       /\ WF_vars(Replenish(s)) /\ WF_vars(LeaseEnds(s)) /\ WF_vars(Recover(s))
       /\ WF_vars(Pause(s) /\ sandbox[s] = "PAUSING")
  /\ WF_vars(ExpireWaiters)

-----------------------------------------------------------------------------
(* Properties.                                                             *)

Held(q) == {s \in Sandbox : holder[s] = q}

\* A request never has two sandboxes, resuming or leased, however often an
\* attempt failed, was taken over or was repeated; and one that was refused has
\* none: nothing it claimed stays behind under a lease nobody knows.
NothingLeftBehind ==
  \A q \in Request :
    /\ Cardinality(Held(q)) <= 1
    /\ pc[q] = "refused" => Held(q) = {}

\* A queued request that was answered is GRANTED, even if it was judged late
\* while it was claiming; no record stays behind that counts as a waiter.
AnsweredIsGranted ==
  \A q \in Request :
    /\ pc[q] = "answered" /\ seq[q] # 0 => waiter[q] = "GRANTED"
    /\ pc[q] = "refused" => waiter[q] # "GRANTED" \/ q \in gone

\* At most queue_max requests wait; in strict mode those for whom a sandbox is
\* available are not counted.  (Draining takes those sandboxes away.)
QueueBound ==
  draining \/ Cardinality(Waiting) <= QueueMax + IF StrictFifo THEN Cardinality(Available) ELSE 0

\* First come, first served: when a queued request gets its sandbox, one is left
\* for each request that waits in front of it.  (A draining pool refuses those.)
FirstCome ==
  [][\A q \in Request :
       waiter[q] = "WAITING" /\ waiter'[q] = "GRANTED" /\ ~draining
         => Cardinality(Ahead(q)) < Cardinality(Available)]_vars

\* A request in the queue is answered in the end, unless its client leaves, its
\* process stops or the pool is drained: no failed attempt, lost race, take-over
\* or record of a dead waiter blocks the queue for ever.
EveryRequestAnswered ==
  \A q \in Request :
    pc[q] = "loop" ~> pc[q] \in {"answered", "dead"} \/ q \in gone \/ draining

\* The record of a request whose process died stops counting as a waiter.
GhostsLeave == \A q \in Request : pc[q] \in Final ~> waiter[q] # "WAITING"
=============================================================================
