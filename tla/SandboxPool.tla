----------------------------- MODULE SandboxPool -----------------------------
(***************************************************************************)
(* The sandbox pool: any number of replicas sharing one database and one   *)
(* cloud platform (core/pool.py composing allocator.py, maintainer.py and  *)
(* lifecycle.py).  Added here: the administrator's operations, coroutines  *)
(* that die, time, and sandboxes that the platform reclaims by itself.     *)
(***************************************************************************)
EXTENDS Allocator, Maintainer

CONSTANTS
  Prompt,      \* TRUE: a live coroutine finishes its operation by op_deadline
  MaxCrashes   \* bound: coroutines that die

ASSUME SandboxPoolConstants == Prompt \in BOOLEAN

VARIABLE crashes

vars == <<storeVars, lifecycleVars, crashes>>

Init ==
  /\ StoreInit(NoRow)
  /\ LifecycleInit
  /\ crashes = 0

-----------------------------------------------------------------------------
(* Administration (core/pool.py).                                          *)

Drain ==
  /\ draining' = TRUE
  /\ UNCHANGED <<rows, overdue, leases, lapsed, lifecycleVars, crashes>>

Undrain ==
  /\ draining' = FALSE
  /\ UNCHANGED <<rows, overdue, leases, lapsed, lifecycleVars, crashes>>

\* destroy_sandbox: a leased sandbox loses its lease first, an idle one is
\* destroyed, one in a transitional state is refused.
AdminDestroy(c, r) ==
  /\ \/ rows[r].state = "LEASED" /\ BeginEnd(c, "adminEnd", rows[r].lease, "RELEASED")
     \/ rows[r].state \in {"READY", "PAUSED"} /\ Begin(c, "destroy", r)
  /\ UNCHANGED <<storeVars, cloud, crashes>>

-----------------------------------------------------------------------------
(* The environment.                                                        *)

\* A coroutine ends where it is: its process dies, it is cancelled, or the
\* database fails it.  (A replica's death is the end of all its coroutines.)
Crash(c) ==
  /\ crashes < MaxCrashes
  /\ ~At(c, "idle")
  /\ Finish(c)
  /\ crashes' = crashes + 1
  /\ UNCHANGED <<storeVars, cloud>>

\* Awaits of the operation that owns the row: between two requests to the
\* platform, or before the write that follows one.
OwnerPc ==
  CallPc \cup {"created", "warmed", "createFailed", "bootFailed", "discardRow",
              "resumed", "resumeFailed", "paused", "pauseFailed", "delete"}

\* Coroutines that keep the deadline of row r from passing.
\* provider.check_deadlines makes every op_deadline longer than the request
\* timeout of the platform call it covers, so none passes during a call.  That
\* the database writes around the call are as quick is not checked anywhere:
\* it is assumed only where Prompt is TRUE.
Busy(r) ==
  {c \in Coroutine :
     /\ co[c].row = r
     /\ \/ co[c].pc \in CallPc
        \/ Prompt /\ Home[c] = rows[r].owner /\ co[c].pc \in OwnerPc}

\* op_deadline passes.
DeadlinePasses(r) ==
  /\ rows[r].state \in Transitional /\ r \notin overdue
  /\ Busy(r) = {}
  /\ overdue' = overdue \cup {r}
  /\ UNCHANGED <<rows, leases, lapsed, draining, lifecycleVars, crashes>>

\* expires_at passes.  A renewal needs an unexpired lease, so it is final.
LeaseLapses(l) ==
  /\ leases[l].state = "ACTIVE" /\ l \notin lapsed
  /\ lapsed' = lapsed \cup {l}
  /\ UNCHANGED <<rows, overdue, leases, draining, lifecycleVars, crashes>>

\* The platform reclaims a sandbox: its own timeout, or a failure.
Vanish(r) ==
  /\ Live(r)
  /\ cloud' = [cloud EXCEPT ![r] = "gone"]
  /\ UNCHANGED <<storeVars, co, crashes>>

-----------------------------------------------------------------------------

CoroutineStep(c) ==
  \/ DestroyCas(c) \/ Kill(c) \/ DeleteRow(c) \/ EndLeaseCas(c) \/ EndRow(c)
  \/ AllocatorNext(c)
  \/ MaintainerNext(c)

Next ==
  \/ \E c \in Coroutine : CoroutineStep(c) /\ UNCHANGED crashes
  \/ \E c \in Coroutine, r \in Row : AdminDestroy(c, r)
  \/ \E c \in Coroutine : Crash(c)
  \/ Drain \/ Undrain
  \/ \E r \in Row : DeadlinePasses(r) \/ Vanish(r)
  \/ \E l \in LeaseId :
       \/ LeaseLapses(l)
       \/ PurgeLease(l) /\ UNCHANGED <<lifecycleVars, crashes>>

Spec == Init /\ [][Next]_vars

\* Fairness.  An event loop resumes every coroutine whose await has ended, and
\* every request to the platform has a timeout.
Continue(c) == ~At(c, "idle") /\ CoroutineStep(c) /\ UNCHANGED crashes

\* Each tick of each maintenance loop goes over every row and lease, and starts
\* work on it whether or not other coroutines are busy.
Tick(A(_, _), x) == \E c \in Coroutine : A(c, x) /\ UNCHANGED crashes

\* The platform does not refuse the same kind of request for ever.
KillWorks(r) ==
  \E c \in Coroutine : co[c].row = r /\ (Kill(c) \/ Discard(c)) /\ cloud'[r] = "gone"
                                     /\ UNCHANGED crashes
KillReported(r) ==
  \E c \in Coroutine : co[c].row = r /\ Kill(c) /\ co'[c].pc = "delete" /\ UNCHANGED crashes
Listed(r) ==
  \E c \in Coroutine : co[c].row = r /\ ListPlatform(c) /\ co'[c].pc = "listed"
                                     /\ UNCHANGED crashes

Fairness ==
  /\ \A c \in Coroutine : WF_vars(Continue(c))
  /\ \A r \in Row :
       /\ SF_vars(Tick(RecoverStuck, r))
       /\ SF_vars(Tick(FixOrphan, r))
       /\ SF_vars(Tick(DrainIdle, r))
       /\ SF_vars(Tick(Reconcile, r))
       /\ SF_vars(Listed(r))
       /\ SF_vars(\E c \in Coroutine : co[c].row = r /\ KillOrphan(c) /\ UNCHANGED crashes)
       /\ SF_vars(KillWorks(r)) /\ SF_vars(KillReported(r))
       /\ WF_vars(DeadlinePasses(r))
  /\ \A l \in LeaseId : SF_vars(Tick(ExpireLease, l)) /\ WF_vars(LeaseLapses(l))

FairSpec == Spec /\ Fairness

-----------------------------------------------------------------------------
(* Safety.                                                                 *)

TypeOK ==
  /\ rows \in [Row -> RowRecord]
  /\ overdue \subseteq Row
  /\ leases \in [LeaseId -> LeaseRecord(NoRow)]
  /\ lapsed \subseteq LeaseId
  /\ draining \in BOOLEAN
  /\ cloud \in [Row -> CloudState]
  /\ co \in [Coroutine -> CoRecord]
  /\ crashes \in Nat

\* Every ACTIVE lease holds its sandbox exclusively: the row is LEASED under
\* exactly that lease, whatever recovery, expiry, draining, retirement or
\* another request was doing with the row when it was claimed.
ActiveLeaseHeld ==
  \A l \in LeaseId :
    leases[l].state = "ACTIVE" =>
      /\ leases[l].row \in Row
      /\ rows[leases[l].row].state = "LEASED"
      /\ rows[leases[l].row].lease = l

\* A sandbox is borrowed at most once in its life ("returned means destroyed":
\* no borrower ever gets a sandbox somebody else has used).
NeverReused ==
  \A k, l \in LeaseId :
    k # l /\ leases[k].state # "NONE" /\ leases[l].state # "NONE" =>
      leases[k].row # leases[l].row

\* The pool implements Lending: a sandbox is idle until it is leased or given
\* up, held as long as its lease is ACTIVE, and spent from then on.
Sandbox(r) ==
  CASE rows[r].state = "ABSENT" -> "unborn"
    [] rows[r].state \in {"DESTROYING", "DELETED"} -> "spent"
    [] rows[r].state = "LEASED" ->
         IF leases[rows[r].lease].state = "ACTIVE" THEN "held" ELSE "spent"
    [] OTHER -> "idle"

Borrowed(l) ==
  [state |-> CASE leases[l].state = "NONE" -> "unused"
               [] leases[l].state = "ACTIVE" -> "active"
               [] OTHER -> "ended",
   of |-> leases[l].row]

Promised ==
  INSTANCE Lending WITH
    sandbox <- [r \in Row |-> Sandbox(r)],
    lease <- [l \in LeaseId |-> Borrowed(l)]

\* Every lease is exclusive and final, whatever recovery, expiry, draining and
\* reconciliation do: end_lease's first transaction already takes the sandbox
\* out of use, though its record is destroyed later or by another replica.
ImplementsLending == Promised!Spec

\* The pool never holds more records than its limit, though every replica
\* replenishes it independently.
CapacityKept == Cardinality(Present) <= Limit

\* A record that can be handed out or is handed out never stands for a sandbox
\* that is paused behind its back: after any take-over or failed pause, READY
\* and LEASED mean running (or reclaimed by the platform).
UsableIsRunning ==
  \A r \in Row : rows[r].state \in {"READY", "LEASED"} => cloud[r] \in {"running", "gone"}

\* A record is forgotten only when its sandbox is dead.  The one leak left to
\* reconcile is a sandbox whose id never reached the record.
NoSilentLeak ==
  \A r \in Row : rows[r].state = "DELETED" /\ rows[r].known => cloud[r] = "gone"

\* No step of the pool destroys or pauses a sandbox under an ACTIVE lease; only
\* the platform can take it away.
LeasedUndisturbed ==
  [][\A l \in LeaseId :
       LET r == leases[l].row IN
       leases[l].state = "ACTIVE" /\ ~Vanish(r) => cloud'[r] = cloud[r]]_vars

-----------------------------------------------------------------------------
(* Liveness.                                                               *)

\* Whatever dies in the middle of an operation, its record does not stay in a
\* transitional state: the slot it occupies comes back.
StuckIsRecovered ==
  \A r \in Row : rows[r].state \in Transitional ~> rows[r].state \notin Transitional

\* Every lease ends, also one whose holder never returns it, and its sandbox
\* is dead and its record gone soon after.
LeaseIsReclaimed ==
  \A l \in LeaseId, r \in Row :
    leases[l] = [state |-> "ACTIVE", row |-> r] ~>
      leases[l].state # "ACTIVE" /\ rows[r].state = "DELETED" /\ cloud[r] = "gone"

\* A pool that is left draining empties.
DrainEmpties == <>[]draining => <>[](Present = {})

\* A sandbox whose record is gone is found on the platform and killed.
OrphanIsKilled ==
  \A r \in Row : rows[r].state = "DELETED" /\ Live(r) ~> ~Live(r)

=============================================================================
