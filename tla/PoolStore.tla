------------------------------ MODULE PoolStore ------------------------------
(***************************************************************************)
(* The database shared by every replica of the sandbox pool                *)
(* (store/repository.py): the `sandboxes` and `leases` tables and the      *)
(* drain flag of `pool_kv`, with the transactions that write them.         *)
(*                                                                         *)
(* One transaction is one atomic step.  A conditional UPDATE is a guard on *)
(* the row (its state and, depending on the caller, its version or its     *)
(* owner) plus the new columns; every UPDATE increments `version`.         *)
(* Timestamps are abstracted to two sets: the rows whose op_deadline has   *)
(* passed and the leases whose expires_at has passed.                      *)
(***************************************************************************)
EXTENDS Naturals, FiniteSets

CONSTANTS
  Row,        \* ids of sandbox records; uuid4, so an id is never used twice
  LeaseId,    \* ids of leases, never used twice either
  Replica,    \* replica ids: the values of op_owner
  NoReplica,  \* op_owner IS NULL
  NoLease,    \* lease_id IS NULL
  Limit,      \* min(target_size, max_size): rows the pool may hold
  MinHot      \* min_hot: READY sandboxes that pausing must leave

ASSUME PoolStoreConstants ==
  /\ NoReplica \notin Replica
  /\ NoLease \notin LeaseId
  /\ Limit \in Nat \ {0}
  /\ MinHot \in Nat

VARIABLES
  rows,       \* Row -> record of table sandboxes
  overdue,    \* rows in a transitional state whose op_deadline has passed
  leases,     \* LeaseId -> record of table leases
  lapsed,     \* leases whose expires_at has passed
  draining    \* pool_kv.draining

storeVars == <<rows, overdue, leases, lapsed, draining>>

SandboxState ==
  {"CREATING", "WARMING", "READY", "PAUSING", "PAUSED", "RESUMING", "LEASED",
   "DESTROYING"}

\* States whose owner is calling the platform; op_owner and op_deadline are set.
Transitional == {"CREATING", "WARMING", "PAUSING", "RESUMING", "DESTROYING"}

\* "NONE": not inserted yet.  "PURGED": deleted by the history clean-up.
LeaseState == {"NONE", "ACTIVE", "RELEASED", "EXPIRED", "FAILED", "PURGED"}
Ended == {"RELEASED", "EXPIRED", "FAILED"}

\* `known` stands for provider_id IS NOT NULL.
RowRecord ==
  [state   : SandboxState \cup {"ABSENT", "DELETED"},
   version : Nat,
   owner   : Replica \cup {NoReplica},
   lease   : LeaseId \cup {NoLease},
   known   : BOOLEAN]

Absent ==
  [state |-> "ABSENT", version |-> 0, owner |-> NoReplica, lease |-> NoLease,
   known |-> FALSE]

LeaseRecord(noRow) == [state : LeaseState, row : Row \cup {noRow}]

StoreInit(noRow) ==
  /\ rows = [r \in Row |-> Absent]
  /\ overdue = {}
  /\ leases = [l \in LeaseId |-> [state |-> "NONE", row |-> noRow]]
  /\ lapsed = {}
  /\ draining = FALSE

Present == {r \in Row : rows[r].state \in SandboxState}
InState(S) == {r \in Row : rows[r].state \in S}

\* cond of _cas_sandbox with expect_version: the row is still what was read.
SameVersion(r, snap) ==
  rows[r].state = snap.state /\ rows[r].version = snap.version

\* The same where the only from_state is READY.
ReadyAsRead(r, snap) ==
  rows[r].state = "READY" /\ rows[r].version = snap.version

\* cond of _cas_sandbox with expect_owner: the row is in state s and still ours.
OwnedIn(r, s, o) == rows[r].state = s /\ rows[r].owner = o

-----------------------------------------------------------------------------
(* Transactions.                                                           *)

\* values of _cas_sandbox for a change of state: a new op_deadline or none.
Move(r, state, owner) ==
  /\ rows' = [rows EXCEPT ![r].state = state, ![r].version = @ + 1,
                          ![r].owner = owner]
  /\ overdue' = overdue \ {r}

\* Mutated form of ReserveSlotTx: the records are not counted.
ReserveSlotUnlocked(r, o) ==
  /\ ~draining
  /\ rows[r].state = "ABSENT"
  /\ rows' = [rows EXCEPT ![r] = [Absent EXCEPT !.state = "CREATING", !.owner = o]]
  /\ UNCHANGED <<overdue, leases, lapsed, draining>>

\* Insert a CREATING record while the pool, counted under the pool's lock row
\* in the same transaction, holds fewer than Limit records and is not draining.
\* (An open create breaker refuses as well: the step is then not taken.)
ReserveSlotTx(r, o) ==
  /\ Cardinality(Present) < Limit
  /\ ReserveSlotUnlocked(r, o)

\* READY or RESUMING becomes LEASED, and the lease record is inserted.
GrantLease(r, l) ==
  /\ leases[l].state = "NONE"
  /\ rows' = [rows EXCEPT ![r].state = "LEASED", ![r].version = @ + 1,
                          ![r].owner = NoReplica, ![r].lease = l]
  /\ overdue' = overdue \ {r}
  /\ leases' = [leases EXCEPT ![l] = [state |-> "ACTIVE", row |-> r]]
  /\ UNCHANGED <<lapsed, draining>>

\* Mutated form of ClaimReadyTx: no condition on the row.
ClaimReadyBlind(r, snap, l) == GrantLease(r, l)

ClaimReadyTx(r, snap, l) ==
  /\ ReadyAsRead(r, snap)
  /\ GrantLease(r, l)

FinishResumeTx(r, o, l) ==
  /\ OwnedIn(r, "RESUMING", o)
  /\ GrantLease(r, l)

\* READY is counted under the pool's lock row in the transaction that pauses.
StartPauseTx(r, snap, o) ==
  /\ Cardinality(InState({"READY"})) > MinHot
  /\ ReadyAsRead(r, snap)
  /\ Move(r, "PAUSING", o)
  /\ UNCHANGED <<leases, lapsed, draining>>

\* cas_lease of end_lease.  Only an expiry is conditional on expires_at.
CanEnd(l, to) ==
  /\ leases[l].state = "ACTIVE"
  /\ to = "EXPIRED" => l \in lapsed

EndLeaseTx(l, to) ==
  /\ CanEnd(l, to)
  /\ leases' = [leases EXCEPT ![l].state = to]
  /\ UNCHANGED <<rows, overdue, lapsed, draining>>

\* DELETE ... WHERE state = DESTROYING AND op_owner = :owner
CanDelete(r, o) == OwnedIn(r, "DESTROYING", o)

DeleteSandboxTx(r, o) ==
  /\ CanDelete(r, o)
  /\ rows' = [rows EXCEPT ![r].state = "DELETED"]
  /\ overdue' = overdue \ {r}
  /\ UNCHANGED <<leases, lapsed, draining>>

\* purge_history: a lease that ended before the retention limit is deleted.
PurgeLease(l) ==
  /\ leases[l].state \in Ended
  /\ leases' = [leases EXCEPT ![l].state = "PURGED"]
  /\ UNCHANGED <<rows, overdue, lapsed, draining>>

=============================================================================
