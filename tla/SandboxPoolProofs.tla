-------------------------- MODULE SandboxPoolProofs --------------------------
(***************************************************************************)
(* Theorems about SandboxPool, for any number of replicas, coroutines,     *)
(* rows and leases and any interleaving, crashes and stalls included.      *)
(* Only the last part, who owns a row, depends on Prompt.                  *)
(*                                                                         *)
(* IInv is the inductive invariant.  StoreInv is about the tables alone:   *)
(* a lease and its row name each other, and an ACTIVE lease's row is       *)
(* LEASED.  CoInv is what a coroutine may still rely on after an await,    *)
(* although the tables have moved on: above all that the row it is going   *)
(* to destroy either has changed since it was read, or is not held.        *)
(***************************************************************************)
EXTENDS SandboxPool, FiniteSetTheorems, TLAPS

StoreType ==
  /\ rows \in [Row -> RowRecord]
  /\ overdue \subseteq Row
  /\ leases \in [LeaseId -> LeaseRecord(NoRow)]
  /\ lapsed \subseteq LeaseId
  /\ draining \in BOOLEAN

\* A lease that was ever granted keeps its row, and the row keeps the lease.
LeaseInv ==
  \A l \in LeaseId :
    leases[l].state # "NONE" =>
      /\ leases[l].row \in Row
      /\ rows[leases[l].row].lease = l
      /\ rows[leases[l].row].state \in {"LEASED", "DESTROYING", "DELETED"}
      /\ leases[l].state = "ACTIVE" => rows[leases[l].row].state = "LEASED"

\* A LEASED row names a lease that was granted on it; a row not inserted yet
\* is as it was at first.
Granted(l, r) == l \in LeaseId /\ leases[l].state # "NONE" /\ leases[l].row = r

RowInv ==
  \A r \in Row :
    /\ rows[r].state = "LEASED" => Granted(rows[r].lease, r)
    /\ rows[r].state = "ABSENT" => rows[r] = Absent

CapacityInv == IsFiniteSet(Present) /\ Cardinality(Present) <= Limit

StoreInv == StoreType /\ LeaseInv /\ RowInv /\ CapacityInv

\* Locals of coroutine c after whatever the others did during its await.
CoInv(c) ==
  LET s == co[c]
      r == co[c].row IN
  /\ s.pc \notin {"idle", "draw"} => r \in Row /\ s.snap.version <= rows[r].version
  /\ s.pc \in {"destroy", "discardRow"} /\ SameVersion(r, s.snap) /\ s.snap.state = "LEASED"
       => leases[rows[r].lease].state # "ACTIVE"
  /\ s.pc \in {"destroy", "discardRow", "adminEnd", "orphan"} => s.snap.state \in SandboxState
  /\ s.pc \in {"endLease", "adminEnd", "endRow", "setTimeout"} => Granted(s.lease, r)
  /\ s.pc \in {"endLease", "adminEnd"} => s.to \in Ended
  /\ s.pc = "adminEnd" => s.to = "RELEASED"
  /\ s.pc = "endRow" => leases[s.lease].state # "ACTIVE"
  /\ s.pc = "orphan" => Granted(s.snap.lease, r)
  /\ s.pc \in {"adopt", "adoptCas"} => s.snap.state \in {"PAUSING", "RESUMING"}
  /\ s.pc = "adoptCas" => s.to \in {"READY", "PAUSED"}

CoType == co \in [Coroutine -> CoRecord]

IInv ==
  /\ StoreInv
  /\ CoType
  /\ cloud \in [Row -> CloudState] /\ crashes \in Nat
  /\ \A c \in Coroutine : CoInv(c)

\* How the tables may change under a waiting coroutine: a row that changes gets
\* a new version or is not LEASED; a granted lease keeps its row, an ended one
\* stays ended.
Moves(r) ==
  \/ rows'[r] = rows[r]
  \/ rows'[r].version > rows[r].version
  \/ rows'[r].version = rows[r].version /\ rows'[r].state # "LEASED"

Onward ==
  /\ \A r \in Row : Moves(r)
  /\ \A l \in LeaseId :
       leases[l].state # "NONE" =>
         /\ leases'[l].state # "NONE" /\ leases'[l].row = leases[l].row
         /\ leases[l].state # "ACTIVE" => leases'[l].state # "ACTIVE"

\* They change as Lending allows.
Lends == [Promised!Next]_(Promised!vars)

Advance == Onward /\ Lends

Preserved == IInv' /\ Advance

-----------------------------------------------------------------------------
(* What the callers see of a change of the tables.                         *)

OnlySandbox(r) ==
  /\ \A q \in Row \ {r} : Sandbox(q)' = Sandbox(q)
  /\ \A l \in LeaseId : Borrowed(l)' = Borrowed(l)

OnlyLease(r, l) ==
  /\ \A q \in Row \ {r} : Sandbox(q)' = Sandbox(q)
  /\ \A k \in LeaseId \ {l} : Borrowed(k)' = Borrowed(k)

\* When no sandbox and no lease looks different, Lending takes no step.
LEMMA SeenNothing ==
  ASSUME \A q \in Row : Sandbox(q)' = Sandbox(q),
         \A l \in LeaseId : Borrowed(l)' = Borrowed(l)
  PROVE  Lends
BY DEF Lends, Promised!vars

\* One idle sandbox is given up and nothing else looks different.
LEMMA SeenGiveUp ==
  ASSUME NEW r \in Row, OnlySandbox(r), Sandbox(r) = "idle", Sandbox(r)' = "spent"
  PROVE  Lends
<1>1. Promised!GiveUp(r)
  BY DEF Promised!GiveUp, OnlySandbox
<1> QED
  BY <1>1 DEF Lends, Promised!Next

\* One record is inserted while the pool is below its limit.
LEMMA SeenJoin ==
  ASSUME NEW r \in Row, OnlySandbox(r), Sandbox(r) = "unborn", Sandbox(r)' = "idle",
         Cardinality({q \in Row : Sandbox(q) \in {"idle", "held"}}) < Limit
  PROVE  Lends
<1>1. Promised!Usable = {q \in Row : Sandbox(q) \in {"idle", "held"}}
  BY DEF Promised!Usable
<1>2. Promised!Cardinality(Promised!Usable) < Limit
  <2>1. Promised!Cardinality(Promised!Usable) = Cardinality(Promised!Usable)
    BY DEF Promised!Cardinality, Cardinality
  <2> QED
    BY <1>1, <2>1
<1>3. [q \in Row |-> Sandbox(q)]' = [[q \in Row |-> Sandbox(q)] EXCEPT ![r] = "idle"]
      /\ [l \in LeaseId |-> Borrowed(l)]' = [l \in LeaseId |-> Borrowed(l)]
  BY DEF OnlySandbox
<1>4. Promised!Join(r)
  BY <1>2, <1>3 DEF Promised!Join
<1> QED
  BY <1>4 DEF Lends, Promised!Next

\* One idle sandbox is lent under a lease that was never used.
LEMMA SeenLend ==
  ASSUME NEW r \in Row, NEW l \in LeaseId, OnlyLease(r, l), Sandbox(r) = "idle",
         Sandbox(r)' = "held", Borrowed(l).state = "unused",
         Borrowed(l)' = [state |-> "active", of |-> r]
  PROVE  Lends
<1>1. Promised!Lend(r, l)
  BY DEF Promised!Lend, OnlyLease
<1> QED
  BY <1>1 DEF Lends, Promised!Next

\* One ACTIVE lease ends, and with it the use of the sandbox it holds.
LEMMA SeenReturn ==
  ASSUME NEW r \in Row, NEW l \in LeaseId, OnlyLease(r, l), Sandbox(r) = "held",
         Sandbox(r)' = "spent", Borrowed(l) = [state |-> "active", of |-> r],
         Borrowed(l)' = [state |-> "ended", of |-> r]
  PROVE  Lends
<1> DEFINE lease == [k \in LeaseId |-> Borrowed(k)]
<1>1. lease[l].state = "active" /\ lease[l].of = r
  OBVIOUS
<1>2. lease' = [lease EXCEPT ![l].state = "ended"]
  <2>1. [lease[l] EXCEPT !.state = "ended"] = [state |-> "ended", of |-> r]
    OBVIOUS
  <2>2. lease' = [k \in LeaseId |-> IF k = l THEN [state |-> "ended", of |-> r] ELSE lease[k]]
    BY DEF OnlyLease
  <2>3. [lease EXCEPT ![l].state = "ended"] =
          [k \in LeaseId |-> IF k = l THEN [lease[l] EXCEPT !.state = "ended"] ELSE lease[k]]
    OBVIOUS
  <2> QED
    BY <2>1, <2>2, <2>3
<1>3. Promised!Return(l)
  BY <1>1, <1>2 DEF Promised!Return, OnlyLease
<1> QED
  BY <1>3 DEF Lends, Promised!Next

-----------------------------------------------------------------------------
(* The transactions of the store.                                          *)

\* A step that leaves the tables alone.
LEMMA StoreIdle ==
  ASSUME StoreInv, UNCHANGED storeVars
  PROVE  StoreInv' /\ Advance
<1>1. StoreInv' /\ Onward
  BY DEF StoreInv, StoreType, LeaseInv, RowInv, Granted, CapacityInv, Present, storeVars,
         Onward, Moves
<1>2. Lends
  BY SeenNothing DEF Sandbox, Borrowed, storeVars
<1> QED
  BY <1>1, <1>2 DEF Advance

\* A change of state of a row that is not held, and never back from the end.
LEMMA StoreMove ==
  ASSUME StoreInv, NEW r \in Row, NEW s \in SandboxState \ {"LEASED"},
         NEW o \in Replica \cup {NoReplica},
         Move(r, s, o), UNCHANGED <<leases, lapsed, draining>>,
         r \in Present,
         rows[r].state \in {"LEASED", "DESTROYING"} => s = "DESTROYING",
         rows[r].state = "LEASED" => leases[rows[r].lease].state # "ACTIVE"
  PROVE  StoreInv' /\ Advance
<1>1. rows' = [q \in Row |-> IF q = r
                 THEN [rows[r] EXCEPT !.state = s, !.version = @ + 1, !.owner = o]
                 ELSE rows[q]]
  BY DEF Move, StoreInv, StoreType
<1>2. rows[r] \in RowRecord /\ rows'[r] = [state |-> s, version |-> rows[r].version + 1,
         owner |-> o, lease |-> rows[r].lease, known |-> rows[r].known]
  BY <1>1 DEF StoreInv, StoreType, RowRecord
<1>3. StoreType'
  BY <1>1, <1>2 DEF Move, StoreInv, StoreType, RowRecord
<1>4. LeaseInv'
  BY <1>1, <1>2 DEF StoreInv, LeaseInv, Present, SandboxState
<1>5. RowInv'
  BY <1>1, <1>2 DEF StoreInv, RowInv, Granted, SandboxState
<1>6. Present' = Present
  BY <1>1, <1>2 DEF Present
<1>7. Onward
  BY <1>1, <1>2 DEF Onward, Moves, RowRecord
<1>8. Lends
  <2>1. \A q \in Row \ {r} : rows'[q] = rows[q] /\ Sandbox(q)' = Sandbox(q)
    BY <1>1 DEF Sandbox
  <2>2. \A l \in LeaseId : Borrowed(l)' = Borrowed(l)
    BY <1>1 DEF Borrowed
  <2>3. CASE s = "DESTROYING" /\ rows[r].state \notin {"LEASED", "DESTROYING"}
    <3>1. Sandbox(r) = "idle" /\ Sandbox(r)' = "spent"
      BY <1>2, <2>3 DEF Sandbox, Present, SandboxState
    <3> QED
      BY <2>1, <2>2, <3>1, SeenGiveUp DEF OnlySandbox
  <2>4. CASE ~(s = "DESTROYING" /\ rows[r].state \notin {"LEASED", "DESTROYING"})
    <3>1. Sandbox(r)' = Sandbox(r)
      BY <1>2, <2>4 DEF Sandbox, Present, SandboxState
    <3> QED
      BY <2>1, <2>2, <3>1, SeenNothing
  <2> QED
    BY <2>3, <2>4
<1> QED
  BY <1>3, <1>4, <1>5, <1>6, <1>7, <1>8 DEF StoreInv, CapacityInv, Advance

\* An UPDATE of a READY row that keeps its state.
LEMMA StoreTouch ==
  ASSUME StoreInv, NEW r \in Row, rows[r].state = "READY", Touch(r),
         UNCHANGED <<overdue, leases, lapsed, draining>>
  PROVE  StoreInv' /\ Advance
<1>1. rows' = [q \in Row |-> IF q = r THEN [rows[r] EXCEPT !.version = @ + 1] ELSE rows[q]]
  BY DEF Touch, StoreInv, StoreType
<1>2. rows[r] \in RowRecord /\ rows'[r] = [state |-> "READY", version |-> rows[r].version + 1,
         owner |-> rows[r].owner, lease |-> rows[r].lease, known |-> rows[r].known]
  BY <1>1 DEF StoreInv, StoreType, RowRecord
<1>3. StoreType'
  BY <1>1, <1>2 DEF StoreInv, StoreType, RowRecord
<1>4. LeaseInv' /\ RowInv'
  BY <1>1, <1>2 DEF StoreInv, LeaseInv, RowInv, Granted
<1>5. Present' = Present
  BY <1>1, <1>2 DEF Present, SandboxState
<1>6. Onward
  BY <1>1, <1>2 DEF Onward, Moves, RowRecord
<1>7. Lends
  <2>1. \A q \in Row : Sandbox(q)' = Sandbox(q)
    BY <1>1, <1>2 DEF Sandbox
  <2>2. \A l \in LeaseId : Borrowed(l)' = Borrowed(l)
    BY DEF Borrowed
  <2> QED
    BY <2>1, <2>2, SeenNothing
<1> QED
  BY <1>3, <1>4, <1>5, <1>6, <1>7 DEF StoreInv, CapacityInv, Advance

\* The provider id is recorded while the row is still CREATING.
LEMMA StoreRecord ==
  ASSUME StoreInv, NEW r \in Row, rows[r].state = "CREATING",
         rows' = [rows EXCEPT ![r].state = "WARMING", ![r].version = @ + 1, ![r].known = TRUE],
         overdue' = overdue \ {r}, UNCHANGED <<leases, lapsed, draining>>
  PROVE  StoreInv' /\ Advance
<1>1. rows' = [q \in Row |-> IF q = r
                 THEN [rows[r] EXCEPT !.state = "WARMING", !.version = @ + 1, !.known = TRUE]
                 ELSE rows[q]]
  BY DEF StoreInv, StoreType
<1>2. rows[r] \in RowRecord /\ rows'[r] = [state |-> "WARMING", version |-> rows[r].version + 1,
         owner |-> rows[r].owner, lease |-> rows[r].lease, known |-> TRUE]
  BY <1>1 DEF StoreInv, StoreType, RowRecord
<1>3. StoreType'
  BY <1>1, <1>2 DEF StoreInv, StoreType, RowRecord, SandboxState
<1>4. LeaseInv' /\ RowInv'
  BY <1>1, <1>2 DEF StoreInv, LeaseInv, RowInv, Granted
<1>5. Present' = Present
  BY <1>1, <1>2 DEF Present, SandboxState
<1>6. Onward
  BY <1>1, <1>2 DEF Onward, Moves, RowRecord
<1>7. Lends
  <2>1. \A q \in Row : Sandbox(q)' = Sandbox(q)
    BY <1>1, <1>2 DEF Sandbox
  <2>2. \A l \in LeaseId : Borrowed(l)' = Borrowed(l)
    BY DEF Borrowed
  <2> QED
    BY <2>1, <2>2, SeenNothing
<1> QED
  BY <1>3, <1>4, <1>5, <1>6, <1>7 DEF StoreInv, CapacityInv, Advance

\* A reserved slot is one more record, and the count leaves room for it.
LEMMA StoreReserve ==
  ASSUME StoreInv, NEW r \in Row, NEW o \in Replica, ReserveSlotTx(r, o)
  PROVE  StoreInv' /\ Advance
<1>1. rows' = [q \in Row |-> IF q = r
                 THEN [Absent EXCEPT !.state = "CREATING", !.owner = o] ELSE rows[q]]
      /\ rows[r].state = "ABSENT" /\ UNCHANGED <<overdue, leases, lapsed, draining>>
  BY DEF ReserveSlotTx, ReserveSlotUnlocked, StoreInv, StoreType
<1>2. rows'[r] = [state |-> "CREATING", version |-> 0, owner |-> o, lease |-> NoLease,
                  known |-> FALSE]
  BY <1>1 DEF Absent
<1>3. StoreType'
  BY <1>1, <1>2 DEF StoreInv, StoreType, RowRecord, SandboxState, Absent
<1>4. LeaseInv' /\ RowInv'
  BY <1>1, <1>2 DEF StoreInv, LeaseInv, RowInv, Granted
<1>5. r \notin Present /\ Present' = Present \cup {r}
  BY <1>1, <1>2 DEF Present, SandboxState
<1>6. Cardinality(Present) < Limit /\ IsFiniteSet(Present) /\ Cardinality(Present) \in Nat
  BY FS_CardinalityType DEF ReserveSlotTx, StoreInv, CapacityInv
<1>7. IsFiniteSet(Present \cup {r}) /\ Cardinality(Present \cup {r}) = Cardinality(Present) + 1
  BY <1>5, <1>6, FS_AddElement
<1>8. CapacityInv'
  BY <1>5, <1>6, <1>7, PoolStoreConstants DEF CapacityInv
<1>9. rows[r].version = 0 /\ rows'[r].version = 0
  BY <1>1, <1>2 DEF StoreInv, RowInv, Absent
<1>10. Onward
  BY <1>1, <1>2, <1>9 DEF Onward, Moves
<1>11. Lends
  <2>1. \A q \in Row \ {r} : rows'[q] = rows[q] /\ Sandbox(q)' = Sandbox(q)
    BY <1>1 DEF Sandbox
  <2>2. \A l \in LeaseId : Borrowed(l)' = Borrowed(l)
    BY <1>1 DEF Borrowed
  <2>3. Sandbox(r) = "unborn" /\ Sandbox(r)' = "idle"
    BY <1>1, <1>2 DEF Sandbox
  <2> DEFINE usable == {q \in Row : Sandbox(q) \in {"idle", "held"}}
  <2>4. usable \subseteq Present
    BY DEF Sandbox, Present, SandboxState, StoreInv, StoreType, RowRecord
  <2>5. Cardinality(usable) <= Cardinality(Present) /\ Cardinality(usable) \in Nat
    BY <1>6, <2>4, FS_Subset, FS_CardinalityType
  <2>6. Cardinality(usable) < Limit
    BY <1>6, <2>5, PoolStoreConstants
  <2> QED
    BY <2>1, <2>2, <2>3, <2>6, SeenJoin DEF OnlySandbox
<1> QED
  BY <1>3, <1>4, <1>8, <1>10, <1>11 DEF StoreInv, Advance

\* A row is leased, and its lease is new.
LEMMA StoreGrant ==
  ASSUME StoreInv, NEW r \in Row, NEW l \in LeaseId, GrantLease(r, l),
         rows[r].state \in {"READY", "RESUMING"}
  PROVE  StoreInv' /\ Advance /\ Granted(l, r)'
<1>1. rows' = [q \in Row |-> IF q = r
                 THEN [rows[r] EXCEPT !.state = "LEASED", !.version = @ + 1,
                                      !.owner = NoReplica, !.lease = l]
                 ELSE rows[q]]
      /\ overdue' = overdue \ {r}
      /\ leases' = [k \in LeaseId |->
                      IF k = l THEN [state |-> "ACTIVE", row |-> r] ELSE leases[k]]
      /\ leases[l].state = "NONE"
      /\ UNCHANGED <<lapsed, draining>>
  BY DEF GrantLease, StoreInv, StoreType
<1>2. rows[r] \in RowRecord /\ rows'[r] = [state |-> "LEASED", version |-> rows[r].version + 1,
         owner |-> NoReplica, lease |-> l, known |-> rows[r].known]
  BY <1>1 DEF StoreInv, StoreType, RowRecord
<1>3. StoreType'
  BY <1>1, <1>2 DEF StoreInv, StoreType, RowRecord, LeaseRecord, LeaseState, SandboxState
<1>4. LeaseInv'
  BY <1>1, <1>2 DEF StoreInv, LeaseInv
<1>5. RowInv' /\ Granted(l, r)'
  BY <1>1, <1>2 DEF StoreInv, RowInv, Granted
<1>6. Present' = Present
  BY <1>1, <1>2 DEF Present, SandboxState
<1>7. Onward
  BY <1>1, <1>2 DEF Onward, Moves, RowRecord
<1>8. Lends
  <2>1. ASSUME NEW q \in Row \ {r} PROVE Sandbox(q)' = Sandbox(q)
    <3>1. rows'[q] = rows[q]
      BY <1>1
    <3>2. rows[q].state = "LEASED" => rows[q].lease \in LeaseId \ {l}
      BY <1>1 DEF StoreInv, RowInv, Granted
    <3> QED
      BY <1>1, <3>1, <3>2 DEF Sandbox
  <2>2. \A k \in LeaseId \ {l} : Borrowed(k)' = Borrowed(k)
    BY <1>1 DEF Borrowed
  <2>3. Sandbox(r) = "idle" /\ Sandbox(r)' = "held"
    BY <1>1, <1>2 DEF Sandbox
  <2>4. Borrowed(l).state = "unused" /\ Borrowed(l)' = [state |-> "active", of |-> r]
    BY <1>1 DEF Borrowed
  <2> QED
    BY <2>1, <2>2, <2>3, <2>4, SeenLend DEF OnlyLease
<1> QED
  BY <1>3, <1>4, <1>5, <1>6, <1>7, <1>8 DEF StoreInv, CapacityInv, Advance

\* A record is deleted.
LEMMA StoreDelete ==
  ASSUME StoreInv, NEW r \in Row, NEW o \in Replica, DeleteSandboxTx(r, o)
  PROVE  StoreInv' /\ Advance
<1>1. rows' = [q \in Row |-> IF q = r THEN [rows[r] EXCEPT !.state = "DELETED"] ELSE rows[q]]
      /\ overdue' = overdue \ {r} /\ rows[r].state = "DESTROYING"
      /\ UNCHANGED <<leases, lapsed, draining>>
  BY DEF DeleteSandboxTx, CanDelete, OwnedIn, StoreInv, StoreType
<1>2. rows[r] \in RowRecord /\ rows'[r] = [state |-> "DELETED", version |-> rows[r].version,
         owner |-> rows[r].owner, lease |-> rows[r].lease, known |-> rows[r].known]
  BY <1>1 DEF StoreInv, StoreType, RowRecord
<1>3. StoreType'
  BY <1>1, <1>2 DEF StoreInv, StoreType, RowRecord
<1>4. LeaseInv' /\ RowInv'
  BY <1>1, <1>2 DEF StoreInv, LeaseInv, RowInv, Granted
<1>5. r \in Present /\ Present' = Present \ {r}
  BY <1>1, <1>2 DEF Present, SandboxState
<1>6. IsFiniteSet(Present) /\ Cardinality(Present) \in Nat /\ Cardinality(Present) <= Limit
  BY FS_CardinalityType DEF StoreInv, CapacityInv
<1>7. IsFiniteSet(Present \ {r}) /\ Cardinality(Present \ {r}) = Cardinality(Present) - 1
  BY <1>5, <1>6, FS_RemoveElement
<1>8. CapacityInv'
  BY <1>5, <1>6, <1>7, PoolStoreConstants DEF CapacityInv
<1>9. Onward
  BY <1>1, <1>2 DEF Onward, Moves
<1>10. Lends
  <2>1. \A q \in Row : Sandbox(q)' = Sandbox(q)
    BY <1>1, <1>2 DEF Sandbox
  <2>2. \A l \in LeaseId : Borrowed(l)' = Borrowed(l)
    BY <1>1 DEF Borrowed
  <2> QED
    BY <2>1, <2>2, SeenNothing
<1> QED
  BY <1>3, <1>4, <1>8, <1>9, <1>10 DEF StoreInv, Advance

\* A lease ends, or an ended one is purged.
LEMMA StoreEnd ==
  ASSUME StoreInv, NEW l \in LeaseId, NEW s \in LeaseState \ {"NONE", "ACTIVE"},
         leases[l].state # "NONE",
         leases' = [leases EXCEPT ![l].state = s],
         UNCHANGED <<rows, overdue, lapsed, draining>>
  PROVE  StoreInv' /\ Advance /\ leases'[l].state = s /\ leases'[l].row = leases[l].row
<1>0. leases[l] \in LeaseRecord(NoRow)
  BY DEF StoreInv, StoreType
<1>1. leases' = [k \in LeaseId |->
                   IF k = l THEN [state |-> s, row |-> leases[l].row] ELSE leases[k]]
  <2>1. leases' = [k \in LeaseId |-> IF k = l THEN [leases[l] EXCEPT !.state = s] ELSE leases[k]]
    BY DEF StoreInv, StoreType
  <2>2. [leases[l] EXCEPT !.state = s] = [state |-> s, row |-> leases[l].row]
    BY <1>0 DEF LeaseRecord
  <2> QED
    BY <2>1, <2>2
<1>2. StoreType'
  BY <1>1 DEF StoreInv, StoreType, LeaseRecord
<1>3. LeaseInv' /\ RowInv'
  BY <1>1 DEF StoreInv, LeaseInv, RowInv, Granted
<1>4. Present' = Present
  BY DEF Present
<1>5. Onward
  BY <1>1 DEF Onward, Moves
<1>6. Lends
  <2> DEFINE r == leases[l].row
  <2>1. r \in Row /\ rows[r].lease = l
    BY DEF StoreInv, LeaseInv
  <2>2. ASSUME NEW q \in Row \ {r} PROVE Sandbox(q)' = Sandbox(q)
    <3>1. rows[q].state = "LEASED" => rows[q].lease \in LeaseId \ {l}
      BY DEF StoreInv, RowInv, Granted
    <3> QED
      BY <1>1, <3>1 DEF Sandbox
  <2>3. \A k \in LeaseId \ {l} : Borrowed(k)' = Borrowed(k)
    BY <1>1 DEF Borrowed
  <2>4. CASE leases[l].state = "ACTIVE"
    <3>1. Sandbox(r) = "held" /\ Sandbox(r)' = "spent"
      BY <1>1, <2>1, <2>4 DEF Sandbox, StoreInv, LeaseInv
    <3>2. Borrowed(l) = [state |-> "active", of |-> r]
          /\ Borrowed(l)' = [state |-> "ended", of |-> r]
      BY <1>1, <2>4 DEF Borrowed
    <3> QED
      BY <2>1, <2>2, <2>3, <3>1, <3>2, SeenReturn DEF OnlyLease
  <2>5. CASE leases[l].state # "ACTIVE"
    <3>1. Sandbox(r)' = Sandbox(r)
      BY <1>1, <2>1, <2>5 DEF Sandbox
    <3>2. Borrowed(l)' = Borrowed(l)
      BY <1>1, <2>5 DEF Borrowed
    <3> QED
      BY <2>2, <2>3, <3>1, <3>2, SeenNothing
  <2> QED
    BY <2>4, <2>5
<1> QED
  BY <1>1, <1>2, <1>3, <1>4, <1>5, <1>6 DEF StoreInv, CapacityInv, Advance

-----------------------------------------------------------------------------
(* The coroutines that wait while another one takes a step.                *)

\* What a waiting coroutine remembers stays true while rows and leases go on.
LEMMA CoWaits ==
  ASSUME StoreInv, Advance, StoreInv', NEW d \in Coroutine, CoInv(d), co[d] \in CoRecord,
         co'[d] = co[d]
  PROVE  CoInv(d)'
<1> DEFINE s == co[d]
           r == co[d].row
<1>1. s.pc \notin {"idle", "draw"} =>
        /\ r \in Row /\ s.snap.version \in Nat /\ rows[r].version \in Nat
        /\ rows'[r].version \in Nat /\ Moves(r) /\ s.snap.version <= rows'[r].version
  BY DEF CoInv, CoRecord, RowRecord, StoreInv, StoreType, Advance, Onward, Moves
<1>2. \A l, q : Granted(l, q) => Granted(l, q)' /\ (leases[l].state # "ACTIVE" => leases'[l].state # "ACTIVE")
  BY DEF Granted, Advance, Onward
<1>3. ASSUME s.pc \in {"destroy", "discardRow"}, SameVersion(r, s.snap)', s.snap.state = "LEASED"
      PROVE  leases'[rows'[r].lease].state # "ACTIVE"
  <2>1. rows'[r].version = s.snap.version /\ rows'[r].state = "LEASED"
    BY <1>3 DEF SameVersion
  <2>2. rows'[r] = rows[r]
    BY <1>1, <1>3, <2>1 DEF Moves, CoInv
  <2>3. leases[rows[r].lease].state # "ACTIVE" /\ Granted(rows[r].lease, r)
    BY <1>1, <1>3, <2>1, <2>2 DEF CoInv, SameVersion, StoreInv, RowInv
  <2> QED
    BY <1>2, <2>2, <2>3
<1>4. s.pc \in {"endLease", "adminEnd", "endRow", "setTimeout"} => Granted(s.lease, r)'
  BY <1>2 DEF CoInv
<1>5. s.pc = "endRow" => leases'[s.lease].state # "ACTIVE"
  BY <1>2 DEF CoInv
<1>6. s.pc = "orphan" => Granted(s.snap.lease, r)'
  BY <1>2 DEF CoInv
<1> QED
  BY <1>1, <1>3, <1>4, <1>5, <1>6 DEF CoInv

\* Coroutine c takes a step and its locals become s.
LEMMA CoSteps ==
  ASSUME IInv, NEW c \in Coroutine, NEW s \in CoRecord,
         StoreInv', Advance, co' = [co EXCEPT ![c] = s], CoInv(c)',
         (cloud \in [Row -> CloudState])', crashes' \in Nat
  PROVE  Preserved
<1>1. co \in [Coroutine -> CoRecord]
  BY DEF IInv, CoType
<1>2. CoType'
  BY <1>1 DEF CoType
<1>3. ASSUME NEW d \in Coroutine PROVE CoInv(d)'
  <2>1. CASE d = c
    BY <2>1
  <2>2. CASE d # c
    <3>1. co'[d] = co[d] /\ co[d] \in CoRecord
      BY <1>1, <2>2
    <3> QED
      BY <3>1, CoWaits DEF IInv
  <2> QED
    BY <2>1, <2>2
<1> QED
  BY <1>2, <1>3 DEF IInv, Preserved

\* An operation ends.
LEMMA CoFinishes ==
  ASSUME IInv, NEW c \in Coroutine, Finish(c), StoreInv', Advance,
         (cloud \in [Row -> CloudState])', crashes' \in Nat
  PROVE  Preserved
<1>1. Idle \in CoRecord
  BY DEF Idle, CoRecord, Pc, Absent, RowRecord
<1>2. co' = [co EXCEPT ![c] = Idle]
  BY DEF Finish
<1>3. co'[c].pc = "idle"
  BY <1>2 DEF IInv, CoType, Idle
<1>4. CoInv(c)'
  BY <1>3 DEF CoInv
<1> QED
  BY <1>1, <1>2, <1>4, CoSteps

\* The awaits that CoInv says nothing special about.
Plain ==
  Pc \ {"destroy", "discardRow", "endLease", "adminEnd", "endRow", "setTimeout", "orphan",
        "adopt", "adoptCas"}

\* A coroutine goes to its next await with its locals as they are.
LEMMA CoGoes ==
  ASSUME IInv, NEW c \in Coroutine, NEW pc \in Plain, co[c].pc \notin {"idle", "draw"},
         Go(c, pc), StoreInv', Advance,
         (cloud \in [Row -> CloudState])', crashes' \in Nat
  PROVE  Preserved
<1>1. CASE pc = "idle"
  BY <1>1, CoFinishes DEF Go, Finish
<1>2. CASE pc # "idle"
  <2> DEFINE s == [co[c] EXCEPT !.pc = pc]
  <2>1. co[c] \in CoRecord /\ co' = [co EXCEPT ![c] = s]
    BY <1>2 DEF Go, IInv, CoType
  <2>2. s \in CoRecord /\ s.pc = pc /\ s.row = co[c].row /\ s.snap = co[c].snap
    BY <2>1 DEF CoRecord, Plain
  <2>3. co'[c] = s
    BY <2>1 DEF IInv, CoType
  <2>4. co[c].row \in Row /\ co[c].snap.version <= rows[co[c].row].version
        /\ co[c].snap.version \in Nat
    BY <2>1 DEF IInv, CoInv, CoRecord, RowRecord
  <2>5. Moves(co[c].row) /\ rows[co[c].row].version \in Nat /\ rows'[co[c].row].version \in Nat
    BY <2>4 DEF Advance, Onward, IInv, StoreInv, StoreType, RowRecord
  <2>6. co[c].snap.version <= rows'[co[c].row].version
    BY <2>4, <2>5 DEF Moves
  <2>7. CoInv(c)'
    BY <2>2, <2>3, <2>4, <2>6 DEF CoInv, Plain
  <2> QED
    BY <2>1, <2>2, <2>7, CoSteps
<1> QED
  BY <1>1, <1>2

\* A request to the platform.
LEMMA CoCalls ==
  ASSUME IInv, NEW c \in Coroutine, NEW new \in CloudState, NEW ok \in Plain,
         NEW failed \in Plain, co[c].pc \notin {"idle", "draw"},
         Call(c, new, ok, failed), UNCHANGED <<storeVars, crashes>>
  PROVE  Preserved
<1>1. StoreInv' /\ Advance
  BY StoreIdle DEF IInv
<1>2. (cloud \in [Row -> CloudState])' /\ crashes' \in Nat
  BY DEF IInv, Call
<1>3. Go(c, ok) \/ Go(c, failed)
  BY DEF Call
<1> QED
  BY <1>1, <1>2, <1>3, CoGoes

\* An operation starts on row r, or reads its row again; destroying it is the
\* plan only when it is not LEASED.
LEMMA CoReads ==
  ASSUME IInv, NEW c \in Coroutine, NEW r \in Row, NEW s \in CoRecord,
         s.row = r, s.snap = rows[r],
         s.pc \in Plain \cup {"destroy", "discardRow"},
         s.pc \notin Plain => rows[r].state \in SandboxState \ {"LEASED"},
         co' = [co EXCEPT ![c] = s],
         UNCHANGED <<storeVars, cloud, crashes>>
  PROVE  Preserved
<1>1. StoreInv' /\ Advance
  BY StoreIdle DEF IInv
<1>2. rows[r] \in RowRecord /\ rows' = rows /\ leases' = leases
  BY DEF IInv, StoreInv, StoreType, storeVars
<1>3. co'[c] = s
  BY DEF IInv, CoType
<1>4. CoInv(c)'
  BY <1>2, <1>3 DEF CoInv, SameVersion, RowRecord, Plain
<1>5. (cloud \in [Row -> CloudState])' /\ crashes' \in Nat
  BY DEF IInv
<1> QED
  BY <1>1, <1>4, <1>5, CoSteps

-----------------------------------------------------------------------------
(* The steps, grouped by module.  A step's own assumption is IInv and that *)
(* only the store, the platform and one coroutine are involved.            *)

\* The steps of destroying a sandbox and of ending a lease.
LEMMA LifecycleSteps ==
  ASSUME IInv, NEW c \in Coroutine, UNCHANGED crashes
  PROVE  /\ DestroyCas(c) => Preserved
         /\ Kill(c) => Preserved
         /\ DeleteRow(c) => Preserved
         /\ EndLeaseCas(c) => Preserved
         /\ EndRow(c) => Preserved
<1> DEFINE r == co[c].row
<1> USE LifecycleConstants
<1>0. /\ StoreInv /\ co \in [Coroutine -> CoRecord] /\ co[c] \in CoRecord /\ CoInv(c)
      /\ Home[c] \in Replica /\ cloud \in [Row -> CloudState] /\ crashes' \in Nat
      /\ co[c].pc \notin {"idle", "draw"} => r \in Row /\ rows[r] \in RowRecord
  BY DEF IInv, CoType, CoInv, StoreInv, StoreType
<1>1. ASSUME DestroyCas(c) PROVE Preserved
  <2>1. cloud' = cloud /\ co[c].pc = "destroy" /\ r \in Row
    BY <1>0, <1>1 DEF DestroyCas, At
  <2>2. CASE SameVersion(r, co[c].snap)
    <3>1. Move(r, "DESTROYING", Home[c]) /\ UNCHANGED <<leases, lapsed, draining>>
          /\ Go(c, IF co[c].snap.known THEN "kill" ELSE "delete")
      BY <1>1, <2>2 DEF DestroyCas
    <3>2. r \in Present /\ (rows[r].state = "LEASED" => leases[rows[r].lease].state # "ACTIVE")
      BY <1>0, <2>1, <2>2 DEF CoInv, SameVersion, Present
    <3>3. StoreInv' /\ Advance
      BY <1>0, <2>1, <3>1, <3>2, StoreMove DEF SandboxState
    <3> QED
      BY <1>0, <2>1, <3>1, <3>3, CoGoes DEF Plain, Pc, CallPc
  <2>3. CASE ~SameVersion(r, co[c].snap)
    <3>1. Finish(c) /\ UNCHANGED storeVars
      BY <1>1, <2>3 DEF DestroyCas, storeVars
    <3> QED
      BY <1>0, <2>1, <3>1, StoreIdle, CoFinishes
  <2> QED
    BY <2>2, <2>3
<1>2. ASSUME Kill(c) PROVE Preserved
  <2>1. co[c].pc = "kill" /\ r \in Row
    BY <1>0, <1>2 DEF Kill, At
  <2>2. (IF Live(r) THEN "gone" ELSE cloud[r]) \in CloudState
    BY <1>0, <2>1 DEF CloudState
  <2> QED
    BY <1>2, <2>1, <2>2, CoCalls DEF Kill, Plain, Pc
<1>3. ASSUME DeleteRow(c) PROVE Preserved
  <2>1. Finish(c) /\ cloud' = cloud /\ r \in Row
    BY <1>0, <1>3 DEF DeleteRow, At
  <2>2. StoreInv' /\ Advance
    BY <1>0, <1>3, <2>1, StoreDelete, StoreIdle DEF DeleteRow
  <2> QED
    BY <1>0, <2>1, <2>2, CoFinishes
<1>4. ASSUME EndLeaseCas(c) PROVE Preserved
  <2> DEFINE l == co[c].lease
  <2>1. cloud' = cloud /\ co[c].pc \in {"endLease", "adminEnd"} /\ r \in Row /\ Granted(l, r)
        /\ co[c].to \in Ended
    BY <1>0, <1>4 DEF EndLeaseCas, CoInv
  <2>2. CASE EndLeaseTx(l, co[c].to) /\ Go(c, "endRow")
    <3>1. StoreInv' /\ Advance /\ leases'[l].state = co[c].to /\ leases'[l].row = leases[l].row
          /\ rows' = rows
      BY <1>0, <2>1, <2>2, StoreEnd DEF EndLeaseTx, CanEnd, Ended, LeaseState, Granted
    <3> DEFINE s == [co[c] EXCEPT !.pc = "endRow"]
    <3>2. co' = [co EXCEPT ![c] = s] /\ s \in CoRecord /\ co'[c] = s
      BY <1>0, <2>2 DEF Go, CoRecord, Pc
    <3>3. s.pc = "endRow" /\ s.row = r /\ s.lease = l /\ s.snap = co[c].snap
      BY <1>0 DEF CoRecord
    <3>4. CoInv(c)'
      BY <1>0, <2>1, <3>1, <3>2, <3>3 DEF CoInv, Granted, Ended
    <3> QED
      BY <1>0, <2>1, <3>1, <3>2, <3>4, CoSteps
  <2>3. CASE ~CanEnd(l, co[c].to) /\ UNCHANGED storeVars
             /\ IF At(c, "adminEnd") THEN Go(c, "destroy") ELSE Finish(c)
    <3>1. StoreInv' /\ Advance
      BY <1>0, <2>3, StoreIdle
    <3>2. CASE At(c, "adminEnd")
      <4> DEFINE s == [co[c] EXCEPT !.pc = "destroy"]
      <4>1. co' = [co EXCEPT ![c] = s] /\ s \in CoRecord /\ co'[c] = s
        BY <1>0, <2>3, <3>2 DEF Go, CoRecord, Pc
      <4>2. s.pc = "destroy" /\ s.row = r /\ s.snap = co[c].snap
        BY <1>0 DEF CoRecord
      <4>3. leases[l].state # "ACTIVE" /\ rows[r].lease = l
        BY <1>0, <2>1, <2>3, <3>2 DEF CanEnd, CoInv, At, Granted, StoreInv, LeaseInv
      <4>4. rows' = rows /\ leases' = leases
        BY <2>3 DEF storeVars
      <4>5. CoInv(c)'
        BY <1>0, <2>1, <3>2, <4>1, <4>2, <4>3, <4>4 DEF CoInv, At, SameVersion
      <4> QED
        BY <1>0, <2>1, <3>1, <4>1, <4>5, CoSteps
    <3>3. CASE ~At(c, "adminEnd")
      BY <1>0, <2>1, <2>3, <3>1, <3>3, CoFinishes
    <3> QED
      BY <3>2, <3>3
  <2> QED
    BY <1>4, <2>2, <2>3 DEF EndLeaseCas
<1>5. ASSUME EndRow(c) PROVE Preserved
  <2>1. cloud' = cloud /\ co[c].pc = "endRow" /\ r \in Row /\ UNCHANGED <<leases, lapsed, draining>>
    BY <1>0, <1>5 DEF EndRow, At
  <2>2. CASE rows[r].state = "LEASED" /\ rows[r].lease = co[c].lease
             /\ Move(r, "DESTROYING", Home[c]) /\ Go(c, "kill")
    <3>1. r \in Present /\ leases[rows[r].lease].state # "ACTIVE"
      BY <1>0, <2>1, <2>2 DEF CoInv, Present, SandboxState
    <3>2. StoreInv' /\ Advance
      BY <1>0, <2>1, <2>2, <3>1, StoreMove DEF SandboxState
    <3> QED
      BY <1>0, <2>1, <2>2, <3>2, CoGoes DEF Plain, Pc, CallPc
  <2>3. CASE Finish(c) /\ UNCHANGED <<rows, overdue>>
    BY <1>0, <2>1, <2>3, StoreIdle, CoFinishes DEF storeVars
  <2> QED
    BY <1>5, <2>2, <2>3 DEF EndRow
<1> QED
  BY <1>1, <1>2, <1>3, <1>4, <1>5

\* Begin and Reread in the form CoReads takes.
LEMMA ReadingType ==
  ASSUME StoreInv, NEW r \in Row, NEW pc \in Pc, NEW l \in LeaseId \cup {NoLease},
         NEW to \in {"-", "READY", "PAUSED", "live", "gone"} \cup Ended
  PROVE  Reading(pc, r, l, to) \in CoRecord
<1>1. rows[r] \in RowRecord
  BY DEF StoreInv, StoreType
<1> QED
  BY <1>1 DEF Reading, CoRecord

\* An operation that begins on row r, as the row is read now.
LEMMA BeginReads ==
  ASSUME IInv, NEW c \in Coroutine, NEW r \in Row,
         NEW pc \in Plain \cup {"destroy", "discardRow"},
         pc \notin Plain => rows[r].state \in SandboxState \ {"LEASED"},
         \/ co' = [co EXCEPT ![c] = Reading(pc, r, NoLease, "-")]
         \/ r = co[c].row /\ Reread(c, pc),
         UNCHANGED <<storeVars, cloud, crashes>>
  PROVE  Preserved
<1>0. pc \in Pc
  BY DEF Plain, Pc
<1>1. CASE co' = [co EXCEPT ![c] = Reading(pc, r, NoLease, "-")]
  <2> DEFINE s == Reading(pc, r, NoLease, "-")
  <2>1. s \in CoRecord
    BY <1>0, ReadingType DEF IInv
  <2>2. s.pc = pc /\ s.row = r /\ s.snap = rows[r]
    BY DEF Reading
  <2> HIDE DEF s
  <2> QED
    BY <1>1, <2>1, <2>2, CoReads DEF s
<1>2. CASE r = co[c].row /\ Reread(c, pc)
  <2> DEFINE s == [co[c] EXCEPT !.pc = pc, !.snap = rows[r]]
  <2>1. co[c] \in CoRecord /\ co \in [Coroutine -> CoRecord] /\ rows[r] \in RowRecord
    BY DEF IInv, CoType, StoreInv, StoreType
  <2>2. co' = [co EXCEPT ![c] = s]
    BY <1>2, <2>1 DEF Reread
  <2>3. s \in CoRecord /\ s.pc = pc /\ s.row = r /\ s.snap = rows[r]
    BY <1>0, <1>2, <2>1 DEF CoRecord
  <2> HIDE DEF s
  <2> QED
    BY <2>2, <2>3, CoReads
<1> QED
  BY <1>1, <1>2

\* A lease that was granted is going to be ended.
LEMMA BeginEnds ==
  ASSUME IInv, NEW c \in Coroutine, NEW l \in LeaseId, NEW to \in Ended,
         NEW pc \in {"endLease", "adminEnd"}, pc = "adminEnd" => to = "RELEASED",
         leases[l].state # "NONE",
         rows[leases[l].row].state \in SandboxState,
         co' = [co EXCEPT ![c] = Reading(pc, leases[l].row, l, to)],
         UNCHANGED <<storeVars, cloud, crashes>>
  PROVE  Preserved
<1> DEFINE r == leases[l].row
           s == Reading(pc, r, l, to)
<1>1. StoreInv' /\ Advance /\ co \in [Coroutine -> CoRecord] /\ rows' = rows /\ leases' = leases
  BY StoreIdle DEF IInv, CoType, storeVars
<1>2. r \in Row /\ rows[r] \in RowRecord /\ Granted(l, r)
  BY DEF IInv, StoreInv, StoreType, LeaseInv, Granted
<1>3. s \in CoRecord
  BY <1>2, ReadingType DEF IInv, Pc
<1>4. co'[c] = [pc |-> pc, row |-> r, snap |-> rows[r], lease |-> l, to |-> to]
  BY <1>1 DEF Reading
<1>5. CoInv(c)'
  BY <1>1, <1>2, <1>4 DEF CoInv, Granted, RowRecord
<1> QED
  BY <1>1, <1>3, <1>5, CoSteps DEF IInv

\* The steps of borrowing and returning.
LEMMA AllocatorSteps ==
  ASSUME IInv, NEW c \in Coroutine, UNCHANGED crashes
  PROVE  AllocatorNext(c) => Preserved
<1> DEFINE r == co[c].row
<1> USE LifecycleConstants
<1>0. /\ StoreInv /\ co \in [Coroutine -> CoRecord] /\ co[c] \in CoRecord /\ CoInv(c)
      /\ Home[c] \in Replica /\ cloud \in [Row -> CloudState] /\ crashes' \in Nat
      /\ co[c].pc \notin {"idle", "draw"} => r \in Row /\ rows[r] \in RowRecord
  BY DEF IInv, CoType, CoInv, StoreInv, StoreType
<1>1. ASSUME BeginClaim(c) PROVE Preserved
  <2> DEFINE s == [Idle EXCEPT !.pc = "draw"]
  <2>1. s \in CoRecord /\ co' = [co EXCEPT ![c] = s] /\ UNCHANGED <<storeVars, cloud>>
    BY <1>1 DEF BeginClaim, Idle, CoRecord, Pc, Absent, RowRecord
  <2>2. co'[c].pc = "draw"
    BY <1>0, <2>1 DEF Idle
  <2>3. CoInv(c)'
    BY <2>2 DEF CoInv
  <2> QED
    BY <1>0, <2>1, <2>3, StoreIdle, CoSteps
<1>2. ASSUME Draw(c) PROVE Preserved
  <2>1. CASE Finish(c)
    BY <1>0, <1>2, <2>1, StoreIdle, CoFinishes DEF Draw
  <2>2. CASE \E q \in Candidates :
               co' = [co EXCEPT ![c] = Reading("claim", q, NoLease, "-")]
    <3>1. PICK q \in Row : co' = [co EXCEPT ![c] = Reading("claim", q, NoLease, "-")]
      BY <2>2 DEF Candidates, InState
    <3>2. "claim" \in Plain /\ UNCHANGED <<storeVars, cloud>>
      BY <1>2 DEF Draw, Plain, Pc
    <3> QED
      BY <3>1, <3>2, BeginReads
  <2> QED
    BY <1>2, <2>1, <2>2 DEF Draw
<1>3. ASSUME ClaimReady(c) PROVE Preserved
  <2>1. co[c].pc = "claim" /\ r \in Row /\ cloud' = cloud /\ co[c].snap.state = "READY"
    BY <1>0, <1>3 DEF ClaimReady, At
  <2>2. CASE \E l \in LeaseId : /\ ClaimReadyTx(r, co[c].snap, l)
                               /\ co' = [co EXCEPT ![c].pc = "setTimeout", ![c].lease = l]
    <3>1. PICK l \in LeaseId : /\ ClaimReadyTx(r, co[c].snap, l)
                               /\ co' = [co EXCEPT ![c].pc = "setTimeout", ![c].lease = l]
      BY <2>2
    <3> DEFINE s == [co[c] EXCEPT !.pc = "setTimeout", !.lease = l]
    <3>2. StoreInv' /\ Advance /\ Granted(l, r)' /\ rows[r].version = co[c].snap.version
      BY <1>0, <2>1, <3>1, StoreGrant DEF ClaimReadyTx, ReadyAsRead
    <3>3. s \in CoRecord /\ co' = [co EXCEPT ![c] = s] /\ co'[c] = s
      BY <1>0, <3>1 DEF CoRecord, Pc
    <3>4. s.pc = "setTimeout" /\ s.lease = l /\ s.row = r /\ s.snap = co[c].snap
      BY <1>0 DEF CoRecord
    <3>5. s.snap.version <= rows'[r].version
      BY <1>0, <2>1, <3>2, <3>4 DEF Advance, Onward, Moves, StoreInv, StoreType, RowRecord
    <3>6. CoInv(c)'
      BY <2>1, <3>2, <3>3, <3>4, <3>5 DEF CoInv
    <3> QED
      BY <1>0, <2>1, <3>2, <3>3, <3>6, CoSteps
  <2>3. CASE Go(c, "draw") /\ UNCHANGED storeVars
    BY <1>0, <2>1, <2>3, StoreIdle, CoGoes DEF Plain, Pc
  <2> QED
    BY <1>3, <2>2, <2>3 DEF ClaimReady
<1>4. ASSUME SetTimeout(c) PROVE Preserved
  <2>1. co[c].pc = "setTimeout" /\ r \in Row /\ UNCHANGED <<storeVars, cloud>>
        /\ StoreInv' /\ Advance
    BY <1>0, <1>4, StoreIdle DEF SetTimeout, At
  <2>2. CASE Finish(c)
    BY <1>0, <2>1, <2>2, CoFinishes
  <2>3. CASE co' = [co EXCEPT ![c].pc = "endLease", ![c].to = "FAILED"]
    <3> DEFINE s == [co[c] EXCEPT !.pc = "endLease", !.to = "FAILED"]
    <3>1. s \in CoRecord /\ co' = [co EXCEPT ![c] = s] /\ co'[c] = s
      BY <1>0, <2>3 DEF CoRecord, Pc, Ended
    <3>2. s.pc = "endLease" /\ s.to = "FAILED" /\ s.lease = co[c].lease /\ s.row = r
          /\ s.snap = co[c].snap
      BY <1>0 DEF CoRecord
    <3>3. rows' = rows /\ leases' = leases
      BY <2>1 DEF storeVars
    <3>4. CoInv(c)'
      BY <1>0, <2>1, <3>1, <3>2, <3>3 DEF CoInv, Ended, Granted
    <3> QED
      BY <1>0, <2>1, <3>1, <3>4, CoSteps
  <2> QED
    BY <1>4, <2>2, <2>3 DEF SetTimeout
<1>5. ASSUME ClaimPaused(c) PROVE Preserved
  <2>1. co[c].pc = "claim" /\ r \in Row /\ cloud' = cloud /\ UNCHANGED <<leases, lapsed, draining>>
    BY <1>0, <1>5 DEF ClaimPaused, At
  <2>2. CASE SameVersion(r, co[c].snap) /\ Move(r, "RESUMING", Home[c]) /\ Go(c, "resume")
    <3>1. rows[r].state = "PAUSED"
      BY <1>5, <2>2 DEF ClaimPaused, SameVersion
    <3>2. StoreInv' /\ Advance
      BY <1>0, <2>1, <2>2, <3>1, StoreMove DEF SandboxState, Present
    <3> QED
      BY <1>0, <2>1, <2>2, <3>2, CoGoes DEF Plain, Pc, CallPc
  <2>3. CASE Go(c, "draw") /\ UNCHANGED <<rows, overdue>>
    BY <1>0, <2>1, <2>3, StoreIdle, CoGoes DEF Plain, Pc, storeVars
  <2> QED
    BY <1>5, <2>2, <2>3 DEF ClaimPaused
<1>6. ASSUME Resume(c) PROVE Preserved
  <2>1. co[c].pc = "resume" /\ r \in Row /\ UNCHANGED storeVars
    BY <1>0, <1>6 DEF Resume, At
  <2>2. CASE Call(c, "running", "resumed", "resumeFailed")
    BY <2>1, <2>2, CoCalls DEF Plain, Pc, CloudState
  <2>3. CASE Go(c, "resumeFailed") /\ UNCHANGED cloud
    BY <1>0, <2>1, <2>3, StoreIdle, CoGoes DEF Plain, Pc
  <2> QED
    BY <1>6, <2>2, <2>3 DEF Resume
<1>7. ASSUME FinishResume(c) PROVE Preserved
  <2>1. co[c].pc = "resumed" /\ r \in Row /\ cloud' = cloud /\ Finish(c)
    BY <1>0, <1>7 DEF FinishResume, At
  <2>2. StoreInv' /\ Advance
    BY <1>0, <1>7, <2>1, StoreGrant, StoreIdle DEF FinishResume, FinishResumeTx, OwnedIn
  <2> QED
    BY <1>0, <2>1, <2>2, CoFinishes
<1>8. ASSUME ResumeFailed(c) PROVE Preserved
  <2>1. co[c].pc = "resumeFailed" /\ r \in Row /\ UNCHANGED <<storeVars, cloud>>
    BY <1>0, <1>8 DEF ResumeFailed, At
  <2>2. CASE OwnedIn(r, "RESUMING", Home[c]) /\ Reread(c, "destroy")
    BY <2>1, <2>2, BeginReads DEF OwnedIn, SandboxState
  <2>3. CASE Finish(c)
    BY <1>0, <2>1, <2>3, StoreIdle, CoFinishes
  <2> QED
    BY <1>8, <2>2, <2>3 DEF ResumeFailed
<1>9. ASSUME NEW l \in LeaseId, Release(c, l) \/ UseFindsGone(c, l) PROVE Preserved
  <2>1. leases[l].state = "ACTIVE" /\ rows[leases[l].row].state = "LEASED"
    BY <1>0, <1>9 DEF Release, UseFindsGone, StoreInv, LeaseInv
  <2> QED
    BY <1>9, <2>1, BeginEnds DEF Release, UseFindsGone, BeginEnd, Ended, SandboxState
<1> QED
  BY <1>1, <1>2, <1>3, <1>4, <1>5, <1>6, <1>7, <1>8, <1>9 DEF AllocatorNext

\* The steps of an operation on a new sandbox.
LEMMA CreateSteps ==
  ASSUME IInv, NEW c \in Coroutine, UNCHANGED crashes
  PROVE  /\ ReserveSlot(c) => Preserved
         /\ Create(c) => Preserved
         /\ RecordProvider(c) => Preserved
         /\ Warm(c) => Preserved
         /\ MarkReady(c) => Preserved
         /\ CreateFailed(c) => Preserved
         /\ BootFailed(c) => Preserved
         /\ Discard(c) => Preserved
<1> DEFINE r == co[c].row
<1> USE LifecycleConstants
<1>0. /\ StoreInv /\ co \in [Coroutine -> CoRecord] /\ co[c] \in CoRecord /\ CoInv(c)
      /\ Home[c] \in Replica /\ cloud \in [Row -> CloudState] /\ crashes' \in Nat
      /\ co[c].pc \notin {"idle", "draw"} => r \in Row /\ rows[r] \in RowRecord
  BY DEF IInv, CoType, CoInv, StoreInv, StoreType
<1>1. ASSUME ReserveSlot(c) PROVE Preserved
  <2>1. PICK q \in Row : /\ ReserveSlotTx(q, Home[c])
                         /\ co' = [co EXCEPT ![c] = Reading("create", q, NoLease, "-")]
    BY <1>1 DEF ReserveSlot
  <2> DEFINE s == Reading("create", q, NoLease, "-")
  <2>2. StoreInv' /\ Advance /\ cloud' = cloud
    BY <1>0, <1>1, <2>1, StoreReserve DEF ReserveSlot
  <2>3. s \in CoRecord
    BY <1>0, ReadingType DEF Pc, CallPc
  <2>4. co'[c] = [pc |-> "create", row |-> q, snap |-> rows[q], lease |-> NoLease, to |-> "-"]
    BY <1>0, <2>1 DEF Reading
  <2>5. rows[q].version = 0 /\ rows'[q].version \in Nat
    BY <1>0, <2>1, <2>2 DEF ReserveSlotTx, ReserveSlotUnlocked, StoreInv, RowInv, StoreType,
       RowRecord, Absent
  <2>6. CoInv(c)'
    BY <2>4, <2>5 DEF CoInv
  <2> QED
    BY <1>0, <2>1, <2>2, <2>3, <2>6, CoSteps
<1>2. ASSUME Create(c) PROVE Preserved
  BY <1>2, CoCalls DEF Create, At, Plain, Pc, CloudState
<1>3. ASSUME RecordProvider(c) PROVE Preserved
  <2>1. co[c].pc = "created" /\ r \in Row /\ cloud' = cloud /\ UNCHANGED <<leases, lapsed, draining>>
    BY <1>0, <1>3 DEF RecordProvider, At
  <2>2. CASE /\ OwnedIn(r, "CREATING", Home[c])
             /\ rows' = [rows EXCEPT ![r].state = "WARMING", ![r].version = @ + 1, ![r].known = TRUE]
             /\ overdue' = overdue \ {r}
             /\ Go(c, "warm")
    <3>1. StoreInv' /\ Advance
      BY <1>0, <2>1, <2>2, StoreRecord DEF OwnedIn
    <3> QED
      BY <1>0, <2>1, <2>2, <3>1, CoGoes DEF Plain, Pc, CallPc
  <2>3. CASE (Go(c, "discard") \/ Go(c, "bootFailed")) /\ UNCHANGED <<rows, overdue>>
    <3>1. StoreInv' /\ Advance
      BY <1>0, <2>1, <2>3, StoreIdle DEF storeVars
    <3> QED
      BY <1>0, <2>1, <2>3, <3>1, CoGoes DEF Plain, Pc
  <2> QED
    BY <1>3, <2>2, <2>3 DEF RecordProvider
<1>4. ASSUME Warm(c) PROVE Preserved
  <2>1. co[c].pc = "warm" /\ UNCHANGED <<storeVars, cloud>> /\ (Go(c, "warmed") \/ Go(c, "bootFailed"))
    BY <1>4 DEF Warm, At
  <2> QED
    BY <1>0, <2>1, StoreIdle, CoGoes DEF Plain, Pc
<1>5. ASSUME MarkReady(c) PROVE Preserved
  <2>1. co[c].pc = "warmed" /\ r \in Row /\ cloud' = cloud /\ UNCHANGED <<leases, lapsed, draining>>
    BY <1>0, <1>5 DEF MarkReady, At
  <2>2. CASE OwnedIn(r, "WARMING", Home[c]) /\ Move(r, "READY", NoReplica) /\ Finish(c)
    <3>1. StoreInv' /\ Advance
      BY <1>0, <2>1, <2>2, StoreMove DEF OwnedIn, SandboxState, Present
    <3> QED
      BY <1>0, <2>1, <2>2, <3>1, CoFinishes
  <2>3. CASE (Finish(c) \/ Go(c, "bootFailed")) /\ UNCHANGED <<rows, overdue>>
    <3>1. StoreInv' /\ Advance
      BY <1>0, <2>1, <2>3, StoreIdle DEF storeVars
    <3> QED
      BY <1>0, <2>1, <2>3, <3>1, CoFinishes, CoGoes DEF Plain, Pc
  <2> QED
    BY <1>5, <2>2, <2>3 DEF MarkReady
<1>6. Booting(c) => rows[r].state \in SandboxState \ {"LEASED"}
  BY DEF Booting, OwnedIn, SandboxState
<1>7. ASSUME CreateFailed(c) PROVE Preserved
  <2>1. co[c].pc = "createFailed" /\ r \in Row /\ UNCHANGED <<storeVars, cloud>>
    BY <1>0, <1>7 DEF CreateFailed, At
  <2>2. CASE Booting(c)
    BY <1>6, <1>7, <2>1, <2>2, BeginReads DEF CreateFailed
  <2>3. CASE ~Booting(c)
    BY <1>0, <1>7, <2>1, <2>3, StoreIdle, CoFinishes DEF CreateFailed
  <2> QED
    BY <2>2, <2>3
<1>8. ASSUME BootFailed(c) PROVE Preserved
  <2>1. co[c].pc = "bootFailed" /\ r \in Row /\ UNCHANGED <<storeVars, cloud>>
    BY <1>0, <1>8 DEF BootFailed, At
  <2>2. CASE Booting(c) /\ Reread(c, IF rows[r].known THEN "destroy" ELSE "discardRow")
    BY <1>6, <2>1, <2>2, BeginReads
  <2>3. CASE Go(c, IF rows[r].known /\ r \in Present THEN "idle" ELSE "discard")
    BY <1>0, <2>1, <2>3, StoreIdle, CoGoes DEF Plain, Pc
  <2> QED
    BY <1>8, <2>2, <2>3 DEF BootFailed
<1>9. ASSUME Discard(c) PROVE Preserved
  <2> DEFINE new == IF Live(r) THEN "gone" ELSE cloud[r]
             next == IF At(c, "discard") THEN "idle" ELSE "destroy"
  <2>1. co[c].pc \in {"discard", "discardRow"} /\ r \in Row /\ UNCHANGED <<storeVars, crashes>>
        /\ new \in CloudState /\ Call(c, new, next, next)
    BY <1>0, <1>9 DEF Discard, CloudState
  <2>2. CASE At(c, "discard")
    BY <2>1, <2>2, CoCalls DEF Plain, Pc
  <2>3. CASE ~At(c, "discard")
    <3> DEFINE s == [co[c] EXCEPT !.pc = "destroy"]
    <3>1. co' = [co EXCEPT ![c] = s] /\ (cloud \in [Row -> CloudState])' /\ co[c].pc = "discardRow"
      BY <1>0, <2>1, <2>3 DEF Call, Go, At
    <3>2. s \in CoRecord /\ co'[c] = s /\ s.pc = "destroy" /\ s.row = r /\ s.snap = co[c].snap
      BY <1>0, <3>1 DEF CoRecord, Pc
    <3>3. rows' = rows /\ leases' = leases /\ StoreInv' /\ Advance
      BY <1>0, <2>1, StoreIdle DEF storeVars
    <3>4. CoInv(c)'
      BY <1>0, <2>1, <3>1, <3>2, <3>3 DEF CoInv, SameVersion
    <3> QED
      BY <1>0, <3>1, <3>2, <3>3, <3>4, CoSteps
  <2> QED
    BY <2>2, <2>3
<1> QED
  BY <1>1, <1>2, <1>3, <1>4, <1>5, <1>7, <1>8, <1>9

\* The steps of pausing and of keeping alive.
LEMMA IdleSteps ==
  ASSUME IInv, NEW c \in Coroutine, UNCHANGED crashes
  PROVE  /\ StartPause(c) => Preserved
         /\ Pause(c) => Preserved
         /\ PauseDone(c) => Preserved
         /\ PauseFailed(c) => Preserved
         /\ KeepaliveCas(c) => Preserved
         /\ KeepaliveCall(c) => Preserved
         /\ KeepGone(c) => Preserved
         /\ KeepFailed(c) => Preserved
<1> DEFINE r == co[c].row
<1> USE LifecycleConstants
<1>0. /\ StoreInv /\ co \in [Coroutine -> CoRecord] /\ co[c] \in CoRecord /\ CoInv(c)
      /\ Home[c] \in Replica /\ cloud \in [Row -> CloudState] /\ crashes' \in Nat
      /\ co[c].pc \notin {"idle", "draw"} => r \in Row /\ rows[r] \in RowRecord
  BY DEF IInv, CoType, CoInv, StoreInv, StoreType
<1>1. ASSUME StartPause(c) PROVE Preserved
  <2>1. co[c].pc = "startPause" /\ r \in Row /\ cloud' = cloud
    BY <1>0, <1>1 DEF StartPause, At
  <2>2. CASE StartPauseTx(r, co[c].snap, Home[c]) /\ Go(c, "pause")
    <3>1. StoreInv' /\ Advance
      BY <1>0, <2>1, <2>2, StoreMove DEF StartPauseTx, ReadyAsRead, SandboxState, Present
    <3> QED
      BY <1>0, <2>1, <2>2, <3>1, CoGoes DEF Plain, Pc, CallPc
  <2>3. CASE Finish(c) /\ UNCHANGED storeVars
    BY <1>0, <2>1, <2>3, StoreIdle, CoFinishes
  <2> QED
    BY <1>1, <2>2, <2>3 DEF StartPause
<1>2. ASSUME Pause(c) PROVE Preserved
  <2>1. co[c].pc = "pause" /\ r \in Row /\ UNCHANGED storeVars
    BY <1>0, <1>2 DEF Pause, At
  <2>2. CASE Call(c, "paused", "paused", "pauseFailed")
    BY <2>1, <2>2, CoCalls DEF Plain, Pc, CloudState
  <2>3. CASE Go(c, "pauseFailed") /\ UNCHANGED cloud
    BY <1>0, <2>1, <2>3, StoreIdle, CoGoes DEF Plain, Pc
  <2> QED
    BY <1>2, <2>2, <2>3 DEF Pause
<1>3. ASSUME PauseDone(c) PROVE Preserved
  <2>1. r \in Row /\ cloud' = cloud /\ UNCHANGED <<leases, lapsed, draining>> /\ Finish(c)
    BY <1>0, <1>3 DEF PauseDone, At
  <2>2. StoreInv' /\ Advance
    BY <1>0, <1>3, <2>1, StoreMove, StoreIdle
       DEF PauseDone, OwnedIn, SandboxState, Present, storeVars
  <2> QED
    BY <1>0, <2>1, <2>2, CoFinishes
<1>4. ASSUME PauseFailed(c) PROVE Preserved
  <2>1. co[c].pc = "pauseFailed" /\ r \in Row /\ UNCHANGED <<storeVars, cloud>>
    BY <1>0, <1>4 DEF PauseFailed, At
  <2>2. CASE OwnedIn(r, "PAUSING", Home[c]) /\ Reread(c, "destroy")
    BY <2>1, <2>2, BeginReads DEF OwnedIn, SandboxState
  <2>3. CASE Finish(c)
    BY <1>0, <2>1, <2>3, StoreIdle, CoFinishes
  <2> QED
    BY <1>4, <2>2, <2>3 DEF PauseFailed
<1>5. ASSUME KeepaliveCas(c) PROVE Preserved
  <2>1. co[c].pc = "keepalive" /\ r \in Row /\ cloud' = cloud
        /\ UNCHANGED <<overdue, leases, lapsed, draining>>
    BY <1>0, <1>5 DEF KeepaliveCas, At
  <2>2. CASE ReadyAsRead(r, co[c].snap) /\ Touch(r) /\ Go(c, "keepTimeout")
    <3>1. StoreInv' /\ Advance
      BY <1>0, <2>1, <2>2, StoreTouch DEF ReadyAsRead
    <3> QED
      BY <1>0, <2>1, <2>2, <3>1, CoGoes DEF Plain, Pc
  <2>3. CASE Finish(c) /\ UNCHANGED rows
    BY <1>0, <2>1, <2>3, StoreIdle, CoFinishes DEF storeVars
  <2> QED
    BY <1>5, <2>2, <2>3 DEF KeepaliveCas
<1>6. ASSUME KeepaliveCall(c) PROVE Preserved
  <2>1. co[c].pc = "keepTimeout" /\ UNCHANGED <<storeVars, cloud>>
        /\ (Finish(c) \/ Go(c, "keepGone") \/ Go(c, "keepFailed"))
    BY <1>6 DEF KeepaliveCall, At
  <2> QED
    BY <1>0, <2>1, StoreIdle, CoFinishes, CoGoes DEF Plain, Pc
<1>7. ASSUME KeepGone(c) PROVE Preserved
  <2>1. co[c].pc = "keepGone" /\ r \in Row /\ UNCHANGED <<storeVars, cloud>>
    BY <1>0, <1>7 DEF KeepGone, At
  <2>2. CASE rows[r].state = "READY" /\ Reread(c, "destroy")
    BY <2>1, <2>2, BeginReads DEF SandboxState
  <2>3. CASE Finish(c)
    BY <1>0, <2>1, <2>3, StoreIdle, CoFinishes
  <2> QED
    BY <1>7, <2>2, <2>3 DEF KeepGone
<1>8. ASSUME KeepFailed(c) PROVE Preserved
  <2>1. r \in Row /\ cloud' = cloud /\ Finish(c) /\ UNCHANGED <<overdue, leases, lapsed, draining>>
    BY <1>0, <1>8 DEF KeepFailed, At
  <2>2. StoreInv' /\ Advance
    BY <1>0, <1>8, <2>1, StoreTouch, StoreIdle DEF KeepFailed, storeVars
  <2> QED
    BY <1>0, <2>1, <2>2, CoFinishes
<1> QED
  BY <1>1, <1>2, <1>3, <1>4, <1>5, <1>6, <1>7, <1>8

\* The steps that recover rows and compare them with the platform.
LEMMA RecoverySteps ==
  ASSUME IInv, NEW c \in Coroutine, UNCHANGED crashes
  PROVE  /\ Adopt(c) => Preserved
         /\ AdoptCas(c) => Preserved
         /\ OrphanCheck(c) => Preserved
         /\ ListPlatform(c) => Preserved
         /\ KillOrphan(c) => Preserved
         /\ DropVanished(c) => Preserved
         /\ LeaveAlone(c) => Preserved
<1> DEFINE r == co[c].row
<1> USE LifecycleConstants
<1>0. /\ StoreInv /\ co \in [Coroutine -> CoRecord] /\ co[c] \in CoRecord /\ CoInv(c)
      /\ Home[c] \in Replica /\ cloud \in [Row -> CloudState] /\ crashes' \in Nat
      /\ co[c].pc \notin {"idle", "draw"} => r \in Row /\ rows[r] \in RowRecord
  BY DEF IInv, CoType, CoInv, StoreInv, StoreType
<1>1. ASSUME Adopt(c) PROVE Preserved
  <2>1. co[c].pc = "adopt" /\ r \in Row /\ UNCHANGED <<storeVars, cloud>> /\ rows' = rows
        /\ leases' = leases /\ StoreInv' /\ Advance
        /\ co[c].snap.state \in {"PAUSING", "RESUMING"}
    BY <1>0, <1>1, StoreIdle DEF Adopt, At, CoInv, storeVars
  <2> DEFINE target == IF cloud[r] = "paused" THEN "PAUSED" ELSE "READY"
  <2>2. CASE co' = [co EXCEPT ![c].pc = "adoptCas", ![c].to = target]
    <3> DEFINE s == [co[c] EXCEPT !.pc = "adoptCas", !.to = target]
    <3>1. s \in CoRecord /\ co' = [co EXCEPT ![c] = s] /\ co'[c] = s
      BY <1>0, <2>2 DEF CoRecord, Pc
    <3>2. s.pc = "adoptCas" /\ s.to \in {"READY", "PAUSED"} /\ s.row = r /\ s.snap = co[c].snap
      BY <1>0 DEF CoRecord
    <3>3. CoInv(c)'
      BY <1>0, <2>1, <3>1, <3>2 DEF CoInv
    <3> QED
      BY <1>0, <2>1, <3>1, <3>3, CoSteps
  <2>3. CASE Go(c, "destroy")
    <3> DEFINE s == [co[c] EXCEPT !.pc = "destroy"]
    <3>1. s \in CoRecord /\ co' = [co EXCEPT ![c] = s] /\ co'[c] = s
      BY <1>0, <2>3 DEF Go, CoRecord, Pc
    <3>2. s.pc = "destroy" /\ s.row = r /\ s.snap = co[c].snap
      BY <1>0 DEF CoRecord
    <3>3. CoInv(c)'
      BY <1>0, <2>1, <3>1, <3>2 DEF CoInv, SandboxState
    <3> QED
      BY <1>0, <2>1, <3>1, <3>3, CoSteps
  <2> QED
    BY <1>1, <2>2, <2>3 DEF Adopt
<1>2. ASSUME AdoptCas(c) PROVE Preserved
  <2>1. co[c].pc = "adoptCas" /\ r \in Row /\ cloud' = cloud /\ Finish(c)
        /\ UNCHANGED <<leases, lapsed, draining>>
        /\ co[c].snap.state \in {"PAUSING", "RESUMING"} /\ co[c].to \in {"READY", "PAUSED"}
    BY <1>0, <1>2 DEF AdoptCas, At, CoInv
  <2>2. CASE SameVersion(r, co[c].snap) /\ Move(r, co[c].to, NoReplica)
    <3>1. StoreInv' /\ Advance
      BY <1>0, <2>1, <2>2, StoreMove DEF SameVersion, SandboxState, Present
    <3> QED
      BY <1>0, <2>1, <3>1, CoFinishes
  <2>3. CASE UNCHANGED <<rows, overdue>>
    BY <1>0, <2>1, <2>3, StoreIdle, CoFinishes DEF storeVars
  <2> QED
    BY <1>2, <2>2, <2>3 DEF AdoptCas
<1>3. ASSUME OrphanCheck(c) PROVE Preserved
  <2> DEFINE l == co[c].snap.lease
  <2>1. co[c].pc = "orphan" /\ r \in Row /\ UNCHANGED <<storeVars, cloud>> /\ rows' = rows
        /\ leases' = leases /\ StoreInv' /\ Advance /\ Granted(l, r)
        /\ co[c].snap.state \in SandboxState
    BY <1>0, <1>3, StoreIdle DEF OrphanCheck, At, CoInv, storeVars
  <2>2. CASE leases[l].state = "ACTIVE"
    BY <1>0, <1>3, <2>1, <2>2, CoGoes DEF OrphanCheck, Plain, Pc
  <2>3. CASE leases[l].state # "ACTIVE"
    <3> DEFINE s == [co[c] EXCEPT !.pc = "destroy"]
    <3>1. s \in CoRecord /\ co' = [co EXCEPT ![c] = s] /\ co'[c] = s
      BY <1>0, <1>3, <2>3 DEF OrphanCheck, Go, CoRecord, Pc
    <3>2. s.pc = "destroy" /\ s.row = r /\ s.snap = co[c].snap
      BY <1>0 DEF CoRecord
    <3>3. rows[r].lease = l
      BY <1>0, <2>1 DEF Granted, StoreInv, LeaseInv
    <3>4. CoInv(c)'
      BY <1>0, <2>1, <2>3, <3>1, <3>2, <3>3 DEF CoInv
    <3> QED
      BY <1>0, <2>1, <3>1, <3>4, CoSteps
  <2> QED
    BY <2>2, <2>3
<1>4. ASSUME ListPlatform(c) PROVE Preserved
  <2>1. co[c].pc = "list" /\ r \in Row /\ UNCHANGED <<storeVars, cloud>> /\ rows' = rows
        /\ leases' = leases /\ StoreInv' /\ Advance
    BY <1>0, <1>4, StoreIdle DEF ListPlatform, At, storeVars
  <2> DEFINE found == IF Live(r) THEN "live" ELSE "gone"
  <2>2. CASE co' = [co EXCEPT ![c].pc = "listed", ![c].to = found]
    <3> DEFINE s == [co[c] EXCEPT !.pc = "listed", !.to = found]
    <3>1. s \in CoRecord /\ co' = [co EXCEPT ![c] = s] /\ co'[c] = s
      BY <1>0, <2>2 DEF CoRecord, Pc
    <3>2. s.pc = "listed" /\ s.row = r /\ s.snap = co[c].snap
      BY <1>0 DEF CoRecord
    <3>3. CoInv(c)'
      BY <1>0, <2>1, <3>1, <3>2 DEF CoInv
    <3> QED
      BY <1>0, <2>1, <3>1, <3>3, CoSteps
  <2>3. CASE Finish(c)
    BY <1>0, <2>1, <2>3, CoFinishes
  <2> QED
    BY <1>4, <2>2, <2>3 DEF ListPlatform
<1>5. ASSUME KillOrphan(c) PROVE Preserved
  BY <1>0, <1>5, StoreIdle, CoGoes DEF KillOrphan, At, Plain, Pc
<1>6. ASSUME DropVanished(c) PROVE Preserved
  <2>1. co[c].pc = "listed" /\ r \in Row /\ UNCHANGED <<storeVars, cloud>>
        /\ rows[r].state \in {"READY", "PAUSED", "LEASED"}
    BY <1>0, <1>6 DEF DropVanished, At, Vanished
  <2>2. CASE rows[r].state = "LEASED"
    <3>1. Granted(rows[r].lease, r)
      BY <1>0, <2>1, <2>2 DEF StoreInv, RowInv
    <3> QED
      BY <1>6, <2>1, <2>2, <3>1, BeginEnds DEF DropVanished, Granted, Ended, SandboxState
  <2>3. CASE rows[r].state # "LEASED"
    BY <1>6, <2>1, <2>3, BeginReads DEF DropVanished, SandboxState
  <2> QED
    BY <2>2, <2>3
<1>7. ASSUME LeaveAlone(c) PROVE Preserved
  BY <1>0, <1>7, StoreIdle, CoFinishes DEF LeaveAlone
<1> QED
  BY <1>1, <1>2, <1>3, <1>4, <1>5, <1>6, <1>7

\* The starts of the maintenance loop's operations.
LEMMA StartSteps ==
  ASSUME IInv, NEW c \in Coroutine, UNCHANGED crashes
  PROVE  /\ \A l \in LeaseId : ExpireLease(c, l) => Preserved
         /\ \A r \in Row : RecoverStuck(c, r) => Preserved
         /\ \A r \in Row : FixOrphan(c, r) => Preserved
         /\ \A r \in Row : RetireOld(c, r) \/ DrainIdle(c, r) => Preserved
         /\ \A r \in Row : PauseIdle(c, r) \/ Keepalive(c, r) \/ Reconcile(c, r) => Preserved
<1>0. StoreInv /\ co \in [Coroutine -> CoRecord] /\ co[c] \in CoRecord
  BY DEF IInv, CoType
<1>1. ASSUME NEW l \in LeaseId, ExpireLease(c, l) PROVE Preserved
  <2>1. leases[l].state = "ACTIVE" /\ rows[leases[l].row].state = "LEASED"
    BY <1>0, <1>1 DEF ExpireLease, StoreInv, LeaseInv
  <2> QED
    BY <1>1, <2>1, BeginEnds DEF ExpireLease, BeginEnd, Ended, SandboxState
<1>2. ASSUME NEW r \in Row, RecoverStuck(c, r) PROVE Preserved
  <2>1. rows[r].state \in Transitional /\ UNCHANGED <<storeVars, cloud>>
    BY <1>2 DEF RecoverStuck
  <2>2. CASE co' = [co EXCEPT ![c] = Reading("destroy", r, NoLease, "-")]
    BY <2>1, <2>2, BeginReads DEF Transitional, SandboxState
  <2>3. CASE co' = [co EXCEPT ![c] = Reading("adopt", r, NoLease, "-")]
             /\ rows[r].state \in {"PAUSING", "RESUMING"}
    <3> DEFINE s == Reading("adopt", r, NoLease, "-")
    <3>1. s \in CoRecord
      BY <1>0, ReadingType DEF Pc
    <3>2. co'[c] = [pc |-> "adopt", row |-> r, snap |-> rows[r], lease |-> NoLease, to |-> "-"]
      BY <1>0, <2>3 DEF Reading
    <3>3. rows' = rows /\ rows[r] \in RowRecord /\ StoreInv' /\ Advance
      BY <1>0, <2>1, StoreIdle DEF storeVars, StoreInv, StoreType
    <3>4. CoInv(c)'
      BY <2>3, <3>2, <3>3 DEF CoInv, RowRecord
    <3> QED
      BY <1>0, <2>1, <2>3, <3>1, <3>3, <3>4, CoSteps DEF IInv
  <2> QED
    BY <1>2, <2>2, <2>3 DEF RecoverStuck, Begin
<1>3. ASSUME NEW r \in Row, FixOrphan(c, r) PROVE Preserved
  <2> DEFINE s == Reading("orphan", r, NoLease, "-")
  <2>1. rows[r].state = "LEASED" /\ UNCHANGED <<storeVars, cloud>>
        /\ co' = [co EXCEPT ![c] = s]
    BY <1>3 DEF FixOrphan, Begin
  <2>2. s \in CoRecord
    BY <1>0, ReadingType DEF Pc
  <2>3. co'[c] = [pc |-> "orphan", row |-> r, snap |-> rows[r], lease |-> NoLease, to |-> "-"]
    BY <1>0, <2>1 DEF Reading
  <2>4. rows' = rows /\ leases' = leases /\ rows[r] \in RowRecord /\ StoreInv' /\ Advance
    BY <1>0, <2>1, StoreIdle DEF storeVars, StoreInv, StoreType
  <2>5. Granted(rows[r].lease, r)
    BY <1>0, <2>1 DEF StoreInv, RowInv
  <2>6. CoInv(c)'
    BY <2>1, <2>3, <2>4, <2>5 DEF CoInv, RowRecord, Granted, SandboxState
  <2> QED
    BY <1>0, <2>1, <2>2, <2>4, <2>6, CoSteps DEF IInv
<1>4. ASSUME NEW r \in Row, RetireOld(c, r) \/ DrainIdle(c, r) PROVE Preserved
  <2>1. rows[r].state \in {"READY", "PAUSED"} /\ UNCHANGED <<storeVars, cloud>>
        /\ co' = [co EXCEPT ![c] = Reading("destroy", r, NoLease, "-")]
    BY <1>4 DEF RetireOld, DrainIdle, Begin
  <2> QED
    BY <2>1, BeginReads DEF SandboxState
<1>5. ASSUME NEW r \in Row, PauseIdle(c, r) \/ Keepalive(c, r) \/ Reconcile(c, r) PROVE Preserved
  <2>1. /\ UNCHANGED <<storeVars, cloud>>
        /\ \E pc \in {"startPause", "keepalive", "list"} :
              co' = [co EXCEPT ![c] = Reading(pc, r, NoLease, "-")]
    BY <1>5 DEF PauseIdle, Keepalive, Reconcile, Begin
  <2> QED
    BY <2>1, BeginReads DEF Plain, Pc
<1> QED
  BY <1>1, <1>2, <1>3, <1>4, <1>5

\* Coroutine steps, administration and environment.
LEMMA IInvStep == IInv /\ [Next]_vars => Preserved
<1> SUFFICES ASSUME IInv, [Next]_vars PROVE Preserved
  OBVIOUS
<1>0. /\ StoreInv /\ co \in [Coroutine -> CoRecord] /\ cloud \in [Row -> CloudState]
      /\ crashes \in Nat
  BY DEF IInv, CoType
<1> DEFINE Others == UNCHANGED <<co, cloud, crashes>>
<1>1. ASSUME StoreInv', Advance, co' = co, (cloud \in [Row -> CloudState])', crashes' \in Nat
      PROVE  Preserved
  <2>1. ASSUME NEW d \in Coroutine PROVE CoInv(d)'
    BY <1>0, <1>1, CoWaits DEF IInv
  <2> QED
    BY <1>0, <1>1, <2>1 DEF IInv, CoType, Preserved
<1>2. ASSUME NEW c \in Coroutine, CoroutineStep(c), UNCHANGED crashes PROVE Preserved
  <2>1. CASE DestroyCas(c) \/ Kill(c) \/ DeleteRow(c) \/ EndLeaseCas(c) \/ EndRow(c)
    BY <1>2, <2>1, LifecycleSteps
  <2>2. CASE AllocatorNext(c)
    BY <1>2, <2>2, AllocatorSteps
  <2>3. CASE MaintainerNext(c)
    <3>1. CASE \/ ReserveSlot(c) \/ Create(c) \/ RecordProvider(c) \/ Warm(c) \/ MarkReady(c)
               \/ CreateFailed(c) \/ BootFailed(c) \/ Discard(c)
      BY <1>2, <3>1, CreateSteps
    <3>2. CASE \/ StartPause(c) \/ Pause(c) \/ PauseDone(c) \/ PauseFailed(c)
               \/ KeepaliveCas(c) \/ KeepaliveCall(c) \/ KeepGone(c) \/ KeepFailed(c)
      BY <1>2, <3>2, IdleSteps
    <3>3. CASE \/ Adopt(c) \/ AdoptCas(c) \/ OrphanCheck(c)
               \/ ListPlatform(c) \/ KillOrphan(c) \/ DropVanished(c) \/ LeaveAlone(c)
      BY <1>2, <3>3, RecoverySteps
    <3>4. CASE \/ \E l \in LeaseId : ExpireLease(c, l)
               \/ \E r \in Row :
                    \/ RecoverStuck(c, r) \/ FixOrphan(c, r) \/ RetireOld(c, r) \/ DrainIdle(c, r)
                    \/ PauseIdle(c, r) \/ Keepalive(c, r) \/ Reconcile(c, r)
      BY <1>2, <3>4, StartSteps
    <3> QED
      BY <2>3, <3>1, <3>2, <3>3, <3>4 DEF MaintainerNext
  <2> QED
    BY <1>2, <2>1, <2>2, <2>3 DEF CoroutineStep
<1>3. ASSUME NEW c \in Coroutine, NEW r \in Row, AdminDestroy(c, r) PROVE Preserved
  <2>1. CASE rows[r].state = "LEASED" /\ BeginEnd(c, "adminEnd", rows[r].lease, "RELEASED")
    <3>1. Granted(rows[r].lease, r)
      BY <1>0, <2>1 DEF StoreInv, RowInv
    <3> QED
      BY <1>3, <2>1, <3>1, BeginEnds DEF AdminDestroy, BeginEnd, Granted, Ended, SandboxState
  <2>2. CASE rows[r].state \in {"READY", "PAUSED"} /\ Begin(c, "destroy", r)
    BY <1>3, <2>2, BeginReads DEF AdminDestroy, Begin, SandboxState
  <2> QED
    BY <1>3, <2>1, <2>2 DEF AdminDestroy
<1>4. ASSUME NEW c \in Coroutine, Crash(c) PROVE Preserved
  <2>1. Finish(c) /\ UNCHANGED <<storeVars, cloud>> /\ crashes' \in Nat
    BY <1>0, <1>4 DEF Crash
  <2> QED
    BY <1>0, <2>1, StoreIdle, CoFinishes
<1>5. ASSUME Drain \/ Undrain PROVE Preserved
  <2>1. UNCHANGED <<rows, overdue, leases, lapsed, co, cloud, crashes>> /\ draining' \in BOOLEAN
    BY <1>5 DEF Drain, Undrain, lifecycleVars
  <2>2. StoreInv' /\ Onward
    BY <1>0, <2>1 DEF StoreInv, StoreType, LeaseInv, RowInv, Granted, CapacityInv, Present,
       Onward, Moves
  <2>3. Lends
    BY <2>1, SeenNothing DEF Sandbox, Borrowed
  <2> QED
    BY <1>0, <1>1, <2>1, <2>2, <2>3 DEF Advance
<1>6. ASSUME NEW r \in Row, DeadlinePasses(r) PROVE Preserved
  <2>1. UNCHANGED <<rows, leases, lapsed, draining, co, cloud, crashes>>
        /\ overdue' = overdue \cup {r}
    BY <1>6 DEF DeadlinePasses, lifecycleVars
  <2>2. StoreInv' /\ Onward
    BY <1>0, <2>1 DEF StoreInv, StoreType, LeaseInv, RowInv, Granted, CapacityInv, Present,
       Onward, Moves
  <2>3. Lends
    BY <2>1, SeenNothing DEF Sandbox, Borrowed
  <2> QED
    BY <1>0, <1>1, <2>1, <2>2, <2>3 DEF Advance
<1>7. ASSUME NEW l \in LeaseId, LeaseLapses(l) PROVE Preserved
  <2>1. UNCHANGED <<rows, overdue, leases, draining, co, cloud, crashes>>
        /\ lapsed' = lapsed \cup {l}
    BY <1>7 DEF LeaseLapses, lifecycleVars
  <2>2. StoreInv' /\ Onward
    BY <1>0, <2>1 DEF StoreInv, StoreType, LeaseInv, RowInv, Granted, CapacityInv, Present,
       Onward, Moves
  <2>3. Lends
    BY <2>1, SeenNothing DEF Sandbox, Borrowed
  <2> QED
    BY <1>0, <1>1, <2>1, <2>2, <2>3 DEF Advance
<1>8. ASSUME NEW r \in Row, Vanish(r) PROVE Preserved
  <2>1. UNCHANGED <<storeVars, co, crashes>> /\ (cloud \in [Row -> CloudState])'
    BY <1>0, <1>8 DEF Vanish, CloudState
  <2> QED
    BY <1>0, <1>1, <2>1, StoreIdle
<1>9. ASSUME NEW l \in LeaseId, PurgeLease(l), UNCHANGED <<lifecycleVars, crashes>> PROVE Preserved
  <2>1. StoreInv' /\ Advance
    BY <1>0, <1>9, StoreEnd DEF PurgeLease, Ended, LeaseState
  <2> QED
    BY <1>0, <1>1, <1>9, <2>1 DEF lifecycleVars
<1>10. CASE UNCHANGED vars
  BY <1>0, <1>1, <1>10, StoreIdle DEF vars, lifecycleVars
<1> QED
  BY <1>2, <1>3, <1>4, <1>5, <1>6, <1>7, <1>8, <1>9, <1>10 DEF Next

\* The empty pool satisfies the invariant.
LEMMA IInvInit == Init => IInv
<1> SUFFICES ASSUME Init PROVE IInv
  OBVIOUS
<1> USE DEF Init, StoreInit, LifecycleInit
<1>1. StoreType
  BY DEF StoreType, RowRecord, Absent, LeaseRecord, LeaseState
<1>2. LeaseInv /\ RowInv
  BY DEF LeaseInv, RowInv, Absent
<1>3. Present = {}
  BY DEF Present, SandboxState, Absent
<1>4. CapacityInv
  BY <1>3, FS_EmptySet, PoolStoreConstants DEF CapacityInv
<1>5. Idle \in CoRecord
  BY DEF Idle, CoRecord, Pc, Absent, RowRecord
<1>6. CoType /\ \A c \in Coroutine : co[c].pc = "idle"
  BY <1>5 DEF CoType, Idle
<1>7. \A c \in Coroutine : CoInv(c)
  BY <1>6 DEF CoInv
<1>8. cloud \in [Row -> CloudState] /\ crashes \in Nat
  BY DEF CloudState
<1> QED
  BY <1>1, <1>2, <1>4, <1>6, <1>7, <1>8 DEF IInv, StoreInv

-----------------------------------------------------------------------------
(* The theorems.                                                           *)

\* The strengthened invariant holds in every reachable state.
THEOREM Invariance == Spec => []IInv
<1>1. IInv /\ [Next]_vars => IInv'
  BY IInvStep DEF Preserved
<1> QED
  BY <1>1, IInvInit, PTL DEF Spec

\* Every table and every local variable keeps its type.
THEOREM TypeCorrect == Spec => []TypeOK
<1>1. IInv => TypeOK
  BY DEF IInv, StoreInv, StoreType, CoType, TypeOK
<1> QED
  BY <1>1, Invariance, PTL

\* An ACTIVE lease holds its sandbox exclusively, whatever recovery, expiry,
\* draining, retirement and other requests do.
THEOREM Exclusive == Spec => []ActiveLeaseHeld
<1>1. IInv => ActiveLeaseHeld
  BY DEF IInv, StoreInv, LeaseInv, ActiveLeaseHeld
<1> QED
  BY <1>1, Invariance, PTL

\* No sandbox is ever lent twice.
THEOREM Fresh == Spec => []NeverReused
<1>1. IInv => NeverReused
  BY DEF IInv, StoreInv, LeaseInv, NeverReused
<1> QED
  BY <1>1, Invariance, PTL

\* The pool never holds more records than its limit, however many replicas
\* replenish it.
THEOREM Bounded == Spec => []CapacityKept
<1>1. IInv => CapacityKept
  BY DEF IInv, StoreInv, CapacityInv, CapacityKept
<1> QED
  BY <1>1, Invariance, PTL

\* The pool implements Lending: seen by its callers, every step of every
\* replica lends, takes back, adds or gives up one sandbox, or does nothing.
THEOREM Implements == Spec => ImplementsLending
<1>1. Init => Promised!Init
  <2> SUFFICES ASSUME Init PROVE Promised!Init
    OBVIOUS
  <2>1. \A r \in Row : Sandbox(r) = "unborn"
    BY DEF Init, StoreInit, Sandbox, Absent
  <2>2. \A l \in LeaseId : Borrowed(l) = [state |-> "unused", of |-> NoRow]
    BY DEF Init, StoreInit, Borrowed
  <2> QED
    BY <2>1, <2>2 DEF Promised!Init
<1>2. IInv /\ [Next]_vars => [Promised!Next]_(Promised!vars)
  BY IInvStep DEF Preserved, Advance, Lends
<1> QED
  BY <1>1, <1>2, Invariance, PTL DEF Spec, ImplementsLending, Promised!Spec

-----------------------------------------------------------------------------
(***************************************************************************)
(* NoSilentLeak of SandboxPool, for any number of replicas, coroutines,    *)
(* rows and leases: a record with a provider_id is deleted only when its   *)
(* sandbox is dead.  What IInv says of the tables is used; what is added   *)
(* relates them to the platform.                                           *)
(***************************************************************************)

Spent == {"DESTROYING", "DELETED"}
Creating == {"create", "created"}

\* What coroutine c may rely on: a row whose version it knows has the provider_id it
\* read; a row taken to DESTROYING never comes back; before it deletes the record of a
\* sandbox with a provider_id, that sandbox is dead; and while it creates a sandbox, the
\* record has no provider_id yet.
Held(c) ==
  LET s == co[c]
      r == co[c].row IN
  /\ s.pc \notin {"idle", "draw"} /\ s.snap.version = rows[r].version
       => s.snap.known = rows[r].known
  /\ s.pc \in {"kill", "delete"} => rows[r].state \in Spent
  /\ s.pc = "delete" /\ rows[r].known => cloud[r] = "gone"
  /\ s.pc \in Creating => rows[r].state # "ABSENT" /\ ~rows[r].known
  /\ s.pc = "created" => cloud[r] # "none"

\* One coroutine creates the sandbox of a record.
Alone ==
  \A c, d \in Coroutine :
    co[c].pc \in Creating /\ co[d].pc \in Creating /\ co[c].row = co[d].row => c = d

\* A provider_id names a sandbox that was created.
Named == \A r \in Row : rows[r].known => cloud[r] # "none"

LeakInv == NoSilentLeak /\ Named /\ Alone /\ \A c \in Coroutine : Held(c)

\* How the tables change, but for the recording of a provider_id.
Tables ==
  \A r \in Row :
    /\ rows[r].version <= rows'[r].version
    /\ rows'[r].known = rows[r].known
    /\ rows[r].state \in Spent => rows'[r].state \in Spent
    /\ rows[r].state # "ABSENT" => rows'[r].state # "ABSENT"
    /\ rows'[r].state = "DELETED" /\ rows[r].known => cloud[r] = "gone"

\* How the platform changes: what is known to be dead stays dead.
Platform ==
  \A r \in Row :
    /\ cloud[r] # "none" => cloud'[r] # "none"
    /\ rows[r].known /\ cloud[r] = "gone" => cloud'[r] = "gone"

OthersWait(c) == \A d \in Coroutine \ {c} : co'[d] = co[d]

-----------------------------------------------------------------------------
(* What changes of the tables and of the platform leave as it is.          *)

\* The types that IInv gives.
LEMMA Types ==
  ASSUME IInv
  PROVE  /\ rows \in [Row -> RowRecord] /\ cloud \in [Row -> CloudState]
         /\ co \in [Coroutine -> CoRecord]
         /\ \A c \in Coroutine : co[c].pc \notin {"idle", "draw"} =>
              co[c].row \in Row /\ co[c].snap.version \in Nat
              /\ co[c].snap.version <= rows[co[c].row].version
         /\ \A r \in Row : rows[r].version \in Nat
<1>1. rows \in [Row -> RowRecord] /\ cloud \in [Row -> CloudState]
      /\ co \in [Coroutine -> CoRecord]
  BY DEF IInv, StoreInv, StoreType, CoType
<1>2. \A c \in Coroutine : co[c].snap \in RowRecord
  BY <1>1 DEF CoRecord
<1> QED
  BY <1>1, <1>2 DEF IInv, CoInv, RowRecord

\* A coroutine that waits keeps what it relies on.
LEMMA HeldWaits ==
  ASSUME IInv, NEW d \in Coroutine, Held(d), Tables, Platform, co'[d] = co[d]
  PROVE  Held(d)'
<1>1. co[d].pc \in {"idle", "draw"} \/ co[d].row \in Row
  BY Types
<1>2. CASE co[d].pc \in {"idle", "draw"}
  BY <1>2 DEF Held, Creating
<1>3. CASE co[d].pc \notin {"idle", "draw"}
  <2>1. co[d].row \in Row /\ co[d].snap.version \in Nat
        /\ co[d].snap.version <= rows[co[d].row].version /\ rows[co[d].row].version \in Nat
    BY <1>3, Types
  <2>2. co[d].snap.version = rows'[co[d].row].version =>
          co[d].snap.version = rows[co[d].row].version
    BY <2>1 DEF Tables
  <2> QED
    BY <1>3, <2>1, <2>2 DEF Held, Tables, Platform, Creating
<1> QED
  BY <1>2, <1>3

\* When one coroutine moves, and nothing is recorded, the invariant depends on it alone.
LEMMA OneMoves ==
  ASSUME IInv, LeakInv, NEW c \in Coroutine, Tables, Platform, OthersWait(c),
         Held(c)', Alone'
  PROVE  LeakInv'
<1>1. NoSilentLeak' /\ Named'
  BY DEF LeakInv, NoSilentLeak, Named, Tables, Platform
<1>2. ASSUME NEW d \in Coroutine PROVE Held(d)'
  BY <1>2, HeldWaits DEF LeakInv, OthersWait
<1> QED
  BY <1>1, <1>2 DEF LeakInv

\* A coroutine that does not begin to create a sandbox leaves the others alone.
LEMMA StillAlone ==
  ASSUME Alone, NEW c \in Coroutine, OthersWait(c),
         co'[c].pc \in Creating => co[c].pc \in Creating /\ co'[c].row = co[c].row
  PROVE  Alone'
BY DEF Alone, OthersWait

\* It goes on with the row it has read before, or has just read, or with none.
LEMMA CalmStep ==
  ASSUME IInv, LeakInv, NEW c \in Coroutine, Tables, Platform, OthersWait(c),
         co'[c].pc \notin {"kill", "delete"} \cup Creating,
         \/ co'[c].pc \in {"idle", "draw"}
         \/ co'[c].row \in Row /\ co'[c].snap = rows[co'[c].row]
         \/ /\ co[c].pc \notin {"idle", "draw"}
            /\ co'[c].row = co[c].row /\ co'[c].snap = co[c].snap
  PROVE  LeakInv'
<1>1. Held(c)'
  <2>1. CASE co'[c].pc \in {"idle", "draw"}
    BY <2>1 DEF Held, Creating
  <2>2. CASE co'[c].row \in Row /\ co'[c].snap = rows[co'[c].row]
    BY <2>2 DEF Held, Tables, Creating
  <2>3. CASE co[c].pc \notin {"idle", "draw"} /\ co'[c].row = co[c].row
             /\ co'[c].snap = co[c].snap
    <3>1. co[c].row \in Row /\ co[c].snap.version \in Nat
          /\ co[c].snap.version <= rows[co[c].row].version /\ rows[co[c].row].version \in Nat
      BY <2>3, Types
    <3>2. co[c].snap.version = rows'[co[c].row].version =>
            co[c].snap.version = rows[co[c].row].version
      BY <3>1 DEF Tables
    <3> QED
      BY <2>3, <3>1, <3>2 DEF Held, LeakInv, Tables, Creating
  <2> QED
    BY <2>1, <2>2, <2>3
<1>2. Alone'
  BY StillAlone DEF LeakInv
<1> QED
  BY <1>1, <1>2, OneMoves

\* The same of the ways to write the next await.
Calm == Pc \ ({"kill", "delete"} \cup Creating)

LEMMA CalmGoes ==
  ASSUME IInv, LeakInv, NEW c \in Coroutine, Tables, Platform,
         co[c].pc \notin {"idle", "draw"}, NEW pc \in Calm,
         Go(c, pc) \/ Finish(c) \/ Reread(c, pc)
  PROVE  LeakInv'
<1>1. co \in [Coroutine -> CoRecord] /\ co[c].row \in Row
  BY Types
<1>2. OthersWait(c)
  BY <1>1 DEF Go, Finish, Reread, OthersWait
<1>3. CASE Finish(c) \/ (Go(c, pc) /\ pc = "idle")
  <2>1. co'[c].pc = "idle"
    BY <1>1, <1>3 DEF Go, Finish, Idle
  <2> QED
    BY <1>2, <2>1, CalmStep DEF Creating
<1>4. CASE Go(c, pc) /\ pc # "idle"
  <2>1. co'[c] = [co[c] EXCEPT !.pc = pc]
    BY <1>1, <1>4 DEF Go
  <2>2. co'[c].pc = pc /\ co'[c].row = co[c].row /\ co'[c].snap = co[c].snap
    BY <1>1, <2>1 DEF CoRecord
  <2> QED
    BY <1>2, <2>2, CalmStep DEF Calm
<1>5. CASE Reread(c, pc)
  <2>1. co'[c] = [co[c] EXCEPT !.pc = pc, !.snap = rows[co[c].row]]
    BY <1>1, <1>5 DEF Reread
  <2>2. co'[c].pc = pc /\ co'[c].row = co[c].row /\ co'[c].snap = rows[co[c].row]
    BY <1>1, <2>1 DEF CoRecord
  <2> QED
    BY <1>1, <1>2, <2>2, CalmStep DEF Calm
<1> QED
  BY <1>3, <1>4, <1>5

LEMMA CalmSets ==
  ASSUME IInv, LeakInv, NEW c \in Coroutine, Tables, Platform,
         co[c].pc \notin {"idle", "draw"}, NEW pc \in Calm, NEW x,
         \/ co' = [co EXCEPT ![c].pc = pc, ![c].to = x]
         \/ co' = [co EXCEPT ![c].pc = pc, ![c].lease = x]
  PROVE  LeakInv'
<1>1. co \in [Coroutine -> CoRecord]
  BY Types
<1>2. OthersWait(c)
  BY <1>1 DEF OthersWait
<1>3. co'[c] = [co[c] EXCEPT !.pc = pc, !.to = x] \/ co'[c] = [co[c] EXCEPT !.pc = pc, !.lease = x]
  BY <1>1
<1>4. co'[c].pc = pc /\ co'[c].row = co[c].row /\ co'[c].snap = co[c].snap
  BY <1>1, <1>3 DEF CoRecord
<1> QED
  BY <1>2, <1>4, CalmStep DEF Calm

\* An operation starts on a row as it is.
LEMMA CalmBegins ==
  ASSUME IInv, LeakInv, NEW c \in Coroutine, Tables, Platform, NEW pc \in Calm,
         NEW r \in Row, NEW l, NEW to, co' = [co EXCEPT ![c] = Reading(pc, r, l, to)]
  PROVE  LeakInv'
<1>1. co \in [Coroutine -> CoRecord]
  BY Types
<1>2. OthersWait(c)
  BY <1>1 DEF OthersWait
<1>3. co'[c].pc = pc /\ co'[c].row = r /\ co'[c].snap = rows[r]
  BY <1>1 DEF Reading
<1> QED
  BY <1>2, <1>3, CalmStep DEF Calm

-----------------------------------------------------------------------------
(* The tables and the platform.                                            *)

LEMMA TablesStay ==
  ASSUME IInv, LeakInv, rows' = rows
  PROVE  Tables
BY Types DEF Tables, LeakInv, NoSilentLeak

LEMMA PlatformStays ==
  ASSUME cloud' = cloud
  PROVE  Platform
BY DEF Platform

\* A change of state that leaves the end of a row's life alone.
LEMMA TablesMove ==
  ASSUME IInv, LeakInv, NEW r \in Row, NEW s \in SandboxState, NEW o, Move(r, s, o),
         rows[r].state \in SandboxState, rows[r].state = "DESTROYING" => s = "DESTROYING"
  PROVE  Tables
<1>1. rows \in [Row -> RowRecord] /\ \A q \in Row : rows[q].version \in Nat
  BY Types
<1>2. \A q \in Row \ {r} : rows'[q] = rows[q]
  BY <1>1 DEF Move
<1>3. rows'[r] = [rows[r] EXCEPT !.state = s, !.version = rows[r].version + 1, !.owner = o]
  BY <1>1 DEF Move
<1>4. rows'[r].state = s /\ rows'[r].version = rows[r].version + 1
      /\ rows'[r].known = rows[r].known
  BY <1>1, <1>3 DEF RowRecord
<1> QED
  BY <1>1, <1>2, <1>4 DEF Tables, LeakInv, NoSilentLeak, Spent, SandboxState

LEMMA TablesTouch ==
  ASSUME IInv, LeakInv, NEW r \in Row, Touch(r)
  PROVE  Tables
<1>1. rows \in [Row -> RowRecord] /\ \A q \in Row : rows[q].version \in Nat
  BY Types
<1>2. \A q \in Row \ {r} : rows'[q] = rows[q]
  BY <1>1 DEF Touch
<1>3. rows'[r] = [rows[r] EXCEPT !.version = rows[r].version + 1]
  BY <1>1 DEF Touch
<1>4. rows'[r].state = rows[r].state /\ rows'[r].version = rows[r].version + 1
      /\ rows'[r].known = rows[r].known
  BY <1>1, <1>3 DEF RowRecord
<1> QED
  BY <1>1, <1>2, <1>4 DEF Tables, LeakInv, NoSilentLeak

LEMMA TablesGrant ==
  ASSUME IInv, LeakInv, NEW r \in Row, NEW l \in LeaseId, GrantLease(r, l),
         rows[r].state \in {"READY", "RESUMING"}
  PROVE  Tables
<1>1. rows \in [Row -> RowRecord] /\ \A q \in Row : rows[q].version \in Nat
  BY Types
<1>2. \A q \in Row \ {r} : rows'[q] = rows[q]
  BY <1>1 DEF GrantLease
<1>3. rows'[r] = [rows[r] EXCEPT !.state = "LEASED", !.version = rows[r].version + 1,
                                 !.owner = NoReplica, !.lease = l]
  BY <1>1 DEF GrantLease
<1>4. rows'[r].state = "LEASED" /\ rows'[r].version = rows[r].version + 1
      /\ rows'[r].known = rows[r].known
  BY <1>1, <1>3 DEF RowRecord
<1> QED
  BY <1>1, <1>2, <1>4 DEF Tables, LeakInv, NoSilentLeak, Spent

\* A sandbox that lives changes, or none that is known to be dead or unborn.
LEMMA PlatformChange ==
  ASSUME IInv, NEW r \in Row, NEW new \in CloudState \ {"none"},
         cloud' = [cloud EXCEPT ![r] = new] \/ cloud' = cloud,
         rows[r].known /\ cloud[r] = "gone" => new = "gone"
  PROVE  Platform
BY Types DEF Platform

\* kill of a sandbox, dead or alive.
LEMMA PlatformKill ==
  ASSUME IInv, NEW r \in Row,
         \/ cloud' = [cloud EXCEPT ![r] = IF Live(r) THEN "gone" ELSE cloud[r]]
         \/ cloud' = cloud
  PROVE  Platform
BY Types DEF Platform, Live

\* A request to the platform, for a sandbox that must be alive.
LEMMA CalmCalls ==
  ASSUME IInv, LeakInv, NEW c \in Coroutine, UNCHANGED storeVars,
         co[c].pc \notin {"idle", "draw"}, NEW new \in CloudState \ {"none"}, Live(co[c].row),
         NEW ok \in Calm, NEW failed \in Calm, Call(c, new, ok, failed)
  PROVE  LeakInv'
<1>1. co[c].row \in Row
  BY Types
<1>2. cloud' = [cloud EXCEPT ![co[c].row] = new] \/ cloud' = cloud
  BY DEF Call
<1>3. Tables /\ Platform
  BY <1>1, <1>2, TablesStay, PlatformChange DEF Live, storeVars
<1>4. Go(c, ok) \/ Go(c, failed)
  BY DEF Call
<1> QED
  BY <1>3, <1>4, CalmGoes

-----------------------------------------------------------------------------
(* The steps of coroutines.                                                *)

\* The row was taken to DESTROYING: what is known by then is that it stays there.
LEMMA TakenStep ==
  ASSUME IInv, LeakInv, NEW c \in Coroutine, Tables, Platform, NEW pc \in {"kill", "delete"},
         co[c].pc \notin {"idle", "draw"}, Go(c, pc), rows'[co[c].row].state \in Spent,
         pc = "delete" /\ rows[co[c].row].known => cloud'[co[c].row] = "gone"
  PROVE  LeakInv'
<1>1. co \in [Coroutine -> CoRecord] /\ co[c].row \in Row /\ co[c].snap.version \in Nat
      /\ co[c].snap.version <= rows[co[c].row].version /\ rows[co[c].row].version \in Nat
  BY Types
<1>2. co'[c] = [co[c] EXCEPT !.pc = pc] /\ OthersWait(c)
  BY <1>1 DEF Go, OthersWait
<1>3. co'[c].pc = pc /\ co'[c].row = co[c].row /\ co'[c].snap = co[c].snap
  BY <1>1, <1>2 DEF CoRecord
<1>4. co[c].snap.version = rows'[co[c].row].version =>
        co[c].snap.version = rows[co[c].row].version
  BY <1>1 DEF Tables
<1>5. Held(c)'
  BY <1>1, <1>3, <1>4 DEF Held, LeakInv, Tables, Creating
<1>6. Alone'
  BY <1>2, <1>3, StillAlone DEF LeakInv, Creating
<1> QED
  BY <1>2, <1>5, <1>6, OneMoves

\* Destroying a sandbox, and ending a lease.
LEMMA LifecycleKeeps ==
  ASSUME IInv, LeakInv, NEW c \in Coroutine
  PROVE  /\ DestroyCas(c) => LeakInv'
         /\ Kill(c) => LeakInv'
         /\ DeleteRow(c) => LeakInv'
         /\ EndLeaseCas(c) => LeakInv'
         /\ EndRow(c) => LeakInv'
<1> DEFINE r == co[c].row
<1>0. /\ co[c].pc \notin {"idle", "draw"} => r \in Row
      /\ rows \in [Row -> RowRecord] /\ cloud \in [Row -> CloudState] /\ CoInv(c)
      /\ Held(c)
  BY Types DEF IInv, LeakInv
<1>1. ASSUME DestroyCas(c) PROVE LeakInv'
  <2>1. co[c].pc = "destroy" /\ r \in Row /\ Platform
    BY <1>0, <1>1, PlatformStays DEF DestroyCas, At
  <2>2. CASE SameVersion(r, co[c].snap) /\ Move(r, "DESTROYING", Home[c])
             /\ Go(c, IF co[c].snap.known THEN "kill" ELSE "delete")
    <3>1. rows[r].state \in SandboxState /\ rows[r].known = co[c].snap.known
      BY <1>0, <2>1, <2>2 DEF CoInv, SameVersion, Held
    <3>2. Tables
      BY <2>1, <2>2, <3>1, TablesMove DEF SandboxState
    <3>3. rows'[r].state = "DESTROYING"
      BY <1>0, <2>1, <2>2 DEF Move, RowRecord
    <3> QED
      BY <2>1, <2>2, <3>1, <3>2, <3>3, TakenStep DEF Spent
  <2>3. CASE Finish(c) /\ UNCHANGED rows
    BY <2>1, <2>3, TablesStay, CalmGoes DEF Calm, Pc, Creating
  <2> QED
    BY <1>1, <2>2, <2>3 DEF DestroyCas
<1>2. ASSUME Kill(c) PROVE LeakInv'
  <2>1. co[c].pc = "kill" /\ r \in Row /\ rows' = rows /\ rows[r].state \in Spent
    BY <1>0, <1>2 DEF Kill, At, storeVars, Held
  <2>2. Tables /\ Platform
    BY <1>2, <2>1, TablesStay, PlatformKill DEF Kill, Call
  <2>3. CASE /\ cloud' = [cloud EXCEPT ![r] = IF Live(r) THEN "gone" ELSE cloud[r]]
             /\ Go(c, "delete")
    <3>1. rows[r].known => cloud'[r] = "gone"
      BY <1>0, <2>1, <2>3 DEF Live, LeakInv, Named, CloudState
    <3> QED
      BY <2>1, <2>2, <2>3, <3>1, TakenStep
  <2>4. CASE Go(c, "idle")
    BY <2>1, <2>2, <2>4, CalmGoes DEF Calm, Pc, Creating
  <2> QED
    BY <1>2, <2>3, <2>4 DEF Kill, Call
<1>3. ASSUME DeleteRow(c) PROVE LeakInv'
  <2>1. co[c].pc = "delete" /\ r \in Row /\ Platform /\ Finish(c)
        /\ (rows[r].known => cloud[r] = "gone")
    BY <1>0, <1>3, PlatformStays DEF DeleteRow, At, Held
  <2>2. CASE DeleteSandboxTx(r, Home[c])
    <3>1. rows[r].state = "DESTROYING" /\ rows' = [rows EXCEPT ![r].state = "DELETED"]
      BY <2>2 DEF DeleteSandboxTx, CanDelete, OwnedIn
    <3>2. rows'[r] = [rows[r] EXCEPT !.state = "DELETED"]
          /\ \A q \in Row \ {r} : rows'[q] = rows[q]
      BY <1>0, <2>1, <3>1
    <3>3. rows'[r].state = "DELETED" /\ rows'[r].version = rows[r].version
          /\ rows'[r].known = rows[r].known
      BY <1>0, <2>1, <3>2 DEF RowRecord
    <3>4. \A q \in Row : rows[q].version \in Nat
      BY Types
    <3>5. NoSilentLeak
      BY DEF LeakInv
    <3>6. ASSUME NEW q \in Row
          PROVE  /\ rows[q].version <= rows'[q].version /\ rows'[q].known = rows[q].known
                 /\ rows[q].state \in Spent => rows'[q].state \in Spent
                 /\ rows[q].state # "ABSENT" => rows'[q].state # "ABSENT"
                 /\ rows'[q].state = "DELETED" /\ rows[q].known => cloud[q] = "gone"
      <4>1. CASE q = r
        BY <2>1, <3>3, <3>4, <4>1 DEF Spent
      <4>2. CASE q # r
        BY <3>2, <3>4, <3>5, <4>2 DEF NoSilentLeak
      <4> QED
        BY <4>1, <4>2
    <3>7. Tables
      BY <3>6 DEF Tables
    <3> QED
      BY <2>1, <3>7, CalmGoes DEF Calm, Pc, Creating
  <2>3. CASE UNCHANGED storeVars
    BY <2>1, <2>3, TablesStay, CalmGoes DEF storeVars, Calm, Pc, Creating
  <2> QED
    BY <1>3, <2>2, <2>3 DEF DeleteRow
<1>4. ASSUME EndLeaseCas(c) PROVE LeakInv'
  <2>1. co[c].pc \notin {"idle", "draw"} /\ Tables /\ Platform
        /\ (Go(c, "endRow") \/ Go(c, "destroy") \/ Finish(c))
    BY <1>4, TablesStay, PlatformStays DEF EndLeaseCas, EndLeaseTx, storeVars
  <2> QED
    BY <2>1, CalmGoes DEF Calm, Pc, Creating
<1>5. ASSUME EndRow(c) PROVE LeakInv'
  <2>1. co[c].pc = "endRow" /\ r \in Row /\ Platform
    BY <1>0, <1>5, PlatformStays DEF EndRow, At
  <2>2. CASE rows[r].state = "LEASED" /\ Move(r, "DESTROYING", Home[c]) /\ Go(c, "kill")
    <3>1. Tables
      BY <2>1, <2>2, TablesMove DEF SandboxState
    <3>2. rows'[r].state = "DESTROYING"
      BY <1>0, <2>1, <2>2 DEF Move, RowRecord
    <3> QED
      BY <2>1, <2>2, <3>1, <3>2, TakenStep DEF Spent
  <2>3. CASE Finish(c) /\ UNCHANGED rows
    BY <2>1, <2>3, TablesStay, CalmGoes DEF Calm, Pc, Creating
  <2> QED
    BY <1>5, <2>2, <2>3 DEF EndRow
<1> QED
  BY <1>1, <1>2, <1>3, <1>4, <1>5

\* Borrowing, and returning.
LEMMA AllocatorKeeps ==
  ASSUME IInv, LeakInv, NEW c \in Coroutine, AllocatorNext(c)
  PROVE  LeakInv'
<1> DEFINE r == co[c].row
<1>0. /\ co[c].pc \notin {"idle", "draw"} => r \in Row
      /\ rows \in [Row -> RowRecord] /\ co \in [Coroutine -> CoRecord]
  BY Types
<1>1. CASE BeginClaim(c)
  <2>1. Tables /\ Platform
    BY <1>1, TablesStay, PlatformStays DEF BeginClaim, storeVars
  <2>2. co'[c].pc = "draw" /\ OthersWait(c)
    BY <1>0, <1>1 DEF BeginClaim, Idle, OthersWait
  <2> QED
    BY <2>1, <2>2, CalmStep DEF Creating
<1>2. CASE Draw(c)
  <2>1. Tables /\ Platform
    BY <1>2, TablesStay, PlatformStays DEF Draw, storeVars
  <2>2. CASE \E q \in Candidates : co' = [co EXCEPT ![c] = Reading("claim", q, NoLease, "-")]
    <3>1. PICK q \in Candidates : co' = [co EXCEPT ![c] = Reading("claim", q, NoLease, "-")]
      BY <2>2
    <3>2. q \in Row /\ "claim" \in Calm
      BY DEF Candidates, InState, Calm, Pc, Creating
    <3> QED
      BY <2>1, <3>1, <3>2, CalmBegins
  <2>3. CASE Finish(c)
    <3>1. co'[c].pc = "idle" /\ OthersWait(c)
      BY <1>0, <2>3 DEF Finish, Idle, OthersWait
    <3> QED
      BY <2>1, <3>1, CalmStep DEF Creating
  <2> QED
    BY <1>2, <2>2, <2>3 DEF Draw
<1>3. CASE ClaimReady(c)
  <2>1. co[c].pc = "claim" /\ r \in Row /\ Platform
    BY <1>0, <1>3, PlatformStays DEF ClaimReady, At
  <2>2. ASSUME NEW l \in LeaseId, ClaimReadyTx(r, co[c].snap, l),
               co' = [co EXCEPT ![c].pc = "setTimeout", ![c].lease = l]
        PROVE  LeakInv'
    <3>1. Tables
      BY <2>1, <2>2, TablesGrant DEF ClaimReadyTx, ReadyAsRead
    <3> QED
      BY <2>1, <2>2, <3>1, CalmSets DEF Calm, Pc, Creating
  <2>3. CASE Go(c, "draw") /\ UNCHANGED storeVars
    BY <2>1, <2>3, TablesStay, CalmGoes DEF storeVars, Calm, Pc, Creating
  <2> QED
    BY <1>3, <2>2, <2>3 DEF ClaimReady
<1>4. CASE SetTimeout(c)
  <2>1. co[c].pc = "setTimeout" /\ Tables /\ Platform
    BY <1>4, TablesStay, PlatformStays DEF SetTimeout, At, storeVars
  <2>2. Finish(c) \/ co' = [co EXCEPT ![c].pc = "endLease", ![c].to = "FAILED"]
    BY <1>4 DEF SetTimeout
  <2> QED
    BY <2>1, <2>2, CalmGoes, CalmSets DEF Calm, Pc, Creating
<1>5. CASE ClaimPaused(c)
  <2>1. co[c].pc = "claim" /\ r \in Row /\ Platform /\ co[c].snap.state = "PAUSED"
    BY <1>0, <1>5, PlatformStays DEF ClaimPaused, At
  <2>2. CASE SameVersion(r, co[c].snap) /\ Move(r, "RESUMING", Home[c]) /\ Go(c, "resume")
    <3>1. Tables
      BY <2>1, <2>2, TablesMove DEF SameVersion, SandboxState
    <3> QED
      BY <2>1, <2>2, <3>1, CalmGoes DEF Calm, Pc, CallPc, Creating
  <2>3. CASE Go(c, "draw") /\ UNCHANGED rows
    BY <2>1, <2>3, TablesStay, CalmGoes DEF Calm, Pc, Creating
  <2> QED
    BY <1>5, <2>2, <2>3 DEF ClaimPaused
<1>6. CASE Resume(c)
  <2>1. co[c].pc = "resume" /\ UNCHANGED storeVars
    BY <1>6 DEF Resume, At
  <2>2. CASE Live(r) /\ Call(c, "running", "resumed", "resumeFailed")
    BY <2>1, <2>2, CalmCalls DEF CloudState, Calm, Pc, Creating
  <2>3. CASE Go(c, "resumeFailed") /\ UNCHANGED cloud
    BY <2>1, <2>3, TablesStay, PlatformStays, CalmGoes DEF storeVars, Calm, Pc, Creating
  <2> QED
    BY <1>6, <2>2, <2>3 DEF Resume
<1>7. CASE FinishResume(c)
  <2>1. co[c].pc = "resumed" /\ r \in Row /\ Platform /\ Finish(c)
    BY <1>0, <1>7, PlatformStays DEF FinishResume, At
  <2>2. Tables
    BY <1>7, <2>1, TablesGrant, TablesStay DEF FinishResume, FinishResumeTx, OwnedIn, storeVars
  <2> QED
    BY <2>1, <2>2, CalmGoes DEF Calm, Pc, Creating
<1>8. CASE ResumeFailed(c)
  <2>1. co[c].pc = "resumeFailed" /\ Tables /\ Platform /\ (Reread(c, "destroy") \/ Finish(c))
    BY <1>8, TablesStay, PlatformStays DEF ResumeFailed, At, storeVars
  <2> QED
    BY <2>1, CalmGoes DEF Calm, Pc, Creating
<1>9. CASE \E l \in LeaseId : Release(c, l) \/ UseFindsGone(c, l)
  <2>1. PICK l \in LeaseId : Release(c, l) \/ UseFindsGone(c, l)
    BY <1>9
  <2>2. leases[l].row \in Row
    BY <2>1 DEF Release, UseFindsGone, IInv, StoreInv, LeaseInv
  <2>3. Tables /\ Platform /\ \E to : co' = [co EXCEPT ![c] = Reading("endLease", leases[l].row, l, to)]
    BY <2>1, TablesStay, PlatformStays DEF Release, UseFindsGone, BeginEnd, storeVars
  <2> QED
    BY <2>2, <2>3, CalmBegins DEF Calm, Pc, Creating
<1> QED
  BY <1>1, <1>2, <1>3, <1>4, <1>5, <1>6, <1>7, <1>8, <1>9 DEF AllocatorNext

\* Creating a sandbox: the one place where a provider_id is recorded.
LEMMA CreateKeeps ==
  ASSUME IInv, LeakInv, NEW c \in Coroutine
  PROVE  /\ ReserveSlot(c) => LeakInv'
         /\ Create(c) => LeakInv'
         /\ RecordProvider(c) => LeakInv'
         /\ Warm(c) => LeakInv'
         /\ MarkReady(c) => LeakInv'
         /\ CreateFailed(c) \/ BootFailed(c) => LeakInv'
         /\ Discard(c) => LeakInv'
<1> DEFINE r == co[c].row
<1>0. /\ co[c].pc \notin {"idle", "draw"} => r \in Row
      /\ rows \in [Row -> RowRecord] /\ cloud \in [Row -> CloudState]
      /\ co \in [Coroutine -> CoRecord] /\ Held(c) /\ CoInv(c)
      /\ \A q \in Row : rows[q].version \in Nat
  BY Types DEF IInv, LeakInv
<1>1. ASSUME ReserveSlot(c) PROVE LeakInv'
  <2>1. PICK q \in Row : /\ ReserveSlotTx(q, Home[c])
                         /\ co' = [co EXCEPT ![c] = Reading("create", q, NoLease, "-")]
    BY <1>1 DEF ReserveSlot
  <2>2. rows[q] = Absent /\ rows'[q] = [Absent EXCEPT !.state = "CREATING", !.owner = Home[c]]
        /\ \A p \in Row \ {q} : rows'[p] = rows[p]
    BY <1>0, <2>1 DEF ReserveSlotTx, ReserveSlotUnlocked, IInv, StoreInv, RowInv
  <2>3. /\ rows[q].state = "ABSENT" /\ rows[q].version = 0 /\ rows[q].known = FALSE
        /\ rows'[q].state = "CREATING" /\ rows'[q].version = 0 /\ rows'[q].known = FALSE
    BY <2>2 DEF Absent
  <2>4. Tables
    <3>1. NoSilentLeak
      BY DEF LeakInv
    <3>2. ASSUME NEW p \in Row
          PROVE  /\ rows[p].version <= rows'[p].version /\ rows'[p].known = rows[p].known
                 /\ rows[p].state \in Spent => rows'[p].state \in Spent
                 /\ rows[p].state # "ABSENT" => rows'[p].state # "ABSENT"
                 /\ rows'[p].state = "DELETED" /\ rows[p].known => cloud[p] = "gone"
      <4>1. CASE p = q
        <5>1. rows[q].version <= rows'[q].version
          BY <2>3
        <5> QED
          BY <2>3, <4>1, <5>1, Zenon DEF Spent
      <4>2. CASE p # q
        BY <1>0, <2>2, <3>1, <4>2 DEF NoSilentLeak
      <4> QED
        BY <4>1, <4>2
    <3> QED
      BY <3>2 DEF Tables
  <2>5. Platform /\ OthersWait(c)
    BY <1>0, <1>1, <2>1, PlatformStays DEF ReserveSlot, OthersWait
  <2>6. co'[c].pc = "create" /\ co'[c].row = q /\ co'[c].snap = rows[q]
    BY <1>0, <2>1 DEF Reading
  <2>7. Held(c)'
    BY <2>3, <2>6 DEF Held, Creating
  <2>8. \A d \in Coroutine : co[d].pc \in Creating => co[d].row # q
    BY <2>3 DEF LeakInv, Held
  <2>9. Alone'
    BY <2>5, <2>6, <2>8 DEF LeakInv, Alone, OthersWait
  <2> QED
    BY <2>4, <2>5, <2>7, <2>9, OneMoves
<1>2. ASSUME Create(c) PROVE LeakInv'
  <2>1. /\ co[c].pc = "create" /\ r \in Row /\ rows' = rows /\ ~rows[r].known
        /\ cloud' = [cloud EXCEPT ![r] = "running"] \/ cloud' = cloud
    BY <1>0, <1>2 DEF Create, At, Call, storeVars, Held, Creating
  <2>2. Tables /\ Platform
    BY <2>1, TablesStay, PlatformChange DEF CloudState
  <2>3. CASE cloud' = [cloud EXCEPT ![r] = "running"] /\ Go(c, "created")
    <3>1. co'[c] = [co[c] EXCEPT !.pc = "created"] /\ OthersWait(c)
      BY <1>0, <2>3 DEF Go, OthersWait
    <3>2. co'[c].pc = "created" /\ co'[c].row = r /\ co'[c].snap = co[c].snap
      BY <1>0, <3>1 DEF CoRecord
    <3>3. Held(c)'
      BY <1>0, <2>1, <2>3, <3>2 DEF Held, Creating
    <3>4. Alone'
      BY <2>1, <3>1, <3>2, StillAlone DEF LeakInv, Creating
    <3> QED
      BY <2>2, <3>1, <3>3, <3>4, OneMoves
  <2>4. CASE Go(c, "createFailed")
    BY <2>1, <2>2, <2>4, CalmGoes DEF Calm, Pc, Creating
  <2> QED
    BY <1>2, <2>3, <2>4 DEF Create, Call
<1>3. ASSUME RecordProvider(c) PROVE LeakInv'
  <2>1. co[c].pc = "created" /\ r \in Row /\ cloud' = cloud
    BY <1>0, <1>3 DEF RecordProvider, At
  <2>2. CASE /\ OwnedIn(r, "CREATING", Home[c])
             /\ rows' = [rows EXCEPT ![r].state = "WARMING", ![r].version = @ + 1,
                                     ![r].known = TRUE]
             /\ Go(c, "warm")
    <3>1. /\ rows[r].state = "CREATING" /\ \A q \in Row \ {r} : rows'[q] = rows[q]
          /\ rows'[r] = [rows[r] EXCEPT !.state = "WARMING", !.version = rows[r].version + 1,
                                        !.known = TRUE]
      BY <1>0, <2>1, <2>2 DEF OwnedIn
    <3>2. rows'[r].state = "WARMING" /\ rows'[r].version = rows[r].version + 1
          /\ rows'[r].known = TRUE
      BY <1>0, <2>1, <3>1 DEF RowRecord
    <3>3. co'[c].pc = "warm" /\ co'[c].row = r /\ co'[c].snap = co[c].snap /\ OthersWait(c)
      <4>1. co'[c] = [co[c] EXCEPT !.pc = "warm"]
        BY <1>0, <2>2 DEF Go
      <4> QED
        BY <1>0, <2>2, <4>1 DEF CoRecord, Go, OthersWait
    <3>4. NoSilentLeak' /\ Named'
      <4>1. cloud[r] # "none" /\ NoSilentLeak /\ Named
        BY <1>0, <2>1 DEF Held, LeakInv
      <4>2. ASSUME NEW q \in Row
            PROVE  /\ rows'[q].state = "DELETED" /\ rows'[q].known => cloud[q] = "gone"
                   /\ rows'[q].known => cloud[q] # "none"
        <5>1. CASE q = r
          BY <3>2, <4>1, <5>1
        <5>2. CASE q # r
          BY <3>1, <4>1, <5>2 DEF NoSilentLeak, Named
        <5> QED
          BY <5>1, <5>2
      <4> QED
        BY <2>1, <4>2 DEF NoSilentLeak, Named
    <3>5. Alone'
      BY <3>3, StillAlone DEF LeakInv, Creating
    <3>6. ASSUME NEW d \in Coroutine PROVE Held(d)'
      <4>1. co[d].pc \notin {"idle", "draw"} =>
              co[d].row \in Row /\ co[d].snap.version \in Nat
              /\ co[d].snap.version <= rows[co[d].row].version
        BY Types
      <4>2. CASE d = c
        BY <1>0, <2>1, <3>2, <3>3, <4>1, <4>2 DEF Held, Creating
      <4>3. CASE d # c /\ co[d].row = r
        <5>1. co'[d] = co[d] /\ co[d].pc \notin Creating /\ Held(d)
          BY <2>1, <3>3, <4>3 DEF OthersWait, LeakInv, Alone, Creating
        <5>2. co[d].pc \notin {"kill", "delete"}
          BY <3>1, <4>3, <5>1 DEF Held, Spent
        <5>3. co[d].pc \notin {"idle", "draw"} => co[d].snap.version # rows'[r].version
          BY <1>0, <2>1, <3>2, <4>1, <4>3
        <5> QED
          BY <4>3, <5>1, <5>2, <5>3 DEF Held, Creating
      <4>4. CASE d # c /\ co[d].row # r
        <5>1. co'[d] = co[d] /\ Held(d)
          BY <3>3, <4>4 DEF OthersWait, LeakInv
        <5>2. co[d].pc \notin {"idle", "draw"} => rows'[co[d].row] = rows[co[d].row]
          BY <3>1, <4>1, <4>4
        <5> QED
          BY <2>1, <5>1, <5>2 DEF Held, Creating
      <4> QED
        BY <4>2, <4>3, <4>4
    <3> QED
      BY <3>4, <3>5, <3>6 DEF LeakInv
  <2>3. CASE UNCHANGED rows /\ (Go(c, "discard") \/ Go(c, "bootFailed"))
    BY <2>1, <2>3, TablesStay, PlatformStays, CalmGoes DEF Calm, Pc, Creating
  <2> QED
    BY <1>3, <2>2, <2>3 DEF RecordProvider
<1>4. ASSUME Warm(c) PROVE LeakInv'
  <2>1. co[c].pc = "warm" /\ Tables /\ Platform /\ (Go(c, "warmed") \/ Go(c, "bootFailed"))
    BY <1>4, TablesStay, PlatformStays DEF Warm, At, storeVars
  <2> QED
    BY <2>1, CalmGoes DEF Calm, Pc, Creating
<1>5. ASSUME MarkReady(c) PROVE LeakInv'
  <2>1. co[c].pc = "warmed" /\ r \in Row /\ Platform /\ (Finish(c) \/ Go(c, "bootFailed"))
    BY <1>0, <1>5, PlatformStays DEF MarkReady, At
  <2>2. Tables
    BY <1>5, <2>1, TablesMove, TablesStay DEF MarkReady, OwnedIn, SandboxState
  <2> QED
    BY <2>1, <2>2, CalmGoes DEF Calm, Pc, Creating
<1>6. ASSUME CreateFailed(c) \/ BootFailed(c) PROVE LeakInv'
  <2>1. co[c].pc \in {"createFailed", "bootFailed"} /\ Tables /\ Platform
    BY <1>6, TablesStay, PlatformStays DEF CreateFailed, BootFailed, At, storeVars
  <2>2. \/ Reread(c, "destroy") \/ Reread(c, "discardRow") \/ Finish(c)
        \/ Go(c, "idle") \/ Go(c, "discard")
    BY <1>6 DEF CreateFailed, BootFailed
  <2> QED
    BY <2>1, <2>2, CalmGoes DEF Calm, Pc, Creating
<1>7. ASSUME Discard(c) PROVE LeakInv'
  <2>1. co[c].pc \in {"discard", "discardRow"} /\ r \in Row /\ rows' = rows
    BY <1>0, <1>7 DEF Discard, storeVars
  <2>2. Tables /\ Platform
    BY <1>7, <2>1, TablesStay, PlatformKill DEF Discard, Call
  <2>3. Go(c, "idle") \/ Go(c, "destroy")
    BY <1>7 DEF Discard, Call
  <2> QED
    BY <2>1, <2>2, <2>3, CalmGoes DEF Calm, Pc, Creating
<1> QED
  BY <1>1, <1>2, <1>3, <1>4, <1>5, <1>6, <1>7

\* Pausing, and keeping READY sandboxes alive.
LEMMA IdleKeeps ==
  ASSUME IInv, LeakInv, NEW c \in Coroutine
  PROVE  /\ StartPause(c) => LeakInv'
         /\ Pause(c) => LeakInv'
         /\ PauseDone(c) => LeakInv'
         /\ PauseFailed(c) \/ KeepaliveCall(c) \/ KeepGone(c) => LeakInv'
         /\ KeepaliveCas(c) => LeakInv'
         /\ KeepFailed(c) => LeakInv'
<1> DEFINE r == co[c].row
<1>0. co[c].pc \notin {"idle", "draw"} => r \in Row
  BY Types
<1>1. ASSUME StartPause(c) PROVE LeakInv'
  <2>1. co[c].pc = "startPause" /\ r \in Row /\ Platform /\ (Go(c, "pause") \/ Finish(c))
    BY <1>0, <1>1, PlatformStays DEF StartPause, At
  <2>2. Tables
    BY <1>1, <2>1, TablesMove, TablesStay
       DEF StartPause, StartPauseTx, ReadyAsRead, SandboxState, storeVars
  <2> QED
    BY <2>1, <2>2, CalmGoes DEF Calm, Pc, CallPc, Creating
<1>2. ASSUME Pause(c) PROVE LeakInv'
  <2>1. co[c].pc = "pause" /\ UNCHANGED storeVars
    BY <1>2 DEF Pause, At
  <2>2. CASE Live(r) /\ Call(c, "paused", "paused", "pauseFailed")
    BY <2>1, <2>2, CalmCalls DEF CloudState, Calm, Pc, Creating
  <2>3. CASE Go(c, "pauseFailed") /\ UNCHANGED cloud
    BY <2>1, <2>3, TablesStay, PlatformStays, CalmGoes DEF storeVars, Calm, Pc, Creating
  <2> QED
    BY <1>2, <2>2, <2>3 DEF Pause
<1>3. ASSUME PauseDone(c) PROVE LeakInv'
  <2>1. co[c].pc = "paused" /\ r \in Row /\ Platform /\ Finish(c)
    BY <1>0, <1>3, PlatformStays DEF PauseDone, At
  <2>2. Tables
    BY <1>3, <2>1, TablesMove, TablesStay DEF PauseDone, OwnedIn, SandboxState
  <2> QED
    BY <2>1, <2>2, CalmGoes DEF Calm, Pc, Creating
<1>4. ASSUME PauseFailed(c) \/ KeepaliveCall(c) \/ KeepGone(c) PROVE LeakInv'
  <2>1. co[c].pc \in {"pauseFailed", "keepTimeout", "keepGone"} /\ Tables /\ Platform
    BY <1>4, TablesStay, PlatformStays DEF PauseFailed, KeepaliveCall, KeepGone, At, storeVars
  <2>2. Reread(c, "destroy") \/ Finish(c) \/ Go(c, "keepGone") \/ Go(c, "keepFailed")
    BY <1>4 DEF PauseFailed, KeepaliveCall, KeepGone
  <2> QED
    BY <2>1, <2>2, CalmGoes DEF Calm, Pc, Creating
<1>5. ASSUME KeepaliveCas(c) PROVE LeakInv'
  <2>1. co[c].pc = "keepalive" /\ r \in Row /\ Platform /\ (Go(c, "keepTimeout") \/ Finish(c))
    BY <1>0, <1>5, PlatformStays DEF KeepaliveCas, At
  <2>2. Tables
    BY <1>5, <2>1, TablesTouch, TablesStay DEF KeepaliveCas
  <2> QED
    BY <2>1, <2>2, CalmGoes DEF Calm, Pc, Creating
<1>6. ASSUME KeepFailed(c) PROVE LeakInv'
  <2>1. co[c].pc = "keepFailed" /\ r \in Row /\ Platform /\ Finish(c)
    BY <1>0, <1>6, PlatformStays DEF KeepFailed, At
  <2>2. Tables
    BY <1>6, <2>1, TablesTouch, TablesStay DEF KeepFailed
  <2> QED
    BY <2>1, <2>2, CalmGoes DEF Calm, Pc, Creating
<1> QED
  BY <1>1, <1>2, <1>3, <1>4, <1>5, <1>6

\* Taking rows over, and comparing them with the platform.
LEMMA RecoveryKeeps ==
  ASSUME IInv, LeakInv, NEW c \in Coroutine
  PROVE  /\ Adopt(c) => LeakInv'
         /\ AdoptCas(c) => LeakInv'
         /\ OrphanCheck(c) \/ KillOrphan(c) \/ LeaveAlone(c) => LeakInv'
         /\ ListPlatform(c) => LeakInv'
         /\ DropVanished(c) => LeakInv'
<1> DEFINE r == co[c].row
<1>0. (co[c].pc \notin {"idle", "draw"} => r \in Row) /\ CoInv(c)
  BY Types DEF IInv
<1>1. ASSUME Adopt(c) PROVE LeakInv'
  <2> DEFINE target == IF cloud[r] = "paused" THEN "PAUSED" ELSE "READY"
  <2>1. co[c].pc = "adopt" /\ Tables /\ Platform
    BY <1>1, TablesStay, PlatformStays DEF Adopt, At, storeVars
  <2>2. CASE co' = [co EXCEPT ![c].pc = "adoptCas", ![c].to = target]
    <3> HIDE DEF target
    <3> QED
      BY <2>1, <2>2, CalmSets DEF Calm, Pc, Creating
  <2>3. CASE Go(c, "destroy")
    BY <2>1, <2>3, CalmGoes DEF Calm, Pc, Creating
  <2> QED
    BY <1>1, <2>2, <2>3 DEF Adopt
<1>2. ASSUME AdoptCas(c) PROVE LeakInv'
  <2>1. co[c].pc = "adoptCas" /\ r \in Row /\ Platform /\ Finish(c)
        /\ co[c].snap.state \in {"PAUSING", "RESUMING"} /\ co[c].to \in {"READY", "PAUSED"}
    BY <1>0, <1>2, PlatformStays DEF AdoptCas, At, CoInv
  <2>2. Tables
    BY <1>2, <2>1, TablesMove, TablesStay DEF AdoptCas, SameVersion, SandboxState
  <2> QED
    BY <2>1, <2>2, CalmGoes DEF Calm, Pc, Creating
<1>3. ASSUME OrphanCheck(c) \/ KillOrphan(c) \/ LeaveAlone(c) PROVE LeakInv'
  <2>1. co[c].pc \in {"orphan", "listed"} /\ Tables /\ Platform
    BY <1>3, TablesStay, PlatformStays DEF OrphanCheck, KillOrphan, LeaveAlone, At, storeVars
  <2>2. Go(c, "idle") \/ Go(c, "destroy") \/ Go(c, "discard") \/ Finish(c)
    BY <1>3 DEF OrphanCheck, KillOrphan, LeaveAlone
  <2> QED
    BY <2>1, <2>2, CalmGoes DEF Calm, Pc, Creating
<1>4. ASSUME ListPlatform(c) PROVE LeakInv'
  <2> DEFINE found == IF Live(r) THEN "live" ELSE "gone"
  <2>1. co[c].pc = "list" /\ Tables /\ Platform
    BY <1>4, TablesStay, PlatformStays DEF ListPlatform, At, storeVars
  <2>2. CASE co' = [co EXCEPT ![c].pc = "listed", ![c].to = found]
    <3> HIDE DEF found
    <3> QED
      BY <2>1, <2>2, CalmSets DEF Calm, Pc, Creating
  <2>3. CASE Finish(c)
    BY <2>1, <2>3, CalmGoes DEF Calm, Pc, Creating
  <2> QED
    BY <1>4, <2>2, <2>3 DEF ListPlatform
<1>5. ASSUME DropVanished(c) PROVE LeakInv'
  <2>1. co[c].pc = "listed" /\ r \in Row /\ Tables /\ Platform
    BY <1>0, <1>5, TablesStay, PlatformStays DEF DropVanished, At, storeVars
  <2>2. CASE co' = [co EXCEPT ![c] = Reading("endLease", r, rows[r].lease, "FAILED")]
    BY <2>1, <2>2, CalmBegins DEF Calm, Pc, Creating
  <2>3. CASE Reread(c, "destroy")
    BY <2>1, <2>3, CalmGoes DEF Calm, Pc, Creating
  <2> QED
    BY <1>5, <2>2, <2>3 DEF DropVanished
<1> QED
  BY <1>1, <1>2, <1>3, <1>4, <1>5

\* The starts of operations: the maintenance loop's, and the administrator's.
LEMMA StartKeeps ==
  ASSUME IInv, LeakInv, NEW c \in Coroutine
  PROVE  /\ \A l \in LeaseId : ExpireLease(c, l) => LeakInv'
         /\ \A r \in Row : AdminDestroy(c, r) => LeakInv'
         /\ \A r \in Row :
              RecoverStuck(c, r) \/ FixOrphan(c, r) \/ RetireOld(c, r) \/ DrainIdle(c, r)
                => LeakInv'
         /\ \A r \in Row :
              PauseIdle(c, r) \/ Keepalive(c, r) \/ Reconcile(c, r) => LeakInv'
<1>1. ASSUME NEW l \in LeaseId, NEW pc \in {"endLease", "adminEnd"}, NEW to,
             leases[l].state # "NONE", BeginEnd(c, pc, l, to), UNCHANGED <<storeVars, cloud>>
      PROVE  LeakInv'
  <2>1. leases[l].row \in Row /\ Tables /\ Platform
    BY <1>1, TablesStay, PlatformStays DEF IInv, StoreInv, LeaseInv, storeVars
  <2> QED
    BY <1>1, <2>1, CalmBegins DEF BeginEnd, Calm, Pc, Creating
<1>2. ASSUME NEW r \in Row, NEW pc \in Calm, Begin(c, pc, r), UNCHANGED <<storeVars, cloud>>
      PROVE  LeakInv'
  <2>1. Tables /\ Platform
    BY <1>2, TablesStay, PlatformStays DEF storeVars
  <2> QED
    BY <1>2, <2>1, CalmBegins DEF Begin
<1>3. ASSUME NEW l \in LeaseId, ExpireLease(c, l) PROVE LeakInv'
  BY <1>1, <1>3 DEF ExpireLease
<1>4. ASSUME NEW r \in Row, AdminDestroy(c, r) PROVE LeakInv'
  <2>1. CASE rows[r].state = "LEASED" /\ BeginEnd(c, "adminEnd", rows[r].lease, "RELEASED")
    <3>1. rows[r].lease \in LeaseId /\ leases[rows[r].lease].state # "NONE"
      BY <2>1 DEF IInv, StoreInv, RowInv, Granted
    <3> QED
      BY <1>1, <1>4, <2>1, <3>1 DEF AdminDestroy
  <2>2. CASE Begin(c, "destroy", r)
    BY <1>2, <1>4, <2>2 DEF AdminDestroy, Calm, Pc, Creating
  <2> QED
    BY <1>4, <2>1, <2>2 DEF AdminDestroy
<1>5. ASSUME NEW r \in Row,
             \/ RecoverStuck(c, r) \/ FixOrphan(c, r) \/ RetireOld(c, r) \/ DrainIdle(c, r)
             \/ PauseIdle(c, r) \/ Keepalive(c, r) \/ Reconcile(c, r)
      PROVE  LeakInv'
  <2>1. /\ UNCHANGED <<storeVars, cloud>>
        /\ \E pc \in {"adopt", "destroy", "orphan", "startPause", "keepalive", "list"} :
             Begin(c, pc, r)
    BY <1>5 DEF RecoverStuck, FixOrphan, RetireOld, DrainIdle, PauseIdle, Keepalive, Reconcile
  <2> QED
    BY <1>2, <2>1 DEF Calm, Pc, Creating
<1> QED
  BY <1>3, <1>4, <1>5

-----------------------------------------------------------------------------
(* The theorem.                                                            *)

\* Every step of a coroutine, of the administrator and of the environment.
LEMMA LeakStep == IInv /\ LeakInv /\ [Next]_vars => LeakInv'
<1> SUFFICES ASSUME IInv, LeakInv, [Next]_vars PROVE LeakInv'
  OBVIOUS
<1>1. ASSUME NEW c \in Coroutine, CoroutineStep(c) PROVE LeakInv'
  <2>1. CASE DestroyCas(c) \/ Kill(c) \/ DeleteRow(c) \/ EndLeaseCas(c) \/ EndRow(c)
    BY <2>1, LifecycleKeeps
  <2>2. CASE AllocatorNext(c)
    BY <2>2, AllocatorKeeps
  <2>3. CASE MaintainerNext(c)
    <3>1. CASE \/ ReserveSlot(c) \/ Create(c) \/ RecordProvider(c) \/ Warm(c) \/ MarkReady(c)
               \/ CreateFailed(c) \/ BootFailed(c) \/ Discard(c)
      BY <3>1, CreateKeeps
    <3>2. CASE \/ StartPause(c) \/ Pause(c) \/ PauseDone(c) \/ PauseFailed(c)
               \/ KeepaliveCas(c) \/ KeepaliveCall(c) \/ KeepGone(c) \/ KeepFailed(c)
      BY <3>2, IdleKeeps
    <3>3. CASE \/ Adopt(c) \/ AdoptCas(c) \/ OrphanCheck(c)
               \/ ListPlatform(c) \/ KillOrphan(c) \/ DropVanished(c) \/ LeaveAlone(c)
      BY <3>3, RecoveryKeeps
    <3>4. CASE \/ \E l \in LeaseId : ExpireLease(c, l)
               \/ \E r \in Row :
                    \/ RecoverStuck(c, r) \/ FixOrphan(c, r) \/ RetireOld(c, r) \/ DrainIdle(c, r)
                    \/ PauseIdle(c, r) \/ Keepalive(c, r) \/ Reconcile(c, r)
      BY <3>4, StartKeeps
    <3> QED
      BY <2>3, <3>1, <3>2, <3>3, <3>4 DEF MaintainerNext
  <2> QED
    BY <1>1, <2>1, <2>2, <2>3 DEF CoroutineStep
<1>2. ASSUME NEW c \in Coroutine, NEW r \in Row, AdminDestroy(c, r) PROVE LeakInv'
  BY <1>2, StartKeeps
<1>3. ASSUME NEW c \in Coroutine, Crash(c) PROVE LeakInv'
  <2>1. Finish(c) /\ Tables /\ Platform
    BY <1>3, TablesStay, PlatformStays DEF Crash, storeVars
  <2>2. co'[c].pc = "idle" /\ OthersWait(c)
    BY <2>1, Types DEF Finish, Idle, OthersWait
  <2> QED
    BY <2>1, <2>2, CalmStep DEF Creating
<1>4. ASSUME rows' = rows, co' = co, Platform PROVE LeakInv'
  <2>1. Tables
    BY <1>4, TablesStay
  <2>2. \A c \in Coroutine : Held(c)'
    BY <1>4, <2>1, HeldWaits DEF LeakInv
  <2> QED
    BY <1>4, <2>1, <2>2 DEF LeakInv, NoSilentLeak, Named, Alone, Platform
<1>5. ASSUME NEW r \in Row, Vanish(r) PROVE LeakInv'
  <2>1. rows' = rows /\ co' = co /\ cloud' = [cloud EXCEPT ![r] = "gone"]
    BY <1>5 DEF Vanish, storeVars
  <2>2. Platform
    BY <2>1, PlatformChange DEF CloudState
  <2> QED
    BY <1>4, <2>1, <2>2
<1>6. CASE \/ Drain \/ Undrain \/ \E r \in Row : DeadlinePasses(r)
           \/ \E l \in LeaseId :
                \/ LeaseLapses(l)
                \/ PurgeLease(l) /\ UNCHANGED <<lifecycleVars, crashes>>
           \/ UNCHANGED vars
  <2>1. rows' = rows /\ co' = co /\ cloud' = cloud
    BY <1>6 DEF Drain, Undrain, DeadlinePasses, LeaseLapses, PurgeLease, lifecycleVars,
       storeVars, vars
  <2> QED
    BY <1>4, <2>1, PlatformStays
<1> QED
  BY <1>1, <1>2, <1>3, <1>5, <1>6 DEF Next

\* The empty pool satisfies the invariant.
LEMMA LeakInit == Init => LeakInv
<1> SUFFICES ASSUME Init PROVE LeakInv
  OBVIOUS
<1> USE DEF Init, StoreInit, LifecycleInit
<1>1. NoSilentLeak /\ Named
  BY DEF NoSilentLeak, Named, Absent
<1>2. \A c \in Coroutine : co[c].pc = "idle"
  BY DEF Idle
<1>3. Alone /\ \A c \in Coroutine : Held(c)
  BY <1>2 DEF Alone, Held, Creating
<1> QED
  BY <1>1, <1>3 DEF LeakInv

\* A record with a provider_id is deleted only when its sandbox is dead: what can be
\* left on the platform without a record is a sandbox whose id was never recorded.
THEOREM NoneLeaks == Spec => []NoSilentLeak
<1>1. LeakInv => NoSilentLeak
  BY DEF LeakInv
<1> QED
  BY <1>1, LeakInit, LeakStep, Invariance, PTL DEF Spec

-----------------------------------------------------------------------------
(***************************************************************************)
(* UsableIsRunning and LeasedUndisturbed of SandboxPool, for any number of *)
(* replicas, coroutines, rows and leases, where live coroutines keep their *)
(* deadlines (Prompt).  The argument: an operation that keeps its deadline *)
(* owns its row to the end, although op_owner names a replica and not an   *)
(* operation.                                                              *)
(***************************************************************************)

\* Awaits of the operation that owns the row, as long as it may hand the sandbox out.
Acting ==
  {"create", "created", "createFailed", "warm", "warmed", "bootFailed", "discardRow",
   "resume", "resumed", "resumeFailed", "pause", "paused", "pauseFailed"}

\* Awaits after which the row may be written although its state is transitional.
Deciding == {"destroy", "adopt", "adoptCas", "orphan", "adminEnd"}

\* The operation of c still owns its row, whose deadline has not passed.
Owns(c) ==
  LET r == co[c].row
      pc == co[c].pc IN
  /\ pc \in Acting => rows[r].owner = Home[c] /\ r \notin overdue
  /\ pc \in {"create", "created", "createFailed"} => rows[r].state = "CREATING"
  /\ pc \in {"warm", "warmed"} => rows[r].state = "WARMING"
  /\ pc \in {"bootFailed", "discardRow"} => rows[r].state \in {"CREATING", "WARMING"}
  /\ pc \in {"resume", "resumed", "resumeFailed"} => rows[r].state = "RESUMING"
  /\ pc \in {"pause", "paused", "pauseFailed"} => rows[r].state = "PAUSING"

\* Nobody else is at work on row r.
Free(c, r) == \A d \in Coroutine \ {c} : co[d].pc \in Acting => co[d].row # r

\* Who decides about a row that is as it was read decides about a row nobody works on.
Decides(c) ==
  LET r == co[c].row IN
  co[c].pc \in Deciding =>
    /\ co[c].snap.state \in SandboxState
    /\ rows[r].state # "ABSENT"
    /\ SameVersion(r, co[c].snap) => Free(c, r)

\* Not paused: running, or taken away by the platform.
Up(r) == cloud[r] \in {"running", "gone"}

\* What the platform's answers still mean when they are used.
Knows(c) ==
  LET r == co[c].row
      pc == co[c].pc IN
  /\ pc \in {"created", "warm", "warmed", "resumed"} => Up(r)
  /\ pc = "adoptCas" /\ co[c].to = "READY" /\ SameVersion(r, co[c].snap) => Up(r)
  /\ pc = "listed" /\ co[c].to = "live" => rows[r].state # "ABSENT"
  /\ pc = "discard" => rows[r].state \in Spent

Mine(c) == Owns(c) /\ Decides(c) /\ Knows(c)

\* One operation is at work on a row.
Sole == \A c \in Coroutine : co[c].pc \in Acting => Free(c, co[c].row)

Born == \A r \in Row : cloud[r] # "none" => rows[r].state # "ABSENT"

Late == \A r \in overdue : rows[r].state \in Transitional

OwnInv == UsableIsRunning /\ Sole /\ Born /\ Late /\ \A c \in Coroutine : Mine(c)

\* What no sandbox that is lent suffers in this step.
Undisturbed == \A r \in Row : rows[r].state = "LEASED" => cloud'[r] = cloud[r]

-----------------------------------------------------------------------------
(* The next await.                                                         *)

Quiet == Pc \ (Acting \cup Deciding \cup {"listed", "discard"})

\* What Go, Finish and Reread write.
LEMMA NextAwait ==
  ASSUME co \in [Coroutine -> CoRecord], NEW c \in Coroutine, NEW pc
  PROVE  /\ Go(c, pc) /\ pc # "idle" =>
              OthersWait(c) /\ co'[c].pc = pc /\ co'[c].row = co[c].row
              /\ co'[c].snap = co[c].snap /\ co'[c].to = co[c].to
         /\ Finish(c) \/ Go(c, "idle") => OthersWait(c) /\ co'[c].pc = "idle"
         /\ Reread(c, pc) =>
              OthersWait(c) /\ co'[c].pc = pc /\ co'[c].row = co[c].row
              /\ co'[c].snap = rows[co[c].row]
<1>1. co[c] \in CoRecord
  OBVIOUS
<1>2. ASSUME Go(c, pc), pc # "idle"
      PROVE  OthersWait(c) /\ co'[c].pc = pc /\ co'[c].row = co[c].row
             /\ co'[c].snap = co[c].snap /\ co'[c].to = co[c].to
  <2>1. co'[c] = [co[c] EXCEPT !.pc = pc] /\ OthersWait(c)
    BY <1>2 DEF Go, OthersWait
  <2> QED
    BY <1>1, <2>1 DEF CoRecord
<1>3. ASSUME Finish(c) \/ Go(c, "idle") PROVE OthersWait(c) /\ co'[c].pc = "idle"
  BY <1>3 DEF Go, Finish, Idle, OthersWait
<1>4. ASSUME Reread(c, pc)
      PROVE  OthersWait(c) /\ co'[c].pc = pc /\ co'[c].row = co[c].row
             /\ co'[c].snap = rows[co[c].row]
  <2>1. co'[c] = [co[c] EXCEPT !.pc = pc, !.snap = rows[co[c].row]] /\ OthersWait(c)
    BY <1>4 DEF Reread, OthersWait
  <2> QED
    BY <1>1, <2>1 DEF CoRecord
<1> QED
  BY <1>2, <1>3, <1>4

\* A row in a state that no operation works in is nobody's.
LEMMA Unowned ==
  ASSUME OwnInv, NEW c \in Coroutine, NEW r,
         rows[r].state \notin {"CREATING", "WARMING", "PAUSING", "RESUMING"}
  PROVE  Free(c, r)
BY DEF OwnInv, Mine, Owns, Acting, Free

LEMMA OwnerAlone ==
  ASSUME OwnInv, NEW c \in Coroutine, co[c].pc \in Acting
  PROVE  Free(c, co[c].row)
BY DEF OwnInv, Sole

-----------------------------------------------------------------------------
(* One coroutine moves.                                                    *)

\* Nothing changes but its locals.
LEMMA Stands ==
  ASSUME IInv, OwnInv, NEW c \in Coroutine, OthersWait(c),
         rows' = rows, cloud' = cloud, overdue' = overdue,
         co'[c].pc \in Acting => co[c].pc \in Acting /\ co'[c].row = co[c].row,
         Mine(c)'
  PROVE  OwnInv'
<1>1. ASSUME NEW d \in Coroutine PROVE Mine(d)'
  <2>1. CASE d = c
    BY <2>1
  <2>2. CASE d # c
    <3>1. co'[d] = co[d] /\ Owns(d) /\ Decides(d) /\ Knows(d)
      BY <2>2 DEF OthersWait, OwnInv, Mine
    <3>2. Free(d, co[d].row) => Free(d, co[d].row)'
      BY <3>1 DEF Free, OthersWait
    <3>3. Decides(d)'
      BY <3>1, <3>2 DEF Decides, SameVersion
    <3>4. Owns(d)' /\ Knows(d)'
      BY <3>1 DEF Owns, Knows, Up, SameVersion
    <3> QED
      BY <3>3, <3>4 DEF Mine
  <2> QED
    BY <2>1, <2>2
<1>2. Sole'
  BY DEF OwnInv, Sole, Free, OthersWait
<1>3. (UsableIsRunning /\ Born /\ Late)'
  BY DEF OwnInv, UsableIsRunning, Born, Late
<1> QED
  BY <1>1, <1>2, <1>3 DEF OwnInv

\* It ends, or goes on to where nothing is asked of it.
LEMMA Leaves ==
  ASSUME IInv, OwnInv, NEW c \in Coroutine, OthersWait(c),
         rows' = rows, cloud' = cloud, overdue' = overdue, co'[c].pc \in Quiet
  PROVE  OwnInv'
<1>1. Mine(c)' /\ co'[c].pc \notin Acting
  BY DEF Mine, Owns, Decides, Knows, Quiet, Acting, Deciding
<1> QED
  BY <1>1, Stands

\* It is about to decide about a row nobody else works on.
LEMMA Prepares ==
  ASSUME IInv, OwnInv, NEW c \in Coroutine, OthersWait(c),
         rows' = rows, cloud' = cloud, overdue' = overdue,
         co'[c].pc \in Deciding \ {"adoptCas"},
         co'[c].snap.state \in SandboxState, rows[co'[c].row].state # "ABSENT",
         SameVersion(co'[c].row, co'[c].snap) => Free(c, co'[c].row)
  PROVE  OwnInv'
<1>1. Free(c, co'[c].row) => Free(c, co[c].row)'
  BY DEF Free, OthersWait
<1>2. Decides(c)'
  BY <1>1 DEF Decides, SameVersion
<1>3. Owns(c)' /\ Knows(c)' /\ co'[c].pc \notin Acting
  BY DEF Owns, Knows, Acting, Deciding
<1> QED
  BY <1>2, <1>3, Stands DEF Mine

\* It writes a row that nobody else works on.
LEMMA Writes ==
  ASSUME IInv, OwnInv, NEW c \in Coroutine, NEW r \in Row, OthersWait(c), Free(c, r),
         \A q \in Row \ {r} : rows'[q] = rows[q],
         rows'[r].version > rows[r].version \/ rows[r].state = "ABSENT" \/ rows'[r].state = "DELETED",
         rows'[r].state # "ABSENT", rows[r].state \in Spent => rows'[r].state \in Spent,
         rows'[r].state \in {"READY", "LEASED"} => Up(r),
         cloud' = cloud, overdue' \subseteq overdue,
         r \in overdue' => rows'[r].state \in Transitional,
         co'[c].pc \in Quiet \cup Acting,
         co'[c].pc \in Acting => co'[c].row = r /\ Mine(c)'
  PROVE  OwnInv'
<1>1. ASSUME NEW d \in Coroutine PROVE Mine(d)'
  <2>1. CASE d = c
    BY <2>1 DEF Mine, Owns, Decides, Knows, Quiet, Acting, Deciding
  <2>2. CASE d # c
    <3>1. co'[d] = co[d] /\ Owns(d) /\ Decides(d) /\ Knows(d)
          /\ (co[d].pc \notin {"idle", "draw"} =>
                co[d].row \in Row /\ co[d].snap.version \in Nat
                /\ co[d].snap.version <= rows[co[d].row].version
                /\ rows[co[d].row].version \in Nat)
      BY <2>2, Types DEF OthersWait, OwnInv, Mine
    <3>2. CASE co[d].row = r
      <4>1. co[d].pc \notin Acting
        BY <2>2, <3>2 DEF Free
      <4>2. Owns(d)'
        BY <3>1, <4>1 DEF Owns, Acting
      <4>3. co[d].pc \in Deciding => ~SameVersion(r, co[d].snap)'
        <5> SUFFICES ASSUME co[d].pc \in Deciding, co[d].snap.state = rows'[r].state,
                            co[d].snap.version = rows'[r].version
                     PROVE  FALSE
          BY <3>1 DEF SameVersion
        <5>1. co[d].snap.state \in SandboxState /\ rows[r].state # "ABSENT"
          BY <3>1, <3>2 DEF Decides
        <5>2. rows'[r].state # "DELETED"
          BY <5>1 DEF SandboxState
        <5>3. co[d].snap.version <= rows[r].version /\ co[d].snap.version \in Nat
              /\ rows[r].version \in Nat
          BY <3>1, <3>2 DEF Deciding
        <5> QED
          BY <5>1, <5>2, <5>3
      <4>4. Decides(d)'
        BY <3>1, <3>2, <4>3 DEF Decides, SameVersion
      <4>5. Knows(d)'
        BY <3>1, <3>2, <4>1, <4>3 DEF Knows, Acting, Deciding, SameVersion
      <4> QED
        BY <4>2, <4>4, <4>5 DEF Mine
    <3>3. CASE co[d].row # r
      <4>1. co[d].pc \notin {"idle", "draw"} => rows'[co[d].row] = rows[co[d].row]
        BY <3>1, <3>3
      <4>2. Free(d, co[d].row) => Free(d, co[d].row)'
        BY <3>1, <3>3 DEF Free, OthersWait
      <4>3. Decides(d)'
        BY <3>1, <4>1, <4>2 DEF Decides, SameVersion, Deciding
      <4>4. Owns(d)' /\ Knows(d)'
        BY <3>1, <4>1 DEF Owns, Knows, Up, SameVersion, Acting
      <4> QED
        BY <4>3, <4>4 DEF Mine
    <3> QED
      BY <3>2, <3>3
  <2> QED
    BY <2>1, <2>2
<1>2. Sole'
  <2>1. Free(c, r)'
    BY DEF Free, OthersWait
  <2>2. ASSUME NEW d \in Coroutine, d # c, co[d].pc \in Acting PROVE Free(d, co[d].row)'
    <3>1. co'[d] = co[d] /\ co[d].row # r /\ Free(d, co[d].row)
      BY <2>2 DEF OthersWait, Free, OwnInv, Sole
    <3> QED
      BY <3>1 DEF Free, OthersWait
  <2> QED
    BY <2>1, <2>2 DEF Sole, OthersWait
<1>3. UsableIsRunning' /\ Born'
  BY DEF OwnInv, UsableIsRunning, Born, Up
<1>4. Late'
  <2>1. overdue \subseteq Row /\ Late
    BY DEF IInv, StoreInv, StoreType, OwnInv
  <2>2. ASSUME NEW q \in overdue' PROVE rows'[q].state \in Transitional
    BY <2>1, <2>2 DEF Late
  <2> QED
    BY <2>2 DEF Late
<1> QED
  BY <1>1, <1>2, <1>3, <1>4 DEF OwnInv

\* It works on the row it owns, at the platform.
LEMMA Works ==
  ASSUME IInv, OwnInv, NEW c \in Coroutine, OthersWait(c), co[c].pc \in Acting,
         rows' = rows, overdue' = overdue,
         \A q \in Row \ {co[c].row} : cloud'[q] = cloud[q],
         co'[c].pc \in Acting, co'[c].row = co[c].row, Owns(c)', Knows(c)'
  PROVE  OwnInv' /\ Undisturbed
<1> DEFINE r == co[c].row
<1>1. r \in Row /\ Free(c, r)
      /\ rows[r].state \in {"CREATING", "WARMING", "PAUSING", "RESUMING"}
  BY Types DEF OwnInv, Sole, Acting, Mine, Owns
<1>2. ASSUME NEW d \in Coroutine PROVE Mine(d)'
  <2>1. CASE d = c
    BY <2>1 DEF Mine, Decides, Deciding, Acting
  <2>2. CASE d # c
    <3>1. co'[d] = co[d] /\ Owns(d) /\ Decides(d) /\ Knows(d)
          /\ (co[d].pc \notin {"idle", "draw"} => co[d].row \in Row)
      BY <2>2, Types DEF OthersWait, OwnInv, Mine
    <3>2. Owns(d)'
      BY <3>1 DEF Owns
    <3>3. Free(d, co[d].row) => Free(d, co[d].row)'
      BY <3>1 DEF Free, OthersWait
    <3>4. Decides(d)'
      BY <3>1, <3>3 DEF Decides, SameVersion
    <3>5. co[d].pc \in Acting \/ (co[d].pc \in Deciding /\ SameVersion(co[d].row, co[d].snap)) =>
            co[d].row # r
      BY <1>1, <2>2, <3>1 DEF Free, Decides
    <3>6. Knows(d)'
      BY <3>1, <3>5 DEF Knows, Up, SameVersion, Acting, Deciding
    <3> QED
      BY <3>2, <3>4, <3>6 DEF Mine
  <2> QED
    BY <2>1, <2>2
<1>3. Sole'
  BY DEF OwnInv, Sole, Free, OthersWait
<1>4. UsableIsRunning' /\ Born' /\ Late' /\ Undisturbed
  BY <1>1 DEF OwnInv, UsableIsRunning, Born, Late, Undisturbed
<1> QED
  BY <1>2, <1>3, <1>4 DEF OwnInv

\* It kills a sandbox that is not lent.
LEMMA Kills ==
  ASSUME IInv, OwnInv, NEW c \in Coroutine, OthersWait(c),
         rows' = rows, overdue' = overdue, NEW r \in Row, rows[r].state # "LEASED",
         \/ cloud' = [cloud EXCEPT ![r] = IF Live(r) THEN "gone" ELSE cloud[r]]
         \/ cloud' = cloud,
         co'[c].pc \notin Acting, Mine(c)'
  PROVE  OwnInv' /\ Undisturbed
<1>1. \A q \in Row : cloud'[q] = cloud[q] \/ (cloud[q] # "none" /\ cloud'[q] = "gone")
  BY Types DEF Live
<1>2. ASSUME NEW d \in Coroutine PROVE Mine(d)'
  <2>1. CASE d = c
    BY <2>1
  <2>2. CASE d # c
    <3>1. co'[d] = co[d] /\ Owns(d) /\ Decides(d) /\ Knows(d)
          /\ (co[d].pc \notin {"idle", "draw"} => co[d].row \in Row)
      BY <2>2, Types DEF OthersWait, OwnInv, Mine
    <3>2. Free(d, co[d].row) => Free(d, co[d].row)'
      BY <3>1 DEF Free, OthersWait
    <3>3. Decides(d)' /\ Owns(d)'
      BY <3>1, <3>2 DEF Decides, SameVersion, Owns
    <3>4. Knows(d)'
      BY <1>1, <3>1 DEF Knows, Up, SameVersion
    <3> QED
      BY <3>3, <3>4 DEF Mine
  <2> QED
    BY <2>1, <2>2
<1>3. Sole'
  BY DEF OwnInv, Sole, Free, OthersWait
<1>4. UsableIsRunning' /\ Born' /\ Late'
  BY <1>1 DEF OwnInv, UsableIsRunning, Born, Late
<1>5. Undisturbed
  BY Types DEF Undisturbed
<1> QED
  BY <1>2, <1>3, <1>4, <1>5 DEF OwnInv
-----------------------------------------------------------------------------
(* Changes of a row.                                                       *)

\* A row that changes its state, and has READY or LEASED only if its sandbox runs.
LEMMA MoveRow ==
  ASSUME IInv, NEW r \in Row, NEW s \in SandboxState, NEW o, Move(r, s, o)
  PROVE  /\ rows'[r].state = s /\ rows'[r].owner = o /\ rows'[r].version > rows[r].version
         /\ \A q \in Row \ {r} : rows'[q] = rows[q]
         /\ overdue' = overdue \ {r}
<1>1. rows[r] \in RowRecord /\ rows \in [Row -> RowRecord] /\ rows[r].version \in Nat
  BY Types
<1>2. /\ rows'[r] = [rows[r] EXCEPT !.state = s, !.version = rows[r].version + 1, !.owner = o]
      /\ \A q \in Row \ {r} : rows'[q] = rows[q]
      /\ overdue' = overdue \ {r}
  BY <1>1 DEF Move
<1>3. /\ rows'[r].state = s /\ rows'[r].version = rows[r].version + 1
      /\ rows'[r].owner = o
  BY <1>1, <1>2 DEF RowRecord
<1> QED
  BY <1>1, <1>2, <1>3

LEMMA GrantRow ==
  ASSUME IInv, NEW r \in Row, NEW l \in LeaseId, GrantLease(r, l)
  PROVE  /\ rows'[r].state = "LEASED" /\ rows'[r].version > rows[r].version
         /\ \A q \in Row \ {r} : rows'[q] = rows[q]
         /\ overdue' = overdue \ {r}
<1>1. rows[r] \in RowRecord /\ rows \in [Row -> RowRecord] /\ rows[r].version \in Nat
  BY Types
<1>2. /\ rows'[r] = [rows[r] EXCEPT !.state = "LEASED", !.version = rows[r].version + 1,
                                    !.owner = NoReplica, !.lease = l]
      /\ \A q \in Row \ {r} : rows'[q] = rows[q]
      /\ overdue' = overdue \ {r}
  BY <1>1 DEF GrantLease
<1>3. rows'[r].state = "LEASED" /\ rows'[r].version = rows[r].version + 1
  BY <1>1, <1>2 DEF RowRecord
<1> QED
  BY <1>1, <1>2, <1>3

\* Writes of a coroutine that ends, or goes on to where nothing is asked of it.
LEMMA MovesOn ==
  ASSUME IInv, OwnInv, NEW c \in Coroutine, NEW r \in Row, OthersWait(c), Free(c, r),
         NEW s \in SandboxState, NEW o, Move(r, s, o), rows[r].state \in Spent => s \in Spent,
         s \in {"READY", "LEASED"} => Up(r), cloud' = cloud, co'[c].pc \in Quiet
  PROVE  OwnInv'
<1>1. /\ rows'[r].state = s /\ rows'[r].version > rows[r].version
      /\ \A q \in Row \ {r} : rows'[q] = rows[q]
      /\ overdue' = overdue \ {r}
  BY MoveRow
<1>2. s # "ABSENT" /\ s # "DELETED"
  BY DEF SandboxState
<1>3. co'[c].pc \notin Acting
  BY DEF Quiet
<1> QED
  BY <1>1, <1>2, <1>3, Writes

\* Writes of a coroutine that now works on the row it has taken.
LEMMA TakesRow ==
  ASSUME IInv, OwnInv, NEW c \in Coroutine, NEW r \in Row, Free(c, r),
         co[c].pc \notin {"idle", "draw"}, co[c].row = r,
         NEW s \in {"PAUSING", "RESUMING"}, Move(r, s, Home[c]), rows[r].state \in {"READY", "PAUSED"},
         cloud' = cloud, Go(c, IF s = "PAUSING" THEN "pause" ELSE "resume")
  PROVE  OwnInv'
<1>1. /\ rows'[r].state = s /\ rows'[r].version > rows[r].version /\ rows'[r].owner = Home[c]
      /\ \A q \in Row \ {r} : rows'[q] = rows[q]
      /\ overdue' = overdue \ {r}
  BY MoveRow DEF SandboxState
<1>2. /\ OthersWait(c) /\ co'[c].row = r
      /\ co'[c].pc = IF s = "PAUSING" THEN "pause" ELSE "resume"
  BY NextAwait, Types
<1>3. Mine(c)'
  BY <1>1, <1>2 DEF Mine, Owns, Decides, Knows, Acting, Deciding
<1> QED
  BY <1>1, <1>2, <1>3, Writes DEF Spent, Acting, Transitional

\* A READY row is used again.
LEMMA Touches ==
  ASSUME IInv, OwnInv, NEW c \in Coroutine, NEW r \in Row, OthersWait(c),
         rows[r].state = "READY", Touch(r), overdue' = overdue, cloud' = cloud,
         co'[c].pc \in Quiet
  PROVE  OwnInv'
<1>1. rows[r] \in RowRecord /\ rows \in [Row -> RowRecord] /\ rows[r].version \in Nat
  BY Types
<1>2. /\ rows'[r] = [rows[r] EXCEPT !.version = rows[r].version + 1]
      /\ \A q \in Row \ {r} : rows'[q] = rows[q]
  BY <1>1 DEF Touch
<1>3. rows'[r].state = "READY" /\ rows'[r].version = rows[r].version + 1
  BY <1>1, <1>2 DEF RowRecord
<1>4. Free(c, r)
  BY Unowned
<1>5. r \notin overdue /\ Up(r)
  BY DEF OwnInv, Late, Transitional, UsableIsRunning, Up
<1>6. co'[c].pc \notin Acting
  BY DEF Quiet
<1>7. rows'[r].version > rows[r].version /\ rows'[r].state # "ABSENT" /\ rows[r].state \notin Spent
  BY <1>1, <1>3 DEF Spent
<1> QED
  BY <1>2, <1>4, <1>5, <1>6, <1>7, Writes

\* The coroutine decides with what it has read before.
LEMMA Keeps ==
  ASSUME IInv, OwnInv, NEW c \in Coroutine, rows' = rows, cloud' = cloud, overdue' = overdue,
         co[c].pc \in Deciding, Go(c, "destroy")
  PROVE  OwnInv'
<1>1. OthersWait(c) /\ co'[c].pc = "destroy" /\ co'[c].row = co[c].row
      /\ co'[c].snap = co[c].snap
  BY NextAwait, Types
<1>2. co'[c].snap.state \in SandboxState /\ rows[co'[c].row].state # "ABSENT"
      /\ (SameVersion(co'[c].row, co'[c].snap) => Free(c, co'[c].row))
  BY <1>1 DEF OwnInv, Mine, Decides
<1>3. co'[c].pc \in Deciding \ {"adoptCas"}
  BY <1>1 DEF Deciding
<1> QED
  BY <1>1, <1>2, <1>3, Prepares

\* It gives the row it owns up, to be destroyed.
LEMMA GivesUp ==
  ASSUME IInv, OwnInv, NEW c \in Coroutine, rows' = rows, cloud' = cloud, overdue' = overdue,
         Reread(c, "destroy"), rows[co[c].row].state \in SandboxState,
         Free(c, co[c].row)
  PROVE  OwnInv'
<1>1. OthersWait(c) /\ co'[c].pc = "destroy" /\ co'[c].row = co[c].row
      /\ co'[c].snap = rows[co[c].row]
  BY NextAwait, Types
<1> QED
  BY <1>1, Prepares DEF Deciding, SandboxState

\* An operation starts with a row as it is.
LEMMA Starts ==
  ASSUME IInv, OwnInv, NEW c \in Coroutine, rows' = rows, cloud' = cloud, overdue' = overdue,
         NEW r \in Row, NEW pc \in Quiet \cup {"destroy", "adopt", "orphan", "adminEnd"},
         NEW l, NEW to, co' = [co EXCEPT ![c] = Reading(pc, r, l, to)],
         pc \notin Quiet => rows[r].state \in SandboxState /\ Free(c, r)
  PROVE  OwnInv'
<1>1. OthersWait(c) /\ co'[c].pc = pc /\ co'[c].row = r /\ co'[c].snap = rows[r]
  BY Types DEF OthersWait, Reading
<1>2. CASE pc \in Quiet
  BY <1>1, <1>2, Leaves
<1>3. CASE pc \notin Quiet
  <2>1. pc \in Deciding \ {"adoptCas"} /\ rows[r].state \in SandboxState
        /\ rows[r].state # "ABSENT" /\ Free(c, r)
    BY <1>3 DEF Deciding, SandboxState
  <2> QED
    BY <1>1, <2>1, Prepares
<1> QED
  BY <1>2, <1>3
-----------------------------------------------------------------------------
(* The steps of coroutines.                                                *)

\* What every step of coroutine c begins with.
LEMMA Here ==
  ASSUME IInv, LeakInv, OwnInv, NEW c \in Coroutine
  PROVE  /\ co \in [Coroutine -> CoRecord]
         /\ co[c].pc \notin {"idle", "draw"} => co[c].row \in Row
         /\ CoInv(c) /\ Held(c) /\ Owns(c) /\ Decides(c) /\ Knows(c)
         /\ co[c].pc \in Acting => Free(c, co[c].row)
BY Types DEF IInv, LeakInv, OwnInv, Mine, Sole

Keep == OwnInv' /\ Undisturbed

\* A step that leaves the platform alone disturbs nobody.
LEMMA Calmly ==
  ASSUME OwnInv', cloud' = cloud
  PROVE  Keep
BY DEF Keep, Undisturbed

\* Destroying a sandbox, and ending a lease.
LEMMA LifecycleOwns ==
  ASSUME IInv, LeakInv, OwnInv, NEW c \in Coroutine
  PROVE  /\ DestroyCas(c) => Keep
         /\ Kill(c) => Keep
         /\ DeleteRow(c) => Keep
         /\ EndLeaseCas(c) => Keep
         /\ EndRow(c) => Keep
<1> DEFINE r == co[c].row
<1>0. /\ co \in [Coroutine -> CoRecord] /\ CoInv(c) /\ Held(c) /\ Decides(c)
      /\ co[c].pc \notin {"idle", "draw"} => r \in Row
  BY Here
<1>1. ASSUME DestroyCas(c) PROVE Keep
  <2>1. co[c].pc = "destroy" /\ r \in Row /\ cloud' = cloud
    BY <1>0, <1>1 DEF DestroyCas, At
  <2>2. CASE SameVersion(r, co[c].snap) /\ Move(r, "DESTROYING", Home[c])
             /\ Go(c, IF co[c].snap.known THEN "kill" ELSE "delete")
    <3>1. Free(c, r)
      BY <1>0, <2>1, <2>2 DEF Decides, Deciding
    <3>2. OthersWait(c) /\ co'[c].pc \in Quiet
      BY <1>0, <2>2, NextAwait DEF Quiet, Pc, CallPc, Acting, Deciding
    <3> QED
      BY <2>1, <2>2, <3>1, <3>2, MovesOn, Calmly DEF SandboxState, Spent
  <2>3. CASE Finish(c) /\ UNCHANGED <<rows, overdue>>
    BY <1>0, <2>1, <2>3, NextAwait, Leaves, Calmly DEF Quiet, Pc, Acting, Deciding
  <2> QED
    BY <1>1, <2>2, <2>3 DEF DestroyCas
<1>2. ASSUME Kill(c) PROVE Keep
  <2>1. co[c].pc = "kill" /\ r \in Row /\ rows' = rows /\ overdue' = overdue
        /\ rows[r].state \in Spent
    BY <1>0, <1>2 DEF Kill, At, storeVars, Held
  <2>2. OthersWait(c) /\ co'[c].pc \in {"delete", "idle"}
    BY <1>0, <1>2, NextAwait DEF Kill, Call
  <2>3. Mine(c)' /\ co'[c].pc \notin Acting
    BY <2>2 DEF Mine, Owns, Decides, Knows, Acting, Deciding
  <2>4. \/ cloud' = [cloud EXCEPT ![r] = IF Live(r) THEN "gone" ELSE cloud[r]]
        \/ cloud' = cloud
    BY <1>2 DEF Kill, Call
  <2> QED
    BY <2>1, <2>2, <2>3, <2>4, Kills DEF Keep, Spent
<1>3. ASSUME DeleteRow(c) PROVE Keep
  <2>1. /\ co[c].pc = "delete" /\ r \in Row /\ cloud' = cloud
        /\ OthersWait(c) /\ co'[c].pc \in Quiet
    BY <1>0, <1>3, NextAwait DEF DeleteRow, At, Quiet, Pc, Acting, Deciding
  <2>2. CASE DeleteSandboxTx(r, Home[c])
    <3>1. /\ rows[r].state = "DESTROYING" /\ rows' = [rows EXCEPT ![r].state = "DELETED"]
          /\ overdue' = overdue \ {r}
      BY <2>2 DEF DeleteSandboxTx, CanDelete, OwnedIn
    <3>2. \A q \in Row \ {r} : rows'[q] = rows[q]
      BY <3>1, Types
    <3>3. rows'[r].state = "DELETED"
      BY <2>1, <3>1, Types DEF RowRecord
    <3>4. Free(c, r)
      BY <3>1, Unowned
    <3>5. co'[c].pc \notin Acting
      BY <2>1 DEF Quiet
    <3> QED
      BY <2>1, <3>1, <3>2, <3>3, <3>4, <3>5, Writes, Calmly DEF Spent
  <2>3. CASE UNCHANGED storeVars
    BY <2>1, <2>3, Leaves, Calmly DEF storeVars
  <2> QED
    BY <1>3, <2>2, <2>3 DEF DeleteRow
<1>4. ASSUME EndLeaseCas(c) PROVE Keep
  <2>1. rows' = rows /\ overdue' = overdue /\ cloud' = cloud
    BY <1>4 DEF EndLeaseCas, EndLeaseTx, storeVars
  <2>2. CASE Go(c, "endRow") \/ Finish(c)
    BY <1>0, <2>1, <2>2, NextAwait, Leaves, Calmly DEF Quiet, Pc, Acting, Deciding
  <2>3. CASE At(c, "adminEnd") /\ Go(c, "destroy")
    BY <2>1, <2>3, Keeps, Calmly DEF At, Deciding
  <2> QED
    BY <1>4, <2>2, <2>3 DEF EndLeaseCas
<1>5. ASSUME EndRow(c) PROVE Keep
  <2>1. co[c].pc = "endRow" /\ r \in Row /\ cloud' = cloud
    BY <1>0, <1>5 DEF EndRow, At
  <2>2. CASE rows[r].state = "LEASED" /\ Move(r, "DESTROYING", Home[c]) /\ Go(c, "kill")
    <3>1. OthersWait(c) /\ co'[c].pc \in Quiet
      BY <1>0, <2>2, NextAwait DEF Quiet, Pc, CallPc, Acting, Deciding
    <3> QED
      BY <2>1, <2>2, <3>1, Unowned, MovesOn, Calmly DEF SandboxState, Spent
  <2>3. CASE Finish(c) /\ UNCHANGED <<rows, overdue>>
    BY <1>0, <2>1, <2>3, NextAwait, Leaves, Calmly DEF Quiet, Pc, Acting, Deciding
  <2> QED
    BY <1>5, <2>2, <2>3 DEF EndRow
<1> QED
  BY <1>1, <1>2, <1>3, <1>4, <1>5

\* Borrowing, and returning.
LEMMA AllocatorOwns ==
  ASSUME IInv, LeakInv, OwnInv, NEW c \in Coroutine, AllocatorNext(c)
  PROVE  Keep
<1> DEFINE r == co[c].row
<1>0. /\ co \in [Coroutine -> CoRecord] /\ Owns(c) /\ Knows(c)
      /\ co[c].pc \notin {"idle", "draw"} => r \in Row
      /\ co[c].pc \in Acting => Free(c, r)
  BY Here
<1>1. CASE BeginClaim(c)
  <2>1. co'[c].pc = "draw" /\ OthersWait(c)
    BY <1>0, <1>1 DEF BeginClaim, Idle, OthersWait
  <2> QED
    BY <1>1, <2>1, Leaves, Calmly DEF BeginClaim, storeVars, Quiet, Pc, Acting, Deciding
<1>2. CASE Draw(c)
  <2>1. rows' = rows /\ overdue' = overdue /\ cloud' = cloud
    BY <1>2 DEF Draw, storeVars
  <2>2. CASE \E q \in Candidates : co' = [co EXCEPT ![c] = Reading("claim", q, NoLease, "-")]
    <3>1. PICK q \in Candidates : co' = [co EXCEPT ![c] = Reading("claim", q, NoLease, "-")]
      BY <2>2
    <3>2. q \in Row /\ "claim" \in Quiet
      BY DEF Candidates, InState, Quiet, Pc, Acting, Deciding
    <3> QED
      BY <2>1, <3>1, <3>2, Starts, Calmly
  <2>3. CASE Finish(c)
    BY <1>0, <2>1, <2>3, NextAwait, Leaves, Calmly DEF Quiet, Pc, Acting, Deciding
  <2> QED
    BY <1>2, <2>2, <2>3 DEF Draw
<1>3. CASE ClaimReady(c)
  <2>1. co[c].pc = "claim" /\ r \in Row /\ cloud' = cloud
    BY <1>0, <1>3 DEF ClaimReady, At
  <2>2. ASSUME NEW l \in LeaseId, ClaimReadyTx(r, co[c].snap, l),
               co' = [co EXCEPT ![c].pc = "setTimeout", ![c].lease = l]
        PROVE  Keep
    <3>1. rows[r].state = "READY" /\ GrantLease(r, l)
      BY <2>2 DEF ClaimReadyTx, ReadyAsRead
    <3>2. /\ rows'[r].state = "LEASED" /\ rows'[r].version > rows[r].version
          /\ \A q \in Row \ {r} : rows'[q] = rows[q]
          /\ overdue' = overdue \ {r}
      BY <2>1, <3>1, GrantRow
    <3>3. Free(c, r) /\ Up(r)
      BY <2>1, <3>1, Unowned DEF OwnInv, UsableIsRunning, Up
    <3>4. co'[c].pc = "setTimeout" /\ OthersWait(c)
      <4>1. co'[c] = [co[c] EXCEPT !.pc = "setTimeout", !.lease = l]
        BY <1>0, <2>2
      <4> QED
        BY <1>0, <2>2, <4>1 DEF OthersWait, CoRecord
    <3>5. co'[c].pc \in Quiet /\ co'[c].pc \notin Acting
      BY <3>4 DEF Quiet, Pc, Acting, Deciding
    <3> QED
      BY <2>1, <3>1, <3>2, <3>3, <3>4, <3>5, Writes, Calmly DEF Spent
  <2>3. CASE Go(c, "draw") /\ UNCHANGED storeVars
    BY <1>0, <2>1, <2>3, NextAwait, Leaves, Calmly DEF storeVars, Quiet, Pc, Acting, Deciding
  <2> QED
    BY <1>3, <2>2, <2>3 DEF ClaimReady
<1>4. CASE SetTimeout(c)
  <2>1. rows' = rows /\ overdue' = overdue /\ cloud' = cloud
    BY <1>4 DEF SetTimeout, storeVars
  <2>2. OthersWait(c) /\ co'[c].pc \in {"idle", "endLease"}
    <3>1. CASE Finish(c)
      BY <1>0, <3>1, NextAwait
    <3>2. CASE co' = [co EXCEPT ![c].pc = "endLease", ![c].to = "FAILED"]
      <4>1. co'[c] = [co[c] EXCEPT !.pc = "endLease", !.to = "FAILED"]
        BY <1>0, <3>2
      <4> QED
        BY <1>0, <3>2, <4>1 DEF OthersWait, CoRecord
    <3> QED
      BY <1>4, <3>1, <3>2 DEF SetTimeout
  <2> QED
    BY <2>1, <2>2, Leaves, Calmly DEF Quiet, Pc, Acting, Deciding
<1>5. CASE ClaimPaused(c)
  <2>1. co[c].pc = "claim" /\ r \in Row /\ cloud' = cloud /\ co[c].snap.state = "PAUSED"
    BY <1>0, <1>5 DEF ClaimPaused, At
  <2>2. CASE SameVersion(r, co[c].snap) /\ Move(r, "RESUMING", Home[c]) /\ Go(c, "resume")
    <3>1. rows[r].state = "PAUSED"
      BY <2>1, <2>2 DEF SameVersion
    <3> QED
      BY <2>1, <2>2, <3>1, Unowned, TakesRow, Calmly
  <2>3. CASE Go(c, "draw") /\ UNCHANGED <<rows, overdue>>
    BY <1>0, <2>1, <2>3, NextAwait, Leaves, Calmly DEF Quiet, Pc, Acting, Deciding
  <2> QED
    BY <1>5, <2>2, <2>3 DEF ClaimPaused
<1>6. CASE Resume(c)
  <2>1. co[c].pc = "resume" /\ r \in Row /\ rows' = rows /\ overdue' = overdue
    BY <1>0, <1>6 DEF Resume, At, storeVars
  <2>2. /\ cloud' = cloud \/ cloud' = [cloud EXCEPT ![r] = "running"]
        /\ \/ Go(c, "resumed") /\ cloud' = [cloud EXCEPT ![r] = "running"]
           \/ Go(c, "resumeFailed")
    BY <1>6 DEF Resume, Call
  <2>3. /\ OthersWait(c) /\ co'[c].row = r /\ co'[c].pc \in {"resumed", "resumeFailed"}
        /\ co'[c].pc = "resumed" => cloud' = [cloud EXCEPT ![r] = "running"]
    BY <1>0, <2>2, NextAwait
  <2>4. \A q \in Row \ {r} : cloud'[q] = cloud[q]
    BY <2>2, Types
  <2>5. Owns(c)' /\ Knows(c)'
    BY <1>0, <2>1, <2>3, Types DEF Owns, Knows, Up, Acting
  <2> QED
    BY <2>1, <2>3, <2>4, <2>5, Works DEF Keep, Acting
<1>7. CASE FinishResume(c)
  <2>1. /\ co[c].pc = "resumed" /\ r \in Row /\ cloud' = cloud /\ Free(c, r) /\ Up(r)
        /\ OthersWait(c) /\ co'[c].pc = "idle" /\ rows[r].state = "RESUMING"
    BY <1>0, <1>7, NextAwait DEF FinishResume, At, Acting, Knows, Owns
  <2>2. ASSUME NEW l \in LeaseId, FinishResumeTx(r, Home[c], l) PROVE Keep
    <3>1. /\ rows'[r].state = "LEASED" /\ rows'[r].version > rows[r].version
          /\ \A q \in Row \ {r} : rows'[q] = rows[q]
          /\ overdue' = overdue \ {r}
      BY <2>1, <2>2, GrantRow DEF FinishResumeTx
    <3>2. co'[c].pc \in Quiet /\ co'[c].pc \notin Acting
      BY <2>1 DEF Quiet, Pc, Acting, Deciding
    <3> QED
      BY <2>1, <3>1, <3>2, Writes, Calmly DEF Spent
  <2>3. CASE UNCHANGED storeVars
    BY <2>1, <2>3, Leaves, Calmly DEF storeVars, Quiet, Pc, Acting, Deciding
  <2> QED
    BY <1>7, <2>2, <2>3 DEF FinishResume
<1>8. CASE ResumeFailed(c)
  <2>1. co[c].pc = "resumeFailed" /\ r \in Row /\ rows' = rows /\ overdue' = overdue
        /\ cloud' = cloud /\ Free(c, r) /\ rows[r].state = "RESUMING"
    BY <1>0, <1>8 DEF ResumeFailed, At, Acting, Owns, storeVars
  <2>2. CASE Reread(c, "destroy")
    BY <2>1, <2>2, GivesUp, Calmly DEF SandboxState
  <2>3. CASE Finish(c)
    BY <1>0, <2>1, <2>3, NextAwait, Leaves, Calmly DEF Quiet, Pc, Acting, Deciding
  <2> QED
    BY <1>8, <2>2, <2>3 DEF ResumeFailed
<1>9. CASE \E l \in LeaseId : Release(c, l) \/ UseFindsGone(c, l)
  <2>1. PICK l \in LeaseId : Release(c, l) \/ UseFindsGone(c, l)
    BY <1>9
  <2>2. leases[l].row \in Row /\ "endLease" \in Quiet
    BY <2>1 DEF Release, UseFindsGone, IInv, StoreInv, LeaseInv, Quiet, Pc, Acting, Deciding
  <2>3. /\ rows' = rows /\ overdue' = overdue /\ cloud' = cloud
        /\ \E to : co' = [co EXCEPT ![c] = Reading("endLease", leases[l].row, l, to)]
    BY <2>1 DEF Release, UseFindsGone, BeginEnd, storeVars
  <2>4. PICK to : co' = [co EXCEPT ![c] = Reading("endLease", leases[l].row, l, to)]
    BY <2>3
  <2>5. OwnInv'
    BY <2>2, <2>3, <2>4, Starts
  <2> QED
    BY <2>3, <2>5, Calmly
<1> QED
  BY <1>1, <1>2, <1>3, <1>4, <1>5, <1>6, <1>7, <1>8, <1>9 DEF AllocatorNext
\* Creating a sandbox.
LEMMA CreateOwns ==
  ASSUME IInv, LeakInv, OwnInv, NEW c \in Coroutine
  PROVE  /\ ReserveSlot(c) => Keep
         /\ Create(c) => Keep
         /\ RecordProvider(c) => Keep
         /\ Warm(c) => Keep
         /\ MarkReady(c) => Keep
         /\ CreateFailed(c) => Keep
         /\ BootFailed(c) => Keep
         /\ Discard(c) => Keep
<1> DEFINE r == co[c].row
<1>0. /\ co \in [Coroutine -> CoRecord] /\ Owns(c) /\ Knows(c) /\ CoInv(c)
      /\ co[c].pc \notin {"idle", "draw"} => r \in Row
      /\ co[c].pc \in Acting => Free(c, r)
  BY Here
<1>a. ASSUME co[c].pc \in Acting, rows' = rows, overdue' = overdue, cloud' = cloud,
             NEW pc \in {"bootFailed", "warmed"}, Go(c, pc),
             pc = "bootFailed" => rows[r].state \in {"CREATING", "WARMING"},
             pc = "warmed" => rows[r].state = "WARMING" /\ Up(r)
      PROVE  Keep
  <2>1. OthersWait(c) /\ co'[c].pc = pc /\ co'[c].row = r
    BY <1>0, <1>a, NextAwait
  <2>2. Owns(c)' /\ Knows(c)'
    BY <1>0, <1>a, <2>1 DEF Owns, Knows, Up, Acting
  <2> QED
    BY <1>a, <2>1, <2>2, Works DEF Keep, Acting
<1>1. ASSUME ReserveSlot(c) PROVE Keep
  <2>1. PICK q \in Row : /\ ReserveSlotTx(q, Home[c])
                         /\ co' = [co EXCEPT ![c] = Reading("create", q, NoLease, "-")]
    BY <1>1 DEF ReserveSlot
  <2>2. rows[q].state = "ABSENT" /\ rows'[q] = [Absent EXCEPT !.state = "CREATING", !.owner = Home[c]]
        /\ (\A p \in Row \ {q} : rows'[p] = rows[p]) /\ overdue' = overdue /\ cloud' = cloud
    BY <1>1, <2>1, Types DEF ReserveSlot, ReserveSlotTx, ReserveSlotUnlocked
  <2>3. rows'[q].state = "CREATING" /\ rows'[q].owner = Home[c]
    BY <2>2 DEF Absent
  <2>4. OthersWait(c) /\ co'[c].pc = "create" /\ co'[c].row = q
    BY <1>0, <2>1 DEF OthersWait, Reading
  <2>5. q \notin overdue /\ Free(c, q)
    BY <2>2, Unowned DEF OwnInv, Late, Transitional
  <2>6. Mine(c)'
    BY <2>2, <2>3, <2>4, <2>5 DEF Mine, Owns, Decides, Knows, Acting, Deciding
  <2> QED
    BY <2>2, <2>3, <2>4, <2>5, <2>6, Writes, Calmly DEF Spent, Acting
<1>2. ASSUME Create(c) PROVE Keep
  <2>1. /\ co[c].pc = "create" /\ r \in Row /\ rows' = rows /\ overdue' = overdue
        /\ cloud' = [cloud EXCEPT ![r] = "running"] \/ cloud' = cloud
        /\ \/ Go(c, "created") /\ cloud' = [cloud EXCEPT ![r] = "running"]
           \/ Go(c, "createFailed")
    BY <1>0, <1>2 DEF Create, At, Call, storeVars
  <2>2. /\ OthersWait(c) /\ co'[c].row = r /\ co'[c].pc \in {"created", "createFailed"}
        /\ co'[c].pc = "created" => cloud' = [cloud EXCEPT ![r] = "running"]
    BY <1>0, <2>1, NextAwait
  <2>3. \A q \in Row \ {r} : cloud'[q] = cloud[q]
    BY <2>1, Types
  <2>4. Owns(c)' /\ Knows(c)'
    BY <1>0, <2>1, <2>2, Types DEF Owns, Knows, Up, Acting
  <2> QED
    BY <2>1, <2>2, <2>3, <2>4, Works DEF Keep, Acting
<1>3. ASSUME RecordProvider(c) PROVE Keep
  <2>1. /\ co[c].pc = "created" /\ r \in Row /\ cloud' = cloud /\ Up(r)
        /\ OwnedIn(r, "CREATING", Home[c]) /\ r \notin overdue
    BY <1>0, <1>3 DEF RecordProvider, At, Owns, Knows, Acting, OwnedIn
  <2>2. CASE /\ rows' = [rows EXCEPT ![r].state = "WARMING", ![r].version = @ + 1,
                                     ![r].known = TRUE]
             /\ overdue' = overdue \ {r}
             /\ Go(c, "warm")
    <3>1. rows[r] \in RowRecord /\ rows \in [Row -> RowRecord] /\ rows[r].version \in Nat
      BY <2>1, Types
    <3>2. /\ rows'[r] = [rows[r] EXCEPT !.state = "WARMING", !.version = rows[r].version + 1,
                                        !.known = TRUE]
          /\ \A q \in Row \ {r} : rows'[q] = rows[q]
      BY <2>1, <2>2, <3>1
    <3>3. rows'[r].state = "WARMING" /\ rows'[r].version = rows[r].version + 1
          /\ rows'[r].owner = rows[r].owner
      BY <3>1, <3>2 DEF RowRecord
    <3>4. rows'[r].version > rows[r].version
      BY <3>1, <3>3
    <3>5. OthersWait(c) /\ co'[c].pc = "warm" /\ co'[c].row = r
      BY <1>0, <2>2, NextAwait
    <3>6. Mine(c)'
      BY <2>1, <2>2, <3>3, <3>5
         DEF Mine, Owns, Decides, Knows, Up, Acting, Deciding, OwnedIn
    <3>7. rows[r].state \notin Spent
      BY <2>1 DEF Spent, OwnedIn
    <3> QED
      BY <1>0, <2>1, <2>2, <3>2, <3>3, <3>4, <3>5, <3>6, <3>7, Writes, Calmly DEF Acting
  <2>3. CASE Go(c, "bootFailed") /\ UNCHANGED <<rows, overdue>>
    BY <1>a, <2>1, <2>3 DEF Acting, OwnedIn
  <2> QED
    BY <1>3, <2>1, <2>2, <2>3 DEF RecordProvider
<1>4. ASSUME Warm(c) PROVE Keep
  <2>1. /\ co[c].pc = "warm" /\ rows' = rows /\ overdue' = overdue /\ cloud' = cloud
        /\ rows[r].state = "WARMING" /\ Up(r) /\ (Go(c, "warmed") \/ Go(c, "bootFailed"))
    BY <1>0, <1>4 DEF Warm, At, storeVars, Owns, Knows
  <2> QED
    BY <1>a, <2>1 DEF Acting
<1>5. ASSUME MarkReady(c) PROVE Keep
  <2>1. /\ co[c].pc = "warmed" /\ r \in Row /\ cloud' = cloud
        /\ Up(r) /\ rows[r].state = "WARMING" /\ OwnedIn(r, "WARMING", Home[c]) /\ Free(c, r)
    BY <1>0, <1>5 DEF MarkReady, At, Owns, Knows, Acting, OwnedIn
  <2>2. CASE Move(r, "READY", NoReplica) /\ Finish(c)
    <3>1. OthersWait(c) /\ co'[c].pc \in Quiet
      BY <1>0, <2>2, NextAwait DEF Quiet, Pc, Acting, Deciding
    <3> QED
      BY <2>1, <2>2, <3>1, MovesOn, Calmly DEF SandboxState, Spent
  <2>3. CASE Go(c, "bootFailed") /\ UNCHANGED <<rows, overdue>>
    BY <1>a, <2>1, <2>3 DEF Acting
  <2> QED
    BY <1>5, <2>1, <2>2, <2>3 DEF MarkReady
<1>6. ASSUME CreateFailed(c) PROVE Keep
  <2>1. /\ co[c].pc = "createFailed" /\ rows' = rows /\ overdue' = overdue /\ cloud' = cloud
        /\ Free(c, r) /\ rows[r].state = "CREATING" /\ (Reread(c, "destroy") \/ Finish(c))
    BY <1>0, <1>6 DEF CreateFailed, At, Owns, Acting, storeVars
  <2>2. CASE Reread(c, "destroy")
    BY <2>1, <2>2, GivesUp, Calmly DEF SandboxState
  <2>3. CASE Finish(c)
    BY <1>0, <2>1, <2>3, NextAwait, Leaves, Calmly DEF Quiet, Pc, Acting, Deciding
  <2> QED
    BY <2>1, <2>2, <2>3
<1>7. ASSUME BootFailed(c) PROVE Keep
  <2>1. /\ co[c].pc = "bootFailed" /\ rows' = rows /\ overdue' = overdue /\ cloud' = cloud
        /\ Free(c, r) /\ rows[r].state \in {"CREATING", "WARMING"} /\ Booting(c)
    BY <1>0, <1>7 DEF BootFailed, At, Owns, Acting, storeVars, Booting, OwnedIn
  <2>2. CASE Reread(c, "destroy")
    BY <2>1, <2>2, GivesUp, Calmly DEF SandboxState
  <2>3. CASE Reread(c, "discardRow")
    <3>1. OthersWait(c) /\ co'[c].pc = "discardRow" /\ co'[c].row = r
      BY <1>0, <2>3, NextAwait
    <3>2. Owns(c)' /\ Knows(c)'
      BY <1>0, <2>1, <3>1 DEF Owns, Knows, Acting
    <3> QED
      BY <2>1, <3>1, <3>2, Works DEF Keep, Acting
  <2> QED
    BY <1>7, <2>1, <2>2, <2>3 DEF BootFailed
<1>8. ASSUME Discard(c) PROVE Keep
  <2>1. /\ co[c].pc \in {"discard", "discardRow"} /\ r \in Row
        /\ rows' = rows /\ overdue' = overdue
        /\ \/ cloud' = [cloud EXCEPT ![r] = IF Live(r) THEN "gone" ELSE cloud[r]]
           \/ cloud' = cloud
    BY <1>0, <1>8 DEF Discard, Call, storeVars
  <2>2. CASE co[c].pc = "discard"
    <3>1. Go(c, "idle") /\ rows[r].state # "LEASED"
      BY <1>0, <1>8, <2>2 DEF Discard, Call, At, Knows, Spent
    <3>2. OthersWait(c) /\ co'[c].pc = "idle"
      BY <1>0, <3>1, NextAwait
    <3>3. Mine(c)' /\ co'[c].pc \notin Acting
      BY <3>2 DEF Mine, Owns, Decides, Knows, Acting, Deciding
    <3> QED
      BY <2>1, <3>1, <3>2, <3>3, Kills DEF Keep
  <2>3. CASE co[c].pc = "discardRow"
    <3>1. /\ Go(c, "destroy") /\ rows[r].state \in {"CREATING", "WARMING"} /\ Free(c, r)
          /\ co[c].snap.state \in SandboxState
      BY <1>0, <1>8, <2>3 DEF Discard, Call, At, Owns, Acting, CoInv
    <3>2. OthersWait(c) /\ co'[c].pc = "destroy" /\ co'[c].row = r /\ co'[c].snap = co[c].snap
      BY <1>0, <3>1, NextAwait
    <3>3. Free(c, co[c].row)'
      BY <3>1, <3>2 DEF Free, OthersWait
    <3>4. Mine(c)' /\ co'[c].pc \notin Acting
      BY <2>1, <3>1, <3>2, <3>3 DEF Mine, Owns, Decides, Knows, Acting, Deciding
    <3> QED
      BY <2>1, <3>1, <3>2, <3>4, Kills DEF Keep
  <2> QED
    BY <2>1, <2>2, <2>3
<1> QED
  BY <1>1, <1>2, <1>3, <1>4, <1>5, <1>6, <1>7, <1>8

\* Pausing, and keeping READY sandboxes alive.
LEMMA IdleOwns ==
  ASSUME IInv, LeakInv, OwnInv, NEW c \in Coroutine
  PROVE  /\ StartPause(c) => Keep
         /\ Pause(c) => Keep
         /\ PauseDone(c) => Keep
         /\ PauseFailed(c) => Keep
         /\ KeepaliveCas(c) => Keep
         /\ KeepaliveCall(c) => Keep
         /\ KeepGone(c) => Keep
         /\ KeepFailed(c) => Keep
<1> DEFINE r == co[c].row
<1>0. /\ co \in [Coroutine -> CoRecord] /\ Owns(c) /\ Knows(c)
      /\ co[c].pc \notin {"idle", "draw"} => r \in Row
      /\ co[c].pc \in Acting => Free(c, r)
  BY Here
<1>a. ASSUME rows' = rows, overdue' = overdue, cloud' = cloud, NEW pc \in Quiet,
             Go(c, pc) \/ Finish(c)
      PROVE  Keep
  <2>1. OthersWait(c) /\ co'[c].pc \in {pc, "idle"}
    BY <1>0, <1>a, NextAwait
  <2>2. co'[c].pc \in Quiet
    BY <2>1 DEF Quiet, Pc, Acting, Deciding
  <2> QED
    BY <1>a, <2>1, <2>2, Leaves, Calmly
<1>b. {"idle", "keepTimeout", "keepGone", "keepFailed"} \subseteq Quiet
  BY DEF Quiet, Pc, Acting, Deciding
<1>1. ASSUME StartPause(c) PROVE Keep
  <2>1. co[c].pc = "startPause" /\ r \in Row /\ cloud' = cloud
    BY <1>0, <1>1 DEF StartPause, At
  <2>2. CASE StartPauseTx(r, co[c].snap, Home[c]) /\ Go(c, "pause")
    <3>1. rows[r].state = "READY" /\ Move(r, "PAUSING", Home[c])
      BY <2>2 DEF StartPauseTx, ReadyAsRead
    <3> QED
      BY <2>1, <2>2, <3>1, Unowned, TakesRow, Calmly
  <2>3. CASE Finish(c) /\ UNCHANGED storeVars
    BY <1>a, <1>b, <2>1, <2>3 DEF storeVars
  <2> QED
    BY <1>1, <2>2, <2>3 DEF StartPause
<1>2. ASSUME Pause(c) PROVE Keep
  <2>1. /\ co[c].pc = "pause" /\ r \in Row /\ rows' = rows /\ overdue' = overdue
        /\ cloud' = [cloud EXCEPT ![r] = "paused"] \/ cloud' = cloud
        /\ Go(c, "paused") \/ Go(c, "pauseFailed")
    BY <1>0, <1>2 DEF Pause, At, Call, storeVars
  <2>2. OthersWait(c) /\ co'[c].row = r /\ co'[c].pc \in {"paused", "pauseFailed"}
    BY <1>0, <2>1, NextAwait
  <2>3. \A q \in Row \ {r} : cloud'[q] = cloud[q]
    BY <2>1, Types
  <2>4. Owns(c)' /\ Knows(c)'
    BY <1>0, <2>1, <2>2 DEF Owns, Knows, Acting
  <2> QED
    BY <2>1, <2>2, <2>3, <2>4, Works DEF Keep, Acting
<1>3. ASSUME PauseDone(c) PROVE Keep
  <2>1. /\ co[c].pc = "paused" /\ r \in Row /\ cloud' = cloud /\ Free(c, r)
        /\ rows[r].state = "PAUSING" /\ OwnedIn(r, "PAUSING", Home[c])
    BY <1>0, <1>3 DEF PauseDone, At, Owns, Acting, OwnedIn
  <2>2. Move(r, "PAUSED", NoReplica) /\ Finish(c)
    BY <1>3, <2>1 DEF PauseDone
  <2>3. OthersWait(c) /\ co'[c].pc \in Quiet
    BY <1>0, <1>b, <2>2, NextAwait
  <2> QED
    BY <2>1, <2>2, <2>3, MovesOn, Calmly DEF SandboxState, Spent
<1>4. ASSUME PauseFailed(c) PROVE Keep
  <2>1. /\ co[c].pc = "pauseFailed" /\ rows' = rows /\ overdue' = overdue /\ cloud' = cloud
        /\ Free(c, r) /\ rows[r].state = "PAUSING"
    BY <1>0, <1>4 DEF PauseFailed, At, Owns, Acting, storeVars
  <2>2. CASE Reread(c, "destroy")
    BY <2>1, <2>2, GivesUp, Calmly DEF SandboxState
  <2> QED
    BY <1>4, <1>a, <1>b, <2>1, <2>2 DEF PauseFailed
<1>5. ASSUME KeepaliveCas(c) PROVE Keep
  <2>1. co[c].pc = "keepalive" /\ r \in Row /\ cloud' = cloud /\ overdue' = overdue
    BY <1>0, <1>5 DEF KeepaliveCas, At
  <2>2. CASE ReadyAsRead(r, co[c].snap) /\ Touch(r) /\ Go(c, "keepTimeout")
    <3>1. OthersWait(c) /\ co'[c].pc \in Quiet
      BY <1>0, <1>b, <2>2, NextAwait
    <3> QED
      BY <2>1, <2>2, <3>1, Touches, Calmly DEF ReadyAsRead
  <2>3. CASE Finish(c) /\ UNCHANGED rows
    BY <1>a, <1>b, <2>1, <2>3
  <2> QED
    BY <1>5, <2>2, <2>3 DEF KeepaliveCas
<1>6. ASSUME KeepaliveCall(c) PROVE Keep
  <2>1. /\ rows' = rows /\ overdue' = overdue /\ cloud' = cloud
        /\ Finish(c) \/ Go(c, "keepGone") \/ Go(c, "keepFailed")
    BY <1>6 DEF KeepaliveCall, storeVars
  <2> QED
    BY <1>a, <1>b, <2>1
<1>7. ASSUME KeepGone(c) PROVE Keep
  <2>1. /\ co[c].pc = "keepGone" /\ rows' = rows /\ overdue' = overdue /\ cloud' = cloud
    BY <1>7 DEF KeepGone, At, storeVars
  <2>2. CASE rows[r].state = "READY" /\ Reread(c, "destroy")
    BY <2>1, <2>2, Unowned, GivesUp, Calmly DEF SandboxState
  <2> QED
    BY <1>7, <1>a, <1>b, <2>1, <2>2 DEF KeepGone
<1>8. ASSUME KeepFailed(c) PROVE Keep
  <2>1. /\ co[c].pc = "keepFailed" /\ r \in Row /\ cloud' = cloud /\ overdue' = overdue
        /\ Finish(c)
    BY <1>0, <1>8 DEF KeepFailed, At
  <2>2. CASE rows[r].state = "READY" /\ Touch(r)
    <3>1. OthersWait(c) /\ co'[c].pc \in Quiet
      BY <1>0, <1>b, <2>1, NextAwait
    <3> QED
      BY <2>1, <2>2, <3>1, Touches, Calmly
  <2>3. CASE UNCHANGED rows
    BY <1>a, <1>b, <2>1, <2>3
  <2> QED
    BY <1>8, <2>2, <2>3 DEF KeepFailed
<1> QED
  BY <1>1, <1>2, <1>3, <1>4, <1>5, <1>6, <1>7, <1>8
\* Taking rows over, and comparing them with the platform.
LEMMA RecoveryOwns ==
  ASSUME IInv, LeakInv, OwnInv, NEW c \in Coroutine
  PROVE  /\ Adopt(c) => Keep
         /\ AdoptCas(c) => Keep
         /\ OrphanCheck(c) => Keep
         /\ ListPlatform(c) => Keep
         /\ KillOrphan(c) => Keep
         /\ DropVanished(c) => Keep
         /\ LeaveAlone(c) => Keep
<1> DEFINE r == co[c].row
<1>0. /\ co \in [Coroutine -> CoRecord] /\ CoInv(c) /\ Decides(c) /\ Knows(c)
      /\ co[c].pc \notin {"idle", "draw"} => r \in Row
  BY Here
<1>a. ASSUME rows' = rows, overdue' = overdue, cloud' = cloud, Finish(c) \/ Go(c, "idle")
      PROVE  Keep
  BY <1>0, <1>a, NextAwait, Leaves, Calmly DEF Quiet, Pc, Acting, Deciding
<1>1. ASSUME Adopt(c) PROVE Keep
  <2> DEFINE target == IF cloud[r] = "paused" THEN "PAUSED" ELSE "READY"
  <2>1. co[c].pc = "adopt" /\ rows' = rows /\ overdue' = overdue /\ cloud' = cloud
    BY <1>1 DEF Adopt, At, storeVars
  <2>2. CASE Live(r) /\ co' = [co EXCEPT ![c].pc = "adoptCas", ![c].to = target]
    <3>1. co'[c] = [co[c] EXCEPT !.pc = "adoptCas", !.to = target] /\ OthersWait(c)
      BY <1>0, <2>2 DEF OthersWait
    <3>2. co'[c].pc = "adoptCas" /\ co'[c].row = r /\ co'[c].snap = co[c].snap
          /\ co'[c].to = target
      BY <1>0, <3>1 DEF CoRecord
    <3>3. Free(c, r) => Free(c, co[c].row)'
      BY <3>1, <3>2 DEF Free, OthersWait
    <3>4. Decides(c)'
      BY <1>0, <2>1, <3>2, <3>3 DEF Decides, Deciding, SameVersion
    <3>5. target = "READY" => Up(r)
      BY <2>2 DEF Live, Up
    <3>6. Owns(c)' /\ Knows(c)' /\ co'[c].pc \notin Acting
      BY <2>1, <3>2, <3>5 DEF Owns, Knows, Up, Acting
    <3> QED
      BY <2>1, <3>1, <3>4, <3>6, Stands, Calmly DEF Mine
  <2>3. CASE Go(c, "destroy")
    BY <2>1, <2>3, Keeps, Calmly DEF Deciding
  <2> QED
    BY <1>1, <2>2, <2>3 DEF Adopt, Live
<1>2. ASSUME AdoptCas(c) PROVE Keep
  <2>1. co[c].pc = "adoptCas" /\ r \in Row /\ cloud' = cloud /\ Finish(c)
        /\ co[c].snap.state \in {"PAUSING", "RESUMING"} /\ co[c].to \in {"READY", "PAUSED"}
    BY <1>0, <1>2 DEF AdoptCas, At, CoInv
  <2>2. CASE SameVersion(r, co[c].snap) /\ Move(r, co[c].to, NoReplica)
    <3>1. Free(c, r) /\ (co[c].to = "READY" => Up(r)) /\ rows[r].state \notin Spent
      BY <1>0, <2>1, <2>2 DEF Decides, Deciding, Knows, SameVersion, Spent
    <3>2. OthersWait(c) /\ co'[c].pc \in Quiet
      BY <1>0, <2>1, NextAwait DEF Quiet, Pc, Acting, Deciding
    <3>3. co[c].to \in SandboxState /\ co[c].to # "LEASED"
      BY <2>1 DEF SandboxState
    <3> QED
      BY <2>1, <2>2, <3>1, <3>2, <3>3, MovesOn, Calmly
  <2>3. CASE UNCHANGED <<rows, overdue>>
    BY <1>a, <2>1, <2>3
  <2> QED
    BY <1>2, <2>2, <2>3 DEF AdoptCas
<1>3. ASSUME OrphanCheck(c) PROVE Keep
  <2>1. /\ co[c].pc = "orphan" /\ rows' = rows /\ overdue' = overdue /\ cloud' = cloud
        /\ Go(c, "idle") \/ Go(c, "destroy")
    BY <1>3 DEF OrphanCheck, At, storeVars
  <2> QED
    BY <1>a, <2>1, Keeps, Calmly DEF Deciding
<1>4. ASSUME ListPlatform(c) PROVE Keep
  <2> DEFINE found == IF Live(r) THEN "live" ELSE "gone"
  <2>1. co[c].pc = "list" /\ r \in Row /\ rows' = rows /\ overdue' = overdue /\ cloud' = cloud
    BY <1>0, <1>4 DEF ListPlatform, At, storeVars
  <2>2. CASE co' = [co EXCEPT ![c].pc = "listed", ![c].to = found]
    <3>1. co'[c] = [co[c] EXCEPT !.pc = "listed", !.to = found] /\ OthersWait(c)
      BY <1>0, <2>2 DEF OthersWait
    <3>2. co'[c].pc = "listed" /\ co'[c].row = r /\ co'[c].to = found
      BY <1>0, <3>1 DEF CoRecord
    <3>3. found = "live" => rows[r].state # "ABSENT"
      BY <2>1 DEF Live, OwnInv, Born
    <3>4. Mine(c)' /\ co'[c].pc \notin Acting
      BY <2>1, <3>2, <3>3 DEF Mine, Owns, Decides, Knows, Acting, Deciding
    <3> QED
      BY <2>1, <3>1, <3>4, Stands, Calmly
  <2>3. CASE Finish(c)
    BY <1>a, <2>1, <2>3
  <2> QED
    BY <1>4, <2>2, <2>3 DEF ListPlatform
<1>5. ASSUME KillOrphan(c) PROVE Keep
  <2>1. /\ co[c].pc = "listed" /\ r \in Row /\ rows' = rows /\ overdue' = overdue
        /\ cloud' = cloud /\ co[c].to = "live" /\ r \notin Present /\ Go(c, "discard")
    BY <1>0, <1>5 DEF KillOrphan, At, storeVars
  <2>2. rows[r].state \in Spent
    <3>1. rows[r].state \in SandboxState \cup {"ABSENT", "DELETED"}
      BY <2>1, Types DEF RowRecord
    <3> QED
      BY <1>0, <2>1, <3>1 DEF Knows, Present, Spent
  <2>3. OthersWait(c) /\ co'[c].pc = "discard" /\ co'[c].row = r
    BY <1>0, <2>1, NextAwait
  <2>4. Mine(c)' /\ co'[c].pc \notin Acting
    BY <2>1, <2>2, <2>3 DEF Mine, Owns, Decides, Knows, Acting, Deciding
  <2> QED
    BY <2>1, <2>3, <2>4, Stands, Calmly
<1>6. ASSUME DropVanished(c) PROVE Keep
  <2>1. /\ co[c].pc = "listed" /\ r \in Row /\ rows' = rows /\ overdue' = overdue
        /\ cloud' = cloud /\ rows[r].state \in {"READY", "PAUSED", "LEASED"}
    BY <1>0, <1>6 DEF DropVanished, At, Vanished, storeVars
  <2>2. CASE co' = [co EXCEPT ![c] = Reading("endLease", r, rows[r].lease, "FAILED")]
    <3>1. "endLease" \in Quiet
      BY DEF Quiet, Pc, Acting, Deciding
    <3> QED
      BY <2>1, <2>2, <3>1, Starts, Calmly
  <2>3. CASE Reread(c, "destroy")
    BY <2>1, <2>3, Unowned, GivesUp, Calmly DEF SandboxState
  <2> QED
    BY <1>6, <2>2, <2>3 DEF DropVanished
<1>7. ASSUME LeaveAlone(c) PROVE Keep
  BY <1>7, <1>a DEF LeaveAlone, storeVars
<1> QED
  BY <1>1, <1>2, <1>3, <1>4, <1>5, <1>6, <1>7

\* The starts of operations: the maintenance loop's, and the administrator's.
LEMMA StartOwns ==
  ASSUME IInv, LeakInv, OwnInv, NEW c \in Coroutine
  PROVE  /\ \A l \in LeaseId : ExpireLease(c, l) => Keep
         /\ \A r \in Row : AdminDestroy(c, r) => Keep
         /\ \A r \in Row : RecoverStuck(c, r) => Keep
         /\ \A r \in Row : FixOrphan(c, r) \/ RetireOld(c, r) \/ DrainIdle(c, r) => Keep
         /\ \A r \in Row : PauseIdle(c, r) \/ Keepalive(c, r) \/ Reconcile(c, r) => Keep
<1>1. ASSUME NEW l \in LeaseId, NEW pc \in {"endLease", "adminEnd"}, NEW to,
             leases[l].state # "NONE", BeginEnd(c, pc, l, to), UNCHANGED <<storeVars, cloud>>,
             pc = "adminEnd" => rows[leases[l].row].state = "LEASED"
      PROVE  Keep
  <2>1. leases[l].row \in Row
    BY <1>1 DEF IInv, StoreInv, LeaseInv
  <2>2. pc \in Quiet \/ (pc = "adminEnd" /\ rows[leases[l].row].state \in SandboxState
                                        /\ Free(c, leases[l].row))
    BY <1>1, Unowned DEF Quiet, Pc, Acting, Deciding, SandboxState
  <2>3. rows' = rows /\ overdue' = overdue /\ cloud' = cloud
    BY <1>1 DEF storeVars
  <2> QED
    BY <1>1, <2>1, <2>2, <2>3, Starts, Calmly DEF BeginEnd
<1>2. ASSUME NEW r \in Row, NEW pc \in Quiet \cup {"destroy", "adopt", "orphan"},
             Begin(c, pc, r), UNCHANGED <<storeVars, cloud>>,
             pc \notin Quiet => rows[r].state \in SandboxState /\ Free(c, r)
      PROVE  Keep
  <2>1. rows' = rows /\ overdue' = overdue /\ cloud' = cloud
    BY <1>2 DEF storeVars
  <2>2. OwnInv'
    BY <1>2, <2>1, Starts DEF Begin
  <2> QED
    BY <2>1, <2>2, Calmly
<1>3. ASSUME NEW l \in LeaseId, ExpireLease(c, l) PROVE Keep
  BY <1>1, <1>3 DEF ExpireLease
<1>4. ASSUME NEW r \in Row, AdminDestroy(c, r) PROVE Keep
  <2>1. CASE rows[r].state = "LEASED" /\ BeginEnd(c, "adminEnd", rows[r].lease, "RELEASED")
    <3>1. Granted(rows[r].lease, r)
      BY <2>1 DEF IInv, StoreInv, RowInv
    <3> QED
      BY <1>1, <1>4, <2>1, <3>1 DEF AdminDestroy, Granted
  <2>2. CASE rows[r].state \in {"READY", "PAUSED"} /\ Begin(c, "destroy", r)
    BY <1>2, <1>4, <2>2, Unowned DEF AdminDestroy, SandboxState
  <2> QED
    BY <1>4, <2>1, <2>2 DEF AdminDestroy
<1>5. ASSUME NEW r \in Row, RecoverStuck(c, r) PROVE Keep
  <2>1. rows[r].state \in Transitional /\ r \in overdue /\ UNCHANGED <<storeVars, cloud>>
        /\ \E pc \in {"adopt", "destroy"} : Begin(c, pc, r)
    BY <1>5 DEF RecoverStuck
  <2>2. rows[r].state \in SandboxState
    BY <2>1 DEF Transitional, SandboxState
  <2>3. Free(c, r)
    BY <2>1 DEF OwnInv, Mine, Owns, Free
  <2> QED
    BY <1>2, <2>1, <2>2, <2>3
<1>6. ASSUME NEW r \in Row, FixOrphan(c, r) \/ RetireOld(c, r) \/ DrainIdle(c, r) PROVE Keep
  <2>1. /\ UNCHANGED <<storeVars, cloud>> /\ rows[r].state \in {"READY", "PAUSED", "LEASED"}
        /\ \E pc \in {"destroy", "orphan"} : Begin(c, pc, r)
    BY <1>6 DEF FixOrphan, RetireOld, DrainIdle
  <2> QED
    BY <1>2, <2>1, Unowned DEF SandboxState
<1>7. ASSUME NEW r \in Row, PauseIdle(c, r) \/ Keepalive(c, r) \/ Reconcile(c, r) PROVE Keep
  <2>1. /\ UNCHANGED <<storeVars, cloud>>
        /\ \E pc \in {"startPause", "keepalive", "list"} : Begin(c, pc, r)
    BY <1>7 DEF PauseIdle, Keepalive, Reconcile
  <2>2. {"startPause", "keepalive", "list"} \subseteq Quiet
    BY DEF Quiet, Pc, Acting, Deciding
  <2> QED
    BY <1>2, <2>1, <2>2
<1> QED
  BY <1>3, <1>4, <1>5, <1>6, <1>7

-----------------------------------------------------------------------------
(* The theorems.                                                           *)

\* A deadline passes only where no operation keeps it.
LEMMA DeadlineOwns ==
  ASSUME Prompt, IInv, OwnInv, NEW r \in Row, DeadlinePasses(r)
  PROVE  Keep
<1>1. /\ rows' = rows /\ co' = co /\ cloud' = cloud /\ overdue' = overdue \cup {r}
      /\ rows[r].state \in Transitional /\ Busy(r) = {}
  BY DEF DeadlinePasses, lifecycleVars
<1>2. ASSUME NEW c \in Coroutine PROVE Mine(c)'
  <2>1. Mine(c)
    BY DEF OwnInv
  <2>2. co[c].pc \in Acting => co[c].row # r
    <3> SUFFICES ASSUME co[c].pc \in Acting, co[c].row = r PROVE FALSE
      OBVIOUS
    <3>1. Home[c] = rows[r].owner
      BY <2>1 DEF Mine, Owns
    <3>2. co[c].pc \in OwnerPc
      BY DEF Acting, OwnerPc, CallPc
    <3>3. c \in Busy(r)
      BY <3>1, <3>2 DEF Busy
    <3> QED
      BY <1>1, <3>3
  <2>3. Owns(c)'
    BY <1>1, <2>1, <2>2 DEF Mine, Owns
  <2>4. Decides(c)' /\ Knows(c)'
    BY <1>1, <2>1 DEF Mine, Decides, Knows, SameVersion, Free, Up
  <2> QED
    BY <2>3, <2>4 DEF Mine
<1>3. UsableIsRunning' /\ Sole' /\ Born'
  BY <1>1 DEF OwnInv, UsableIsRunning, Sole, Born, Free
<1>4. Late'
  BY <1>1 DEF OwnInv, Late
<1> QED
  BY <1>1, <1>2, <1>3, <1>4, Calmly DEF OwnInv

\* Every step keeps the invariant; one that is not the platform's own disturbs no
\* sandbox that is lent.
LEMMA OwnStep ==
  ASSUME Prompt, IInv, LeakInv, OwnInv, [Next]_vars
  PROVE  OwnInv' /\ (Undisturbed \/ \E r \in Row : Vanish(r))
<1>1. ASSUME NEW c \in Coroutine, CoroutineStep(c) PROVE Keep
  <2>1. CASE DestroyCas(c) \/ Kill(c) \/ DeleteRow(c) \/ EndLeaseCas(c) \/ EndRow(c)
    BY <2>1, LifecycleOwns
  <2>2. CASE AllocatorNext(c)
    BY <2>2, AllocatorOwns
  <2>3. CASE MaintainerNext(c)
    <3>1. CASE \/ ReserveSlot(c) \/ Create(c) \/ RecordProvider(c) \/ Warm(c) \/ MarkReady(c)
               \/ CreateFailed(c) \/ BootFailed(c) \/ Discard(c)
      BY <3>1, CreateOwns
    <3>2. CASE \/ StartPause(c) \/ Pause(c) \/ PauseDone(c) \/ PauseFailed(c)
               \/ KeepaliveCas(c) \/ KeepaliveCall(c) \/ KeepGone(c) \/ KeepFailed(c)
      BY <3>2, IdleOwns
    <3>3. CASE \/ Adopt(c) \/ AdoptCas(c) \/ OrphanCheck(c)
               \/ ListPlatform(c) \/ KillOrphan(c) \/ DropVanished(c) \/ LeaveAlone(c)
      BY <3>3, RecoveryOwns
    <3>4. CASE \/ \E l \in LeaseId : ExpireLease(c, l)
               \/ \E r \in Row :
                    \/ RecoverStuck(c, r) \/ FixOrphan(c, r) \/ RetireOld(c, r) \/ DrainIdle(c, r)
                    \/ PauseIdle(c, r) \/ Keepalive(c, r) \/ Reconcile(c, r)
      BY <3>4, StartOwns
    <3> QED
      BY <2>3, <3>1, <3>2, <3>3, <3>4 DEF MaintainerNext
  <2> QED
    BY <1>1, <2>1, <2>2, <2>3 DEF CoroutineStep
<1>2. ASSUME NEW c \in Coroutine, NEW r \in Row, AdminDestroy(c, r) PROVE Keep
  BY <1>2, StartOwns
<1>3. ASSUME NEW c \in Coroutine, Crash(c) PROVE Keep
  <2>1. rows' = rows /\ overdue' = overdue /\ cloud' = cloud /\ Finish(c)
    BY <1>3 DEF Crash, storeVars
  <2> QED
    BY <2>1, NextAwait, Types, Leaves, Calmly DEF Quiet, Pc, Acting, Deciding
<1>4. ASSUME NEW r \in Row, Vanish(r) PROVE OwnInv'
  <2>1. /\ rows' = rows /\ overdue' = overdue /\ co' = co
        /\ cloud' = [cloud EXCEPT ![r] = "gone"] /\ cloud[r] # "none"
    BY <1>4 DEF Vanish, Live, storeVars
  <2>2. \A q \in Row : cloud'[q] = cloud[q] \/ (cloud[q] # "none" /\ cloud'[q] = "gone")
    BY <2>1, Types
  <2>3. ASSUME NEW c \in Coroutine PROVE Mine(c)'
    <3>1. Mine(c) /\ (co[c].pc \notin {"idle", "draw"} => co[c].row \in Row)
      BY Types DEF OwnInv
    <3>2. Owns(c)' /\ Decides(c)'
      BY <2>1, <3>1 DEF Mine, Owns, Decides, SameVersion, Free
    <3>3. Knows(c)'
      BY <2>1, <2>2, <3>1 DEF Mine, Knows, Up, SameVersion
    <3> QED
      BY <3>2, <3>3 DEF Mine
  <2>4. UsableIsRunning' /\ Sole' /\ Born' /\ Late'
    BY <2>1, <2>2 DEF OwnInv, UsableIsRunning, Sole, Born, Late, Free
  <2> QED
    BY <2>3, <2>4 DEF OwnInv
<1>5. CASE \/ Drain \/ Undrain
           \/ \E l \in LeaseId :
                \/ LeaseLapses(l)
                \/ PurgeLease(l) /\ UNCHANGED <<lifecycleVars, crashes>>
           \/ UNCHANGED vars
  <2>1. rows' = rows /\ overdue' = overdue /\ co' = co /\ cloud' = cloud
    BY <1>5 DEF Drain, Undrain, LeaseLapses, PurgeLease, lifecycleVars, storeVars, vars
  <2>2. ASSUME NEW c \in Coroutine PROVE Mine(c)'
    BY <2>1 DEF OwnInv, Mine, Owns, Decides, Knows, SameVersion, Free, Up
  <2>3. UsableIsRunning' /\ Sole' /\ Born' /\ Late'
    BY <2>1 DEF OwnInv, UsableIsRunning, Sole, Born, Late, Free
  <2> QED
    BY <2>1, <2>2, <2>3 DEF OwnInv, Undisturbed
<1> QED
  BY <1>1, <1>2, <1>3, <1>4, <1>5, DeadlineOwns DEF Next, Keep

\* The empty pool satisfies the invariant.
LEMMA OwnInit == Init => OwnInv
<1> SUFFICES ASSUME Init PROVE OwnInv
  OBVIOUS
<1> USE DEF Init, StoreInit, LifecycleInit
<1>1. UsableIsRunning /\ Born /\ Late
  BY DEF UsableIsRunning, Born, Late, Absent
<1>2. \A c \in Coroutine : co[c].pc = "idle"
  BY DEF Idle
<1>3. Sole /\ \A c \in Coroutine : Mine(c)
  BY <1>2 DEF Sole, Mine, Owns, Decides, Knows, Acting, Deciding
<1> QED
  BY <1>1, <1>3 DEF OwnInv

\* If live coroutines keep their deadlines, READY and LEASED mean running, whatever is
\* paused, resumed, taken over and adopted.
THEOREM UsableRuns == Prompt => (Spec => []UsableIsRunning)
<1> SUFFICES ASSUME Prompt PROVE Spec => []UsableIsRunning
  OBVIOUS
<1>1. IInv /\ LeakInv /\ OwnInv /\ [Next]_vars => OwnInv'
  BY OwnStep
<1>2. OwnInv => UsableIsRunning
  BY DEF OwnInv
<1> QED
  BY <1>1, <1>2, OwnInit, LeakInit, LeakStep, Invariance, PTL DEF Spec

\* Nor does any step of theirs pause, resume or kill a sandbox under an ACTIVE lease.
THEOREM LeasedUntouched == Prompt => (Spec => LeasedUndisturbed)
<1> SUFFICES ASSUME Prompt PROVE Spec => LeasedUndisturbed
  OBVIOUS
<1>1. IInv /\ LeakInv /\ OwnInv /\ [Next]_vars => OwnInv'
  BY OwnStep
<1>2. ASSUME IInv, LeakInv, OwnInv, [Next]_vars
      PROVE  \A l \in LeaseId :
               LET r == leases[l].row IN
               leases[l].state = "ACTIVE" /\ ~Vanish(r) => cloud'[r] = cloud[r]
  <2> SUFFICES ASSUME NEW l \in LeaseId, leases[l].state = "ACTIVE", ~Vanish(leases[l].row)
               PROVE  cloud'[leases[l].row] = cloud[leases[l].row]
    OBVIOUS
  <2>1. leases[l].row \in Row /\ rows[leases[l].row].state = "LEASED"
    BY <1>2 DEF IInv, StoreInv, LeaseInv
  <2>2. CASE Undisturbed
    BY <2>1, <2>2 DEF Undisturbed
  <2>3. ASSUME NEW r \in Row, Vanish(r) PROVE cloud'[leases[l].row] = cloud[leases[l].row]
    <3>1. r # leases[l].row
      BY <2>3
    <3> QED
      BY <1>2, <2>1, <2>3, <3>1, Types DEF Vanish
  <2> QED
    BY <1>2, <2>2, <2>3, OwnStep
<1>3. IInv /\ LeakInv /\ OwnInv /\ [Next]_vars =>
        [\A l \in LeaseId :
           LET r == leases[l].row IN
           leases[l].state = "ACTIVE" /\ ~Vanish(r) => cloud'[r] = cloud[r]]_vars
  BY <1>2
<1> QED
  BY <1>1, <1>3, OwnInit, LeakInit, LeakStep, Invariance, PTL DEF Spec, LeasedUndisturbed
=============================================================================
