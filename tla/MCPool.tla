------------------------------- MODULE MCPool -------------------------------
(* Small instances of SandboxPool.                                          *)
EXTENDS SandboxPool, TLC

CONSTANTS c1, c2, c3, a, b

OneSlot == c1 :> a
TwoReplicas == c1 :> a @@ c2 :> b
ThreeSlots == c1 :> a @@ c2 :> a @@ c3 :> b
Symmetric == Permutations(Row) \cup Permutations(LeaseId)
\* In TwoReplicas the replicas are interchangeable, each with its coroutine.
SwapReplicas == c1 :> c2 @@ c2 :> c1 @@ a :> b @@ b :> a
ReplicaSymmetric == Symmetric \cup {SwapReplicas}
\* c1 and c2 belong to the same replica.
SameHomeSymmetric == Symmetric \cup Permutations({c1, c2})

(* A version is only ever compared for equality with the one a coroutine has *)
(* read, a stale snapshot is only found to be stale, and a local variable    *)
(* matters only while a later step of the operation reads it.  States that   *)
(* agree on the rest have the same behaviours, so the runs for safety        *)
(* identify them.                                                            *)
Snapshot(c) ==
  LET s == co[c].snap
      r == co[c].row IN
  IF \/ co[c].pc \notin {"destroy", "discardRow", "adminEnd", "claim", "adopt",
                         "adoptCas", "orphan", "startPause", "keepalive", "list",
                         "listed"}
     \/ s.version # rows[r].version THEN "stale"
  ELSE IF s = rows[r] THEN "same" ELSE [s EXCEPT !.version = 0]

Locals(c) ==
  <<co[c].pc, co[c].row, Snapshot(c),
    IF co[c].pc \in {"endLease", "adminEnd", "endRow", "setTimeout"} THEN co[c].lease ELSE NoLease,
    IF co[c].pc \in {"endLease", "adminEnd", "adoptCas", "listed"} THEN co[c].to ELSE "-">>

UpToVersions ==
  <<[r \in Row |-> [rows[r] EXCEPT !.version = 0]], overdue, leases,
    {l \in lapsed : leases[l].state = "ACTIVE"}, draining, cloud, crashes,
    [c \in Coroutine |-> Locals(c)]>>
=============================================================================
