SPECIFICATION Spec
CONSTANTS
  c1 = c1  c2 = c2  c3 = c3  a = a  b = b
  Coroutine = {c1, c2, c3}
  Replica = {a, b}
  Home <- ThreeSlots
  Row = {r1}
  LeaseId = {l1}
  NoReplica = NoReplica
  NoLease = NoLease
  NoRow = NoRow
  Prompt = TRUE
  Limit = 1
  MinHot = 0
  MaxCrashes = 1
VIEW UpToVersions
SYMMETRY SameHomeSymmetric
INVARIANTS UsableIsRunning
PROPERTY LeasedUndisturbed
CHECK_DEADLOCK FALSE
