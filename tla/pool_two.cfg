SPECIFICATION Spec
CONSTANTS
  c1 = c1  c2 = c2  c3 = c3  a = a  b = b
  Coroutine = {c1, c2}
  Replica = {a, b}
  Home <- TwoReplicas
  Row = {r1, r2}
  LeaseId = {l1, l2}
  NoReplica = NoReplica
  NoLease = NoLease
  NoRow = NoRow
  Prompt = FALSE
  Limit = 1
  MinHot = 0
  MaxCrashes = 0
VIEW UpToVersions
SYMMETRY ReplicaSymmetric
INVARIANTS TypeOK ActiveLeaseHeld CapacityKept NoSilentLeak
PROPERTY ImplementsLending
CHECK_DEADLOCK FALSE
