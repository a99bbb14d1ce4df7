SPECIFICATION Spec
CONSTANTS
  Row = {s1}
  Replica = {r1, r2}
  Request = {q1}
  NoRow = NoRow
  NoReplica = NoReplica
  Limit = 1
  MaxVersion = 2
  MaxFaults = 1
SYMMETRY Symmetric
INVARIANTS ConfirmedIsApplied
CHECK_DEADLOCK FALSE
