SPECIFICATION Spec
CONSTANTS
  Row = {s1, s2}
  Replica = {r1}
  Request = {q1, q2}
  NoRow = NoRow
  NoReplica = NoReplica
  Limit = 2
  MaxVersion = 2
  MaxFaults = 1
VIEW Relevant
SYMMETRY Symmetric
INVARIANTS TypeOK OneBound ReloadIsAlone RecordedIsKilled
PROPERTIES TasksSpared
CHECK_DEADLOCK FALSE
