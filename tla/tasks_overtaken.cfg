SPECIFICATION Spec
CONSTANTS
  Replica = {r1, r2}
  Task = {t1, t2}
  Session = {s1}
  NoReplica = NoReplica
  NoTask = NoTask
  NoSession = NoSession
  MaxRunning = 2
  Patient = TRUE
  Punctual = FALSE
  DbPrompt = TRUE
  Lossy = TRUE
  MaxFaults = 0
SYMMETRY Symmetric
VIEW Commands
INVARIANTS OneTaskPerSession
PROPERTIES AbortHitsItsTask
CHECK_DEADLOCK FALSE
