SPECIFICATION Spec
CONSTANTS
  Replica = {r1, r2}
  Task = {t1, t2}
  Session = {s1}
  NoReplica = NoReplica
  NoTask = NoTask
  NoSession = NoSession
  MaxRunning = 2
  Patient = FALSE
  Punctual = TRUE
  DbPrompt = TRUE
  Lossy = TRUE
  MaxFaults = 1
SYMMETRY Symmetric
VIEW Relevant
INVARIANTS TypeOK EndedIsStopped OwnAnswer
PROPERTIES ImplementsTaskLife
CHECK_DEADLOCK FALSE
