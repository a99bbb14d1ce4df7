SPECIFICATION FairSpec
CONSTANTS
  Replica = {r1, r2}
  Task = {t1}
  Session = {s1}
  NoReplica = NoReplica
  NoTask = NoTask
  NoSession = NoSession
  MaxRunning = 1
  Patient = FALSE
  Punctual = TRUE
  DbPrompt = TRUE
  Lossy = FALSE
  MaxFaults = 2
PROPERTIES StopEnds
CHECK_DEADLOCK FALSE
