SPECIFICATION Spec
CONSTANTS
  Request = {q1, q2}
  Sandbox = {s1, s2}
  NoRequest = NoRequest
  NoSandbox = NoSandbox
  QueueMax = 1
  StrictFifo = FALSE
  PauseEnabled = TRUE
  MaxAttempts = 2
  Patient = FALSE
  Punctual = FALSE
  MaxFaults = 1
VIEW Relevant
SYMMETRY Symmetric
INVARIANTS TypeOK NothingLeftBehind AnsweredIsGranted
CHECK_DEADLOCK FALSE
