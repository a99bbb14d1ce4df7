SPECIFICATION Spec
CONSTANTS
  Request = {q1, q2, q3, q4}
  Sandbox = {s1, s2}
  NoRequest = NoRequest
  NoSandbox = NoSandbox
  QueueMax = 1
  StrictFifo = TRUE
  PauseEnabled = FALSE
  MaxAttempts = 2
  Patient = TRUE
  Punctual = TRUE
  MaxFaults = 0
SYMMETRY Symmetric
INVARIANTS QueueBound
PROPERTIES FirstCome
CHECK_DEADLOCK FALSE
