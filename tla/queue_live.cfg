SPECIFICATION FairSpec
CONSTANTS
  Request = {q1, q2}
  Sandbox = {s1}
  NoRequest = NoRequest
  NoSandbox = NoSandbox
  QueueMax = 1
  StrictFifo = FALSE
  PauseEnabled = TRUE
  MaxAttempts = 2
  Patient = TRUE
  Punctual = TRUE
  MaxFaults = 1
VIEW Relevant
PROPERTIES EveryRequestAnswered GhostsLeave
CHECK_DEADLOCK FALSE
