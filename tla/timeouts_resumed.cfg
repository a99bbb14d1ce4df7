SPECIFICATION PartsSpec
CONSTANTS
  Parts = {"timeouts"}
  Session = {s1, s2}
  Call = {c1, c2}
  NoSession = NoSession
  Starter = Starter
  MaxProcs = 1
  MaxStarts = 2
  MaxRuns = 2
  MaxFaults = 1
  MaxTask = 2
  MaxMessages = 1
  MaxPieces = 2
  Replica = {s1, s2}
  Edit = {e1}
  Firing = {c1, c2}
  MaxTime = 3
  Grace = 0
  Minutes = 2
  Hours = 5
  Weekdays = 2
  Months = 2
  SearchDays = 8
  Change = 13
  LastAfter = 20
  Holder = {h1}
  ReadyTimeout = 2
  Ttls = {1, 3}
  LeaseMax = 4
  Margin = 1
  MaxClock = 4
VIEW Moving
SYMMETRY Symmetric
INVARIANTS RereadSuffices
CHECK_DEADLOCK FALSE
