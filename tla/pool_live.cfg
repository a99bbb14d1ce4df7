SPECIFICATION FairSpec
CONSTANTS
  c1 = c1  c2 = c2  c3 = c3  a = a  b = b
  Coroutine = {c1}
  Replica = {a}
  Home <- OneSlot
  Row = {r1}
  LeaseId = {l1}
  NoReplica = NoReplica
  NoLease = NoLease
  NoRow = NoRow
  Prompt = TRUE
  Limit = 1
  MinHot = 0
  MaxCrashes = 2
VIEW UpToVersions
PROPERTIES StuckIsRecovered LeaseIsReclaimed DrainEmpties OrphanIsKilled
CHECK_DEADLOCK FALSE
