CONSTANTS
  b1 = b1
  b2 = b2
  b3 = b3
  o1 = o1
  c1 = c1
  None = None
  OOIs = {o1}
  Boefjes = {b1, b3}
  plugin <- Plugin
  scan_level <- ScanLevel
  boefjes_for <- AllBoefjes
  MaxSize = 2
  Grace = 1
  Self = Self
  Clients = {c1}
  Jobs <- RankedJobs
  ServicesFail = FALSE
  ReportsStart = FALSE
  Kills = FALSE
  MaxMutations = 1
  MaxOlder = 1
SPECIFICATION Spec
INVARIANTS
  TypeOK
  DiesByRaceOnly
