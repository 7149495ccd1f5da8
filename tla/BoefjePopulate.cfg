CONSTANTS
  b1 = b1
  b2 = b2
  b3 = b3
  o1 = o1
  c1 = c1
  None = None
  OOIs = {o1}
  Boefjes = {b1}
  plugin <- Plugin
  scan_level <- ScanLevel
  boefjes_for <- AllBoefjes
  MaxSize = 1
  Grace = 3
  Self = Self
  Clients = {c1}
  Jobs <- RankedJobs
  ServicesFail = TRUE
  ReportsStart = TRUE
  Kills = TRUE
  MaxMutations = 0
  MaxOlder = 2
SPECIFICATION Spec
INVARIANTS
  OnlyLossBlocks
PROPERTIES
  SpacedByGrace
  FirstRunIsExclusive
