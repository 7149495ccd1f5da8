CONSTANTS
  b1 = b1
  b2 = b2
  b3 = b3
  o1 = o1
  c1 = c1
  None = None
  OOIs = {o1}
  Boefjes = {b1, b2}
  plugin <- Plugin
  scan_level <- ScanLevel
  boefjes_for <- AllBoefjes
  MaxSize = 1
  Grace = 1
  Self = Self
  Clients = {}
  Jobs = {}
  ServicesFail = FALSE
  ReportsStart = FALSE
  Kills = FALSE
  MaxMutations = 0
  MaxOlder = 1
SPECIFICATION FairSpec
PROPERTIES
  EveryTaskReturns
