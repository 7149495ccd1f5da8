CONSTANTS
  org1 = org1
  org2 = org2
  n1 = n1
  n2 = n2
  p1 = p1
  p2 = p2
  main = main
  None = None
  Orgs = {org1, org2}
  Plugins = {n1, n2}
  Threads <- TwoThreads
  Main = main
  Lifetime = 1
  MaxChanges = 1
SPECIFICATION FairSpec
CHECK_DEADLOCK FALSE
INVARIANTS
  TypeOK
  SettledIsComplete
  OneFlush
  DiesOnlyIfOutlasted
PROPERTIES
  EventuallyCurrent
