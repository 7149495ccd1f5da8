CONSTANTS
  i1 = i1
  i2 = i2
  i3 = i3
  h1 = h1
  h2 = h2
  t1 = t1
  t2 = t2
  None = None
  Ids <- OneTask
  Hashes <- TwoHashes
  Priorities <- TwoPriorities
  create_hash <- HashOf
  PushItems <- HashedItems
  Filters <- NoFilter
  Pushers = {"push"}
  Poppers = {"pop"}
  Patchers = {"patch"}
  MaxSize = 2
  allow_replace = FALSE
  allow_updates = FALSE
  allow_priority_updates = TRUE
  PatchStatuses = {"completed", "failed"}
  MaxPushes = 2
  MaxCrashes = 0
SPECIFICATION FairSpec
CHECK_DEADLOCK FALSE
INVARIANTS
  DuplicateBound
  WaitingIsQueued
PROPERTIES
  OutcomeIsFinal
  EveryItemIsDelivered
