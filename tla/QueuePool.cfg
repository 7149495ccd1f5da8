CONSTANTS
  i1 = i1
  i2 = i2
  i3 = i3
  h1 = h1
  h2 = h2
  t1 = t1
  t2 = t2
  None = None
  Ids <- ThreeIds
  Hashes <- TwoHashes
  Priorities <- TwoPriorities
  create_hash <- HashOf
  PushItems <- MixedItems
  Filters <- FilterOnHash
  Pushers = {t1, t2}
  Poppers = {t1, t2}
  Patchers = {}
  MaxSize = 1
  allow_replace = FALSE
  allow_updates = FALSE
  allow_priority_updates = TRUE
  PatchStatuses = {"completed", "failed"}
  MaxPushes = 2
  MaxCrashes = 1
SPECIFICATION Spec
SYMMETRY ThreadSymmetry
CHECK_DEADLOCK FALSE
INVARIANTS
  TypeOK
  SizeBound
  RowIsRecorded
  HashedUnlessUpdated
  CopiesBound
  NothingLost
PROPERTIES
  ImplementsTaskQueue
