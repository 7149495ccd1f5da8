CONSTANTS
  None = None
  Statuses = {"queued", "completed"}
  Limits = {0, 1, 2}
  MaxTasks = 4
  MaxMoves = 2
SPECIFICATION FairSpec
INVARIANTS
  TypeOK
  
  
PROPERTIES
  WalkEnds
