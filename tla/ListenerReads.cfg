CONSTANTS
  None = None
  Messages = 5
  body <- BodyOf
  MaxDrops = 2
  MaxKills = 2
SPECIFICATION FairSpec
INVARIANTS
  TypeOK
  RepeatedByDrop
  LostByKill
PROPERTIES
  EveryMessageLeaves
