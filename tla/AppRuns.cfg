CONSTANTS
  Orgs = {"o1", "o2"}
  threads_of <- StatusThread
  ServicesFail = TRUE
  MaxChanges = 2
SPECIFICATION FairSpec
CHECK_DEADLOCK FALSE
INVARIANTS
  TypeOK
  OrphansEnd
  AddedCompletely
  AdditionsDoNotStop
PROPERTIES
  StopEnds
  NewOrganisationsAreServed
