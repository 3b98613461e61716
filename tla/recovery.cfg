SPECIFICATION FairSpec
CONSTANTS
  Keys = {1, 2, 3}
  RECORD_BUFF_SIZE = 3
  IOV_MAX = 2
  MaxWrites = 5
  MaxCrashes = 2
INVARIANTS
  TypeOK
  ListedAreComplete
  AckedSurvives
PROPERTIES
  InitEnds
CHECK_DEADLOCK FALSE
