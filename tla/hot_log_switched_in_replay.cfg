SPECIFICATION Spec
CONSTANTS
  Keys = {1, 2}
  RECORD_BUFF_SIZE = 2
  IOV_MAX = 2
  MaxWrites = 3
  MaxCrashes = 1
INVARIANTS
  LogReadBeforeSwitched
CHECK_DEADLOCK FALSE
