SPECIFICATION Spec
CONSTANTS
  RECORD_BUFF_SIZE = 2
  MEMTABLE_CO_WRITE_NUM = 2
  INT64_MAX = 9
  Keys = {0, 1, 2}
  MaxWrites = 4
  Writers = {w1, w2}
INVARIANTS
  AckedOnDisk
CHECK_DEADLOCK FALSE
