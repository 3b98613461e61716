SPECIFICATION Spec
CONSTANTS
  RECORD_BUFF_SIZE = 2
  Writers = {w1}
  Loader = loader
  Dumper = dumper
  Readers = {r1}
  Keys = {0, 1}
  MaxWrites = 3
PROPERTIES
  ReadsOwnKey
CHECK_DEADLOCK FALSE
