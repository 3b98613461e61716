SPECIFICATION Spec
CONSTANTS
  RECORD_BUFF_SIZE = 2
  MEMTABLE_CO_WRITE_NUM = 2
  INT64_MAX = 9
  Keys = {0, 1}
  MaxWrites = 4
  Writers = {w1, w2}
  Loader = loader
  Dumper = dumper
INVARIANTS
  SingleHolder
  EntryPointsToItsRecord
  DumpGate
  NoLostSwitchWakeup
PROPERTIES
  RefinesBufferClients
CHECK_DEADLOCK FALSE
