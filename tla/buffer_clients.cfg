SPECIFICATION Spec
CONSTANTS
  RECORD_BUFF_SIZE = 3
  Writers = {w1, w2, w3}
  Loader = loader
  Dumper = dumper
INVARIANTS
  TypeOK
  SlotAccounting
  ExclusiveAccess
  OneSleeperPerDump
  NoLostSlotWakeup
PROPERTIES
  AccessServed
