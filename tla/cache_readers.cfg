SPECIFICATION Spec
CONSTANTS
  RECORD_BUFF_SIZE = 2
  Writers = {w1}
  Loader = loader
  Dumper = dumper
  Readers = {r1, r2, r3}
  Keys = {0, 1}
  MaxWrites = 4
SYMMETRY Symmetry
INVARIANTS
  TypeOK
  NobodyStranded
PROPERTIES
  ReadsFresh
CHECK_DEADLOCK FALSE
