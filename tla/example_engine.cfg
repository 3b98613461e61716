SPECIFICATION Spec
CONSTANTS
  kMaxDoorCnt = 2
  kSingleFileSize = 3
  Keys = {1, 2, 3}
  LongKeys = {}
  StrHash <- MCHash
  NoKey = 0
  Torn <- MCTorn
  Sizes = {2}
  Procs = {p1, p2}
  MaxWrites = 3
  MaxFaults = 2
SYMMETRY ProcSymmetry
INVARIANTS
  TypeOK
  EachKeyOnePlace
  ReadsWhatWasWritten
  RangeMatchesRead
CHECK_DEADLOCK FALSE
