SPECIFICATION FairSpec
CONSTANTS
  Writers = {w1, w2}
  MEMTABLE_CO_WRITE_NUM = 3
  CanInsertCapacity = 2
  WaitForDumpCapacity = 2
  MaxDumps = 3
INVARIANTS
  TypeOK
  ListAccounting
  ListsForWriters
  LeftJobHasLog
PROPERTIES
  SubmitReturns
  SubmittedIsDumped
  StopReturns
CHECK_DEADLOCK FALSE
