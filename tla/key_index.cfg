SPECIFICATION Spec
CONSTANTS
  RECORD_BUFF_SIZE = 3
  SKIP_LIST_MAX_HEIGHT = 3
  SKIP_LIST_INIT_CAPACITY = 2
  ListId = 0
  HASH_TABLE_SIZE = 5
  hash_key <- MCHash
  Names <- MCNames
  KeyBytes = 2
  ByteBits = 2
  FilesBefore = {7425}
  MaxWrites = 4
INVARIANTS
  TypeOK
  ListsWellFormed
PROPERTIES
  RefinesKeyMap
CHECK_DEADLOCK FALSE
