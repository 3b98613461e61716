------------------------------ MODULE KeyIndex ------------------------------
(***************************************************************************)
(* How names lead to records: get_key, the words of class Index, the hash  *)
(* table of class Indexer and the nodes of the skip lists, as one writer   *)
(* and the dumper use them.  The locks, logs and queues, which DBSystem    *)
(* has, are left out; a write, and a row of a dump, is one step.           *)
(*                                                                         *)
(* With one writer get_memtable always takes the first list, and the       *)
(* others stay empty; switch_log lets no dump begin before the last ended. *)
(***************************************************************************)
EXTENDS Buffer, SkipList, IndexHashMap

CONSTANTS
  Names,            \* the names written, sequences of bytes
  KeyBytes,         \* bytes of a key: 8
  ByteBits,         \* bits of a byte: 8
  FilesBefore,      \* how many files the manifest may list at the start
  MaxWrites         \* bound: number of calls of write

KeyBits   == KeyBytes * ByteBits
INT64_MAX == 2 ^ (KeyBits - 1) - 1

\* ASCII names: a byte with its highest bit set would set the bits above it.
ASSUME KeyIndexAssumption ==
  /\ KeyBytes \in Nat \ {0, 1} /\ ByteBits \in 1 .. 31
  /\ Names \subseteq [1 .. KeyBytes -> 0 .. 2 ^ (ByteBits - 1) - 1]
  /\ FilesBefore \subseteq Nat
  /\ MaxWrites \in Nat

\* What 2 ^ b is; the provers only know the powers that they can compute.
ASSUME PowersDouble == \A b \in 0 .. KeyBits - 1 : 2 ^ (b + 1) = 2 * 2 ^ b

VARIABLES
  current,       \* the list that is written to
  curr_writing,  \* the list being dumped, or none
  kvs,           \* the nodes of curr_writing popped so far
  rows,          \* how many of them are in the file
  dpc,           \* where the dumper is
  records_num,   \* files in the manifest
  writes,        \* number of calls of write
  aborted        \* an assertion has ended the process

dumperVars == <<curr_writing, kvs, rows, dpc>>
vars == <<bufferVars, data, current, dumperVars, records_num, writes, aborted>>

NoList == [sk_data |-> << >>, sk_capacity |-> << >>]

\* A char made a KEY_T: the sign fills the bits above it.
SignExtended(c) ==
  Bits(c) \cup (IF c >= 2 ^ (ByteBits - 1) THEN ByteBits .. KeyBits - 1 ELSE {})

\* Each byte is shifted into its place and or'ed to the key; the first is the highest.
Shifted(name, i) == {b + (KeyBytes - i) * ByteBits : b \in SignExtended(name[i])}

get_key(name) ==
  Number((UNION {Shifted(name, i) : i \in 1 .. KeyBytes}) \cap (0 .. KeyBits - 1))

BufferIndex(slot)   == SetIdx(SetFid(NewIndex, 0), slot)
FileIndex(fid, row) == SetInFile(SetIdx(SetFid(NewIndex, fid), row))

Init ==
  /\ BufferInit
  /\ data = EmptyData
  /\ current = NewList
  /\ curr_writing = NoList /\ kvs = << >> /\ rows = 0 /\ dpc = "idle"
  /\ records_num \in FilesBefore
  /\ writes = 0 /\ aborted = FALSE

IsFull == CntNs(current) >= RECORD_BUFF_SIZE

\* write: a slot, the table, and the list, where a new key gets a height.
Write(name, height) ==
  LET key == get_key(name)
  IN  /\ writes < MaxWrites /\ ~ IsFull
      /\ HasEntry(key)
      /\ \E slot \in Slots :
           /\ RequestSlot(slot)
           /\ UpdateTable(key, BufferIndex(slot))
           /\ current' = UpdateList(current, key, BufferIndex(slot), height)
      /\ writes' = writes + 1
      /\ UNCHANGED <<accessing, dumperVars, records_num, aborted>>

\* The table has no entry for the key.
TableFull(name) ==
  /\ writes < MaxWrites /\ ~ IsFull
  /\ ~ HasEntry(get_key(name))
  /\ \E slot \in Slots : RequestSlot(slot)
  /\ writes' = writes + 1
  /\ aborted' = TRUE
  /\ UNCHANGED <<accessing, data, current, dumperVars, records_num>>

\* The write that fills the list submits it, once the last dump has ended.
SubmitDump ==
  /\ IsFull /\ dpc = "idle"
  /\ curr_writing' = current /\ current' = NewList
  /\ dpc' = "merge"
  /\ UNCHANGED <<bufferVars, data, kvs, rows, records_num, writes, aborted>>

\* The merge goes on while the first key is below the value it starts from.
HasSmallest ==
  LET n == FrontLvl0(curr_writing)
  IN  n # 0 /\ curr_writing.sk_data[0][n].key < INT64_MAX

MergeRound ==
  /\ dpc = "merge" /\ HasSmallest
  /\ kvs' = Append(kvs, FrontLvl0(curr_writing))
  /\ curr_writing' = PopLvl0(curr_writing)
  /\ UNCHANGED <<bufferVars, data, current, rows, dpc, records_num, writes, aborted>>

MergeDone ==
  /\ dpc = "merge" /\ ~ HasSmallest
  /\ dpc' = "dump"
  /\ UNCHANGED <<bufferVars, data, current, curr_writing, kvs, rows, records_num, writes,
                 aborted>>

\* A turn of the loop of dump_all: the slot of the record is given back, and
\* the key's index becomes that of the row.
DumpRow ==
  /\ dpc = "dump" /\ rows < Len(kvs)
  /\ LET node == curr_writing.sk_data[0][kvs[rows + 1]]
     IN  /\ ReleaseSlot(GetIdx(node.idx))
         /\ HasEntry(node.key)
         /\ UpdateTable(node.key, FileIndex(records_num, rows))
  /\ rows' = rows + 1
  /\ UNCHANGED <<accessing, current, curr_writing, kvs, dpc, records_num, writes, aborted>>

\* insert_record and end_dumping.
EndDumping ==
  /\ dpc = "dump" /\ rows = Len(kvs)
  /\ records_num' = records_num + 1
  /\ curr_writing' = NoList /\ kvs' = << >> /\ rows' = 0 /\ dpc' = "idle"
  /\ UNCHANGED <<bufferVars, data, current, writes, aborted>>

\* A key that has its node gets no other height.
Heights(name) == IF Find(current, get_key(name)) > 0 THEN {1} ELSE 1 .. SKIP_LIST_MAX_HEIGHT

Next ==
  /\ ~ aborted
  /\ \/ \E name \in Names : TableFull(name) \/ \E height \in Heights(name) : Write(name, height)
     \/ SubmitDump \/ MergeRound \/ MergeDone \/ DumpRow \/ EndDumping

Spec == Init /\ [][Next]_vars

-----------------------------------------------------------------------------
\* A level always has a free node: insert_after asserts it.
IsLevel(level, capacity) ==
  LET nodes == 0 .. Cardinality(DOMAIN level) - 1
  IN  /\ level \in [nodes -> [key : Nat, idx : SUBSET (0 .. 31), next : nodes, bottom : Nat]]
      /\ capacity \in 1 .. Cardinality(nodes) - 1

IsList(l) ==
  /\ DOMAIN l.sk_data = Levels /\ DOMAIN l.sk_capacity = Levels
  /\ \A i \in Levels : IsLevel(l.sk_data[i], l.sk_capacity[i])

TypeOK ==
  /\ BufferTypeOK
  /\ data \in [Entries -> [key : Nat, idx : SUBSET (0 .. 31)]]
  /\ IsList(current)
  /\ dpc \in {"idle", "merge", "dump"}
  /\ curr_writing = NoList \/ IsList(curr_writing)
  /\ kvs \in Seq(Nat) /\ rows \in 0 .. Len(kvs)
  /\ records_num \in Nat /\ writes \in 0 .. MaxWrites /\ aborted \in BOOLEAN

\* The two chains of a level share no node and leave none out, through inserts,
\* growth and pops, and the counters agree: that of the free nodes, which
\* pop_lvl_0 leaves alone, and the number of records cnt_ns makes of it.
Accounted(level, free) ==
  /\ Records(level) \cap Free(level) = {}
  /\ Records(level) \cup Free(level) = DOMAIN level \ {0}
  /\ Cardinality(Free(level)) = free

NodesAccounted ==
  /\ \A i \in Levels : Accounted(current.sk_data[i], current.sk_capacity[i])
  /\ CntNs(current) = Cardinality({name \in Names : Find(current, get_key(name)) > 0})
  /\ curr_writing # NoList =>
       Accounted(curr_writing.sk_data[0], curr_writing.sk_capacity[0] + Len(kvs))

\* What a search relies on: along a level the keys grow, and the bottom of a
\* node is the node of the same key on the level below.
LevelsNest ==
  \A i \in Levels : \A n \in Records(current.sk_data[i]) :
    LET level == current.sk_data[i]
        node  == level[n]
    IN  /\ node.next # 0 => node.key < level[node.next].key
        /\ i > 0 => /\ node.bottom \in Records(current.sk_data[i - 1])
                    /\ current.sk_data[i - 1][node.bottom].key = node.key

\* Through inserts, growth, overwrites and pops the lists stay what inserts,
\* searches, pops and cnt_ns take them for.
ListsWellFormed == NodesAccounted /\ LevelsNest

-----------------------------------------------------------------------------
(* The promise *)

Keys == 0 .. INT64_MAX

\* Where a word says that the record is, and so where get finds a key's.
Decoded == [w \in SUBSET (0 .. 31) |->
  IF IfInFile(w) THEN [where |-> "file", file |-> GetFid(w), row |-> GetIdx(w)]
                 ELSE [where |-> "cache", slot |-> GetIdx(w)]]

PlaceOf == [key \in Keys |-> IF InTable(key) THEN Decoded[IndexOf(key)] ELSE [where |-> "nowhere"]]

\* The node that a search of the current list finds, and the one the dumper has
\* yet to write to the file; -1 if there is none.
Listed == [key \in Keys |-> Find(current, key)]

Pending == [key \in Keys |->
  LET nodes == Records(curr_writing.sk_data[0]) \cup {kvs[i] : i \in rows + 1 .. Len(kvs)}
  IN  IF dpc = "idle" THEN -1
      ELSE Max({-1} \cup {n \in nodes : curr_writing.sk_data[0][n].key = key})]

SlotsOf(node, l) ==
  [name \in {m \in Names : node[get_key(m)] # -1} |-> GetIdx(Word(l, node[get_key(name)]))]

Map == INSTANCE KeyMap WITH
  NamedFiles <- 256,
  place <- [name \in Names |-> PlaceOf[get_key(name)]],
  list <- SlotsOf(Listed, current), dumping <- SlotsOf(Pending, curr_writing),
  row <- rows, files <- records_num

\* Every name is found, under its own key and where its last write or its last
\* dump left it: names do not share keys, keys do not share entries or nodes,
\* words keep their parts apart, and a file's rows are in the order of names.
RefinesKeyMap == Map!Spec
=============================================================================
