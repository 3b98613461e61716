--------------------------- MODULE DBSystemProofs ---------------------------
(***************************************************************************)
(* What DBSystem promises for every number of writers, slots, keys, lists, *)
(* and every bound on the writes: its types, the gate of the died log, who *)
(* holds which slot of the record cache while the engine works, and that   *)
(* the engine is a client of the cache as BufferClients describes them.    *)
(* From OneWriter on, what it promises while one thread writes.            *)
(***************************************************************************)
EXTENDS DBSystemRefinement, BufferLemmas, FiniteSetTheorems, SequenceTheorems,
        WellFoundedInduction, TLAPS

-----------------------------------------------------------------------------
(* Type correctness, with what it takes to be inductive: how far a writer   *)
(* or the dumper has come says which of its variables are set.              *)

CacheOK == BufferTypeOK /\ data \in [Slots -> Records \cup {NoRecord}]

HashOK == hash \in [Keys -> Indexes \cup {NoIndex}]

MemOK ==
  /\ lists \in [Gens -> [Tables -> Lists]]
  /\ gen \in Gens
  /\ wait_for_dump \in Seq(Gens)

LogOK ==
  /\ hot \subseteq Records /\ died \subseteq Records
  /\ log_open \in BOOLEAN /\ died_exists \in BOOLEAN
  /\ wait_switch_log \subseteq Writers

GhostOK == acked \subseteq Records /\ writes \in 0 .. MaxWrites

WriterOK ==
  /\ pc \in [Writers -> WriterLabels]
  /\ rec \in [Writers -> Records \cup {NoRecord}]
  /\ idx \in [Writers -> Slots \cup {NoSlot}]
  /\ table \in [Writers -> Gens \X (Tables \cup {0})]
  /\ \A w \in Writers : pc[w] # "idle" => rec[w] \in Records
  /\ \A w \in Writers : Owns(w) => idx[w] \in Slots
  /\ \A w \in Writers : pc[w] \in {"probe", "update"} => table[w][2] \in Tables

DumperOK ==
  /\ dpc \in DumperLabels
  /\ curr_writing \in [gen : Gens, tables : Seq(Tables)]
  /\ kvs \in Seq(Kvs)
  /\ file \in Files
  /\ dpc \in {"access", "inside"} => Len(file.vals) < Len(kvs)
  /\ dpc \in {"ending", "hash"} => Len(file.vals) \in 1 .. Len(kvs)

SstOK == ssts \in Seq(SstRecords)

TypeInv ==
  /\ CacheOK /\ HashOK /\ MemOK /\ LogOK /\ SstOK
  /\ GhostOK /\ WriterOK /\ DumperOK

LEMMA TypeInvImpliesTypeOK == TypeInv => TypeOK
BY DEF TypeInv, CacheOK, HashOK, MemOK, LogOK, GhostOK, WriterOK, DumperOK,
   SstOK, TypeOK

\* A list stays a list of slots by key when a node is updated or popped.
LEMMA ListLemma ==
  ASSUME NEW l \in Lists, NEW k \in Keys, NEW s \in Slots
  PROVE  ListUpdate(l, k, s) \in Lists /\ ListPop(l, k) \in Lists
<1>1. PICK D \in SUBSET Keys : l \in [D -> Slots]
  BY DEF Lists
<1>2. ListUpdate(l, k, s) \in [D \cup {k} -> Slots]
  BY <1>1 DEF ListUpdate
<1>3. ListPop(l, k) \in [D \ {k} -> Slots]
  BY <1>1 DEF ListPop
<1>4. D \cup {k} \in SUBSET Keys /\ D \ {k} \in SUBSET Keys
  BY <1>1
<1> QED BY <1>2, <1>3, <1>4 DEF Lists

\* Deleting an element of a sequence leaves a sequence over the same set.
LEMMA RemoveAtLemma ==
  ASSUME NEW S, NEW q \in Seq(S), NEW i \in DOMAIN q
  PROVE  RemoveAt(q, i) \in Seq(S)
<1>1. Len(q) \in Nat /\ i \in 1 .. Len(q) /\ \A j \in 1 .. Len(q) : q[j] \in S
  BY LenProperties, ElementOfSeq
<1>2. SubSeq(q, 1, i - 1) \in Seq(S)
  <2>1. i - 1 \in Int /\ \A j \in 1 .. i - 1 : q[j] \in S
    BY <1>1
  <2> QED BY <2>1, SubSeqProperties
<1>3. SubSeq(q, i + 1, Len(q)) \in Seq(S)
  <2>1. i + 1 \in Int /\ Len(q) \in Int /\ \A j \in i + 1 .. Len(q) : q[j] \in S
    BY <1>1
  <2> QED BY <2>1, SubSeqProperties
<1> QED BY <1>2, <1>3, ConcatProperties DEF RemoveAt

\* The free list stays a list of slots.
LEMMA RequestSlotType ==
  ASSUME BufferTypeOK, NEW s \in Slots, RequestSlot(s)
  PROVE  idxes_empty' \in Seq(Slots) /\ idxes_wrote' \in SUBSET Slots
<1>1. /\ idxes_empty \in Seq(Slots) /\ Len(idxes_empty) - 1 \in Int
      /\ \A i \in 1 .. Len(idxes_empty) - 1 : idxes_empty[i] \in Slots
  BY ElementOfSeq, LenProperties DEF BufferTypeOK
<1>2. SubSeq(idxes_empty, 1, Len(idxes_empty) - 1) \in Seq(Slots)
  BY <1>1, SubSeqProperties
<1> QED BY <1>2 DEF RequestSlot, Front, BufferTypeOK

LEMMA ReleaseSlotType ==
  ASSUME BufferTypeOK, NEW s \in Slots, ReleaseSlot(s)
  PROVE  idxes_empty' \in Seq(Slots) /\ idxes_wrote' \in SUBSET Slots
<1>1. <<s>> \o idxes_empty \in Seq(Slots)
  BY DEF BufferTypeOK
<1> QED BY <1>1 DEF ReleaseSlot, BufferTypeOK

LEMMA InitTypeInv == Init => TypeInv
<1> SUFFICES ASSUME Init PROVE TypeInv
  OBVIOUS
<1> USE DBSystemAssumption, BuffSizeAssumption DEF Init
<1>1. CacheOK
  <2>1. idxes_empty \in Seq(Slots)
    BY DEF BufferInit, Slots
  <2>2. idxes_wrote \in SUBSET Slots /\ accessing \in [Slots -> {0, 1}]
    BY DEF BufferInit
  <2> QED BY <2>1, <2>2 DEF CacheOK, BufferTypeOK
<1>2. HashOK /\ SstOK /\ GhostOK
  BY DEF HashOK, SstOK, GhostOK
<1>6. LogOK
  BY Zenon DEF LogOK
<1>3. MemOK
  <2>1. EmptyList \in Lists
    <3>1. EmptyList \in [{} -> Slots] BY DEF EmptyList
    <3> QED BY <3>1 DEF Lists
  <2>2. 0 \in Gens BY DEF Gens
  <2> QED BY <2>1, <2>2 DEF MemOK
<1>4. WriterOK
  BY DEF WriterOK, WriterLabels, NoTable, Gens, Owns
<1>5. DumperOK
  BY DEF DumperOK, DumperLabels, NoJob, NoFile, Gens, Files
<1> QED BY <1>1, <1>2, <1>3, <1>4, <1>5, <1>6 DEF TypeInv

\* What a step leaves alone keeps its types.
LEMMA Untouched ==
  ASSUME TypeInv
  PROVE  /\ UNCHANGED cacheVars => CacheOK'
         /\ UNCHANGED hash => HashOK'
         /\ UNCHANGED memVars => MemOK'
         /\ UNCHANGED logVars => LogOK'
         /\ UNCHANGED ssts => SstOK'
         /\ UNCHANGED ghostVars => GhostOK'
         /\ UNCHANGED writerVars => WriterOK'
         /\ UNCHANGED dumperVars => DumperOK'
<1> USE DEF TypeInv
<1>1. UNCHANGED cacheVars => CacheOK'
  BY DEF CacheOK, cacheVars, bufferVars, BufferTypeOK
<1>2. UNCHANGED hash => HashOK'
  BY DEF HashOK
<1>3. UNCHANGED memVars => MemOK'
  BY DEF MemOK, memVars
<1>4. UNCHANGED logVars => LogOK'
  BY Zenon DEF LogOK, logVars
<1>5. UNCHANGED ghostVars => GhostOK'
  BY DEF GhostOK, ghostVars
<1>6. UNCHANGED writerVars => WriterOK'
  BY DEF WriterOK, writerVars, Owns
<1>7. UNCHANGED dumperVars => DumperOK'
  BY DEF DumperOK, dumperVars
<1>8. UNCHANGED ssts => SstOK'
  BY DEF SstOK
<1> QED BY <1>1, <1>2, <1>3, <1>4, <1>5, <1>6, <1>7, <1>8

LEMMA UndefinedType ==
  ASSUME TypeInv, NEW reason, Undefined(reason)
  PROVE  TypeInv'
BY Untouched DEF Undefined, TypeInv

\* The steps of a writer up to its insert into a list.
LEMMA FillTypes ==
  ASSUME TypeInv, NEW w \in Writers,
         \/ StartWrite(w) \/ RequestBuff(w) \/ WriteAccess(w) \/ Copy(w) \/ WriteHash(w)
         \/ GetMemtable(w) \/ ProbeLocked(w) \/ ProbeFree(w) \/ ListInsert(w)
  PROVE  TypeInv'
<1> USE DBSystemAssumption, Untouched DEF TypeInv, Goto
<1>0. WriterOK /\ CacheOK /\ MemOK /\ LogOK /\ HashOK /\ GhostOK
  OBVIOUS
<1>1. ASSUME NEW k \in Keys, LogAppend(w, k) PROVE TypeInv'
  <2> DEFINE r == [key |-> k, val |-> writes + 1]
  <2>1. r \in Records /\ writes' = writes + 1 /\ writes' \in 0 .. MaxWrites
    BY <1>0, <1>1 DEF LogAppend, GhostOK, Records
  <2>2. hot' \subseteq Records
    BY <1>0, <1>1, <2>1 DEF LogAppend, LogOK
  <2>3. WriterOK'
    BY <1>0, <1>1, <2>1 DEF LogAppend, WriterOK, WriterLabels, Owns
  <2>4. LogOK' /\ GhostOK'
    BY <1>0, <1>1, <2>1, <2>2 DEF LogAppend, LogOK, GhostOK
  <2> QED BY <1>1, <2>3, <2>4 DEF LogAppend
<1>2. CASE RequestBuff(w)
  <2>1. PICK s \in Slots : RequestSlot(s) /\ idx' = [idx EXCEPT ![w] = s]
    BY <1>2 DEF RequestBuff
  <2>2. CacheOK'
    BY <1>0, <1>2, <2>1, RequestSlotType DEF CacheOK, BufferTypeOK, RequestBuff
  <2>3. WriterOK'
    BY <1>0, <1>2, <2>1 DEF RequestBuff, WriterOK, WriterLabels, Owns
  <2> QED BY <1>2, <2>2, <2>3 DEF RequestBuff
<1>3. CASE WriteAccess(w)
  <2>1. CacheOK'
    BY <1>0, <1>3 DEF WriteAccess, LockSlot, CacheOK, BufferTypeOK
  <2>2. WriterOK'
    BY <1>0, <1>3 DEF WriteAccess, WriterOK, WriterLabels, Owns
  <2> QED BY <1>3, <2>1, <2>2 DEF WriteAccess
<1>4. CASE Copy(w)
  <2>1. CacheOK'
    BY <1>0, <1>4 DEF Copy, UnlockSlot, CacheOK, BufferTypeOK, WriterOK
  <2>2. WriterOK'
    BY <1>0, <1>4 DEF Copy, WriterOK, WriterLabels, Owns
  <2> QED BY <1>4, <2>1, <2>2 DEF Copy
<1>5. CASE WriteHash(w)
  <2>1. BufferIndex(idx[w]) \in Indexes
    BY <1>0, <1>5 DEF WriteHash, WriterOK, Owns, BufferIndex, Indexes, Slots
  <2>2. HashOK'
    BY <1>0, <1>5, <2>1 DEF WriteHash, HashOK
  <2>3. WriterOK'
    BY <1>0, <1>5 DEF WriteHash, WriterOK, WriterLabels, Owns
  <2> QED BY <1>5, <2>2, <2>3 DEF WriteHash
<1>6. CASE GetMemtable(w)
  <2>1. <<gen, 1>> \in Gens \X (Tables \cup {0}) /\ 1 \in Tables
    BY <1>0 DEF MemOK, Tables
  <2>2. WriterOK'
    BY <1>0, <1>6, <2>1 DEF GetMemtable, WriterOK, WriterLabels, Owns
  <2> QED BY <1>6, <2>2 DEF GetMemtable
<1>7. CASE ProbeLocked(w)
  <2>1. /\ table[w] \in Gens \X (Tables \cup {0}) /\ table[w][2] \in Tables
        /\ table[w] = <<table[w][1], table[w][2]>>
    BY <1>0, <1>7 DEF ProbeLocked, WriterOK
  <2> DEFINE t == IF table[w][2] = MEMTABLE_CO_WRITE_NUM THEN 1 ELSE table[w][2] + 1
  <2>2. t \in Tables
    BY <2>1 DEF Tables
  <2>3. table' = [table EXCEPT ![w] = <<table[w][1], t>>]
    <3>1. table' = [table EXCEPT ![w] = [table[w] EXCEPT ![2] = t]]
      BY <1>7 DEF ProbeLocked
    <3>2. [table[w] EXCEPT ![2] = t] = <<table[w][1], t>>
      BY <2>1
    <3> QED BY <3>1, <3>2
  <2>4. WriterOK'
    BY <1>0, <1>7, <2>1, <2>2, <2>3 DEF ProbeLocked, WriterOK, WriterLabels, Owns
  <2> QED BY <1>7, <2>4 DEF ProbeLocked
<1>8. CASE ProbeFree(w)
  <2>1. WriterOK'
    BY <1>0, <1>8 DEF ProbeFree, WriterOK, WriterLabels, Owns
  <2> QED BY <1>8, <2>1 DEF ProbeFree
<1>9. CASE ListInsert(w)
  <2> DEFINE g == table[w][1]
             t == table[w][2]
             l == ListUpdate(lists[g][t], rec[w].key, idx[w])
  <2>1. g \in Gens /\ t \in Tables /\ rec[w].key \in Keys /\ idx[w] \in Slots
    BY <1>0, <1>9 DEF ListInsert, WriterOK, Owns, Records
  <2>2. l \in Lists
    BY <1>0, <2>1, ListLemma DEF MemOK
  <2>3. lists' = [lists EXCEPT ![g][t] = l]
    BY <1>9 DEF ListInsert
  <2>4. MemOK'
    BY <1>0, <1>9, <2>1, <2>2, <2>3 DEF ListInsert, MemOK
  <2>5. NoTable \in Gens \X (Tables \cup {0})
    BY DEF NoTable, Gens
  <2>6. WriterOK'
    BY <1>0, <1>9, <2>5 DEF ListInsert, WriterOK, WriterLabels, Owns
  <2> QED BY <1>9, <2>4, <2>6 DEF ListInsert
<1> QED BY <1>1, <1>2, <1>3, <1>4, <1>5, <1>6, <1>7, <1>8, <1>9 DEF StartWrite

\* The steps of a writer after its insert: count, switch the logs, submit.
LEMMA SubmitTypes ==
  ASSUME TypeInv, NEW w \in Writers,
         \/ Count(w) \/ SwitchLog(w) \/ SwitchLogAgain(w) \/ SpuriousWakeup(w)
         \/ SubmitDump(w) \/ PushDump(w)
  PROVE  TypeInv'
<1> USE DBSystemAssumption, Untouched DEF TypeInv, Goto
<1>0. WriterOK /\ MemOK /\ LogOK /\ GhostOK
  OBVIOUS
<1>a. ASSUME Ack(w), pc[w] # "idle", UNCHANGED writes PROVE GhostOK'
  BY <1>0, <1>a DEF Ack, GhostOK, WriterOK
<1>1. CASE Count(w)
  <2>1. GhostOK'
    BY <1>0, <1>1, <1>a DEF Count, GhostOK
  <2>2. WriterOK'
    BY <1>0, <1>1 DEF Count, Ack, WriterOK, WriterLabels, Owns
  <2> QED BY <1>1, <2>1, <2>2 DEF Count
<1>l. ASSUME \/ RenameLog \/ UNCHANGED <<hot, died, died_exists, log_open>>
             \/ log_open' = FALSE /\ UNCHANGED <<hot, died, died_exists>>,
             wait_switch_log' \subseteq Writers
      PROVE  LogOK'
  <2>1. hot' \subseteq Records /\ died' \subseteq Records
    BY <1>0, <1>l DEF RenameLog, LogOK
  <2>2. log_open' \in BOOLEAN /\ died_exists' \in BOOLEAN
    BY <1>0, <1>l, Zenon DEF RenameLog, LogOK
  <2> QED BY <1>l, <2>1, <2>2 DEF LogOK
<1>2. CASE SwitchLog(w)
  <2>1. LogOK'
    BY <1>0, <1>2, <1>l DEF SwitchLog, LogOK
  <2>2. WriterOK'
    BY <1>0, <1>2 DEF SwitchLog, WriterOK, WriterLabels, Owns
  <2> QED BY <1>2, <2>1, <2>2 DEF SwitchLog
<1>3. CASE SwitchLogAgain(w)
  <2>1. LogOK'
    BY <1>0, <1>3, <1>l DEF SwitchLogAgain, LogOK
  <2>2. WriterOK'
    BY <1>0, <1>3 DEF SwitchLogAgain, WriterOK, WriterLabels, Owns
  <2> QED BY <1>3, <2>1, <2>2 DEF SwitchLogAgain
<1>4. CASE SpuriousWakeup(w)
  <2>1. LogOK'
    BY <1>0, <1>4, <1>l DEF SpuriousWakeup, LogOK
  <2> QED BY <1>4, <2>1 DEF SpuriousWakeup
<1>5. CASE SubmitDump(w)
  <2>1. gen \in Gens /\ gen + 1 \in Gens /\ <<gen, 0>> \in Gens \X (Tables \cup {0})
    BY <1>0, <1>5 DEF SubmitDump, MemOK, Gens
  <2>2. MemOK'
    BY <1>0, <1>5, <2>1 DEF SubmitDump, MemOK
  <2>3. WriterOK'
    BY <1>0, <1>5, <2>1 DEF SubmitDump, WriterOK, WriterLabels, Owns
  <2> QED BY <1>5, <2>2, <2>3 DEF SubmitDump
<1>6. CASE PushDump(w)
  <2>1. GhostOK'
    BY <1>0, <1>6, <1>a DEF PushDump
  <2>2. MemOK'
    <3>1. table[w][1] \in Gens
      BY <1>0 DEF WriterOK
    <3> QED BY <1>0, <1>6, <3>1 DEF PushDump, MemOK
  <2>3. NoTable \in Gens \X (Tables \cup {0})
    BY DEF NoTable, Gens
  <2>4. WriterOK'
    BY <1>0, <1>6, <2>3 DEF PushDump, Ack, WriterOK, WriterLabels, Owns
  <2> QED BY <1>6, <2>1, <2>2, <2>4 DEF PushDump
<1> QED BY <1>1, <1>2, <1>3, <1>4, <1>5, <1>6

\* The steps of the dumper.
LEMMA DumperTypes == ASSUME TypeInv, DumperStep PROVE TypeInv'
<1> USE DBSystemAssumption, Untouched DEF TypeInv
<1>0. DumperOK /\ CacheOK /\ MemOK /\ LogOK /\ HashOK /\ SstOK
  OBVIOUS
<1>k. \A i \in 1 .. Len(kvs) : kvs[i].key \in Keys /\ kvs[i].slot \in Slots
  <2>1. \A i \in 1 .. Len(kvs) : kvs[i] \in Kvs
    BY <1>0, ElementOfSeq DEF DumperOK
  <2> QED BY <2>1 DEF Kvs
<1>l. /\ Len(kvs) \in Nat /\ Len(file.vals) \in Nat
      /\ file.vals \in Seq(0 .. MaxWrites) /\ file.keys \in Seq(Keys)
  BY <1>0 DEF DumperOK, Files
<1>n. dpc \in {"access", "inside"} => NextKv.slot \in Slots
  BY <1>0, <1>k, <1>l DEF DumperOK, NextKv
<1>m. dpc \in {"ending", "hash"} => LastKv.slot \in Slots /\ LastKv.key \in Keys
  BY <1>0, <1>k, <1>l DEF DumperOK, LastKv
<1>1. CASE TakeJob
  <2>1. Head(wait_for_dump) \in Gens /\ Tail(wait_for_dump) \in Seq(Gens)
    BY <1>0, <1>1, HeadTailProperties DEF TakeJob, MemOK
  <2>2. [i \in 1 .. MEMTABLE_CO_WRITE_NUM |-> i] \in Seq(Tables)
    BY DEF Tables
  <2>3. MemOK' /\ DumperOK'
    BY <1>0, <1>1, <2>1, <2>2 DEF TakeJob, MemOK, DumperOK, DumperLabels
  <2> QED BY <1>1, <2>3 DEF TakeJob
<1>2. CASE MergeRound
  <2>0. /\ curr_writing.gen \in Gens /\ curr_writing.tables \in Seq(Tables)
        /\ \A i \in Positions : curr_writing.tables[i] \in Tables
    BY <1>0, ElementOfSeq, LenProperties DEF DumperOK, Positions
  <2>1. PICK i \in Positions, k \in Keys :
          /\ k \in DOMAIN JobList(i)
          /\ kvs' = Append(kvs, [key |-> k, slot |-> JobList(i)[k],
                                 from |-> curr_writing.tables[i]])
          /\ lists' = [lists EXCEPT ![curr_writing.gen][curr_writing.tables[i]] = ListPop(@, k)]
    BY <1>2 DEF MergeRound, Smallest
  <2>2. JobList(i) \in Lists
    BY <1>0, <2>0 DEF MemOK, JobList
  <2>3. JobList(i)[k] \in Slots
    BY <2>1, <2>2 DEF Lists
  <2>4. ListPop(JobList(i), k) \in Lists
    BY <2>2, <2>3, ListLemma
  <2>5. MemOK'
    BY <1>0, <1>2, <2>0, <2>1, <2>4 DEF MergeRound, MemOK, JobList
  <2>6. kvs' \in Seq(Kvs)
    BY <1>0, <2>0, <2>1, <2>3 DEF DumperOK, Kvs
  <2>7. curr_writing' \in [gen : Gens, tables : Seq(Tables)]
    <3>1. ASSUME NEW j \in Positions,
                 curr_writing' = [curr_writing EXCEPT !.tables = RemoveAt(@, j)]
          PROVE  curr_writing' \in [gen : Gens, tables : Seq(Tables)]
      <4>1. RemoveAt(curr_writing.tables, j) \in Seq(Tables)
        BY <2>0, RemoveAtLemma DEF Positions
      <4> QED BY <1>0, <3>1, <4>1 DEF DumperOK
    <3> QED BY <1>0, <1>2, <3>1 DEF MergeRound, DumperOK
  <2>8. DumperOK'
    BY <1>0, <1>2, <2>6, <2>7 DEF MergeRound, DumperOK
  <2> QED BY <1>2, <2>5, <2>8 DEF MergeRound
<1>3. CASE MergeDone
  <2>1. DumperOK'
    BY <1>0, <1>3 DEF MergeDone, DumperOK, DumperLabels
  <2> QED BY <1>3, <2>1 DEF MergeDone
<1>4. CASE DumpKeys
  <2>1. [i \in 1 .. Len(kvs) |-> kvs[i].key] \in Seq(Keys)
    BY <1>k, <1>l
  <2>2. DumperOK'
    BY <1>0, <1>l, <1>4, <2>1 DEF DumpKeys, NextRecord, DumperOK, DumperLabels, Files
  <2> QED BY <1>4, <2>2 DEF DumpKeys
<1>5. CASE DumpAccess
  <2>1. CacheOK'
    BY <1>0, <1>5 DEF DumpAccess, LockSlot, CacheOK, BufferTypeOK
  <2>2. DumperOK'
    BY <1>0, <1>5 DEF DumpAccess, DumperOK, DumperLabels
  <2> QED BY <1>5, <2>1, <2>2 DEF DumpAccess
<1>6. CASE DumpAppendRelease
  <2>1. data[NextKv.slot].val \in 0 .. MaxWrites
    BY <1>0, <1>n, <1>6 DEF DumpAppendRelease, CacheOK, Records, NoRecord
  <2>2. idxes_empty' \in Seq(Slots) /\ idxes_wrote' \in SUBSET Slots
    BY <1>0, <1>n, <1>6, ReleaseSlotType DEF DumpAppendRelease, CacheOK
  <2>3. CacheOK'
    BY <1>0, <1>6, <2>2 DEF DumpAppendRelease, CacheOK, BufferTypeOK
  <2> DEFINE vs == Append(file.vals, data[NextKv.slot].val)
  <2>a. vs \in Seq(0 .. MaxWrites) /\ Len(vs) = Len(file.vals) + 1
    BY <1>l, <2>1
  <2>4. file' = [file EXCEPT !.vals = vs] /\ file' \in Files /\ file'.vals = vs
    BY <1>0, <1>6, <2>a DEF DumpAppendRelease, DumperOK, Files
  <2>5. DumperOK'
    BY <1>0, <1>l, <1>6, <2>a, <2>4 DEF DumpAppendRelease, DumperOK, DumperLabels
  <2> QED BY <1>6, <2>3, <2>5 DEF DumpAppendRelease
<1>7. CASE DumpEndAccess
  <2>1. CacheOK'
    BY <1>0, <1>7 DEF DumpEndAccess, UnlockSlot, CacheOK, BufferTypeOK
  <2>2. DumperOK'
    BY <1>0, <1>7 DEF DumpEndAccess, DumperOK, DumperLabels
  <2> QED BY <1>7, <2>1, <2>2 DEF DumpEndAccess
<1>8. CASE DumpHash
  <2>1. FileIndex(Len(ssts), Len(file.vals) - 1) \in Indexes
    <3>1. Len(ssts) \in Nat /\ Len(file.vals) - 1 \in Nat
      BY <1>0, <1>l, <1>8 DEF DumpHash, SstOK, DumperOK
    <3> QED BY <3>1 DEF FileIndex, Indexes
  <2>2. HashOK'
    BY <1>0, <1>8, <1>m, <2>1 DEF DumpHash, HashOK
  <2>3. DumperOK'
    BY <1>0, <1>l, <1>8 DEF DumpHash, NextRecord, DumperOK, DumperLabels
  <2> QED BY <1>8, <2>2, <2>3 DEF DumpHash
<1>9. CASE InsertRecord
  <2>1. DumperOK'
    BY <1>0, <1>9 DEF InsertRecord, DumperOK, DumperLabels
  <2>2. kvs[1].key \in Keys /\ Last(kvs).key \in Keys
    <3>1. Len(kvs) \in Nat \ {0}
      BY <1>0, <1>9, EmptySeq DEF InsertRecord, DumperOK
    <3> QED BY <1>k, <3>1 DEF Last
  <2>3. [kstart |-> kvs[1].key, kend |-> Last(kvs).key, nrecord |-> Len(kvs), rows |-> file]
          \in SstRecords
    BY <1>0, <1>l, <2>2 DEF SstRecords, DumperOK
  <2>4. SstOK'
    BY <1>0, <1>9, <2>3 DEF InsertRecord, SstOK
  <2> QED BY <1>9, <2>1, <2>4 DEF InsertRecord
<1>10. CASE EndDumping
  <2>1. wait_switch_log' \subseteq Writers
    BY <1>0, <1>10 DEF EndDumping, NotifyOne, LogOK
  <2>2. log_open' \in BOOLEAN /\ died_exists' \in BOOLEAN
    BY <1>0, <1>10, Zenon DEF EndDumping, LogOK
  <2>3. LogOK'
    BY <1>0, <1>10, <2>1, <2>2 DEF EndDumping, LogOK
  <2>4. DumperOK'
    BY <1>10 DEF EndDumping, DumperOK, DumperLabels, NoJob, NoFile, Gens, Files
  <2> QED BY <1>10, <2>3, <2>4 DEF EndDumping
<1> QED
  BY <1>1, <1>2, <1>3, <1>4, <1>5, <1>6, <1>7, <1>8, <1>9, <1>10, UndefinedType
  DEF DumperStep, DumpFreedKeys, InsertEmpty

LEMMA TypeInvStep == TypeInv /\ [Next]_vars => TypeInv'
<1> SUFFICES ASSUME TypeInv, [Next]_vars PROVE TypeInv'
  OBVIOUS
<1>1. ASSUME NEW w \in Writers, WriterStep(w) PROVE TypeInv'
  BY <1>1, FillTypes, SubmitTypes, UndefinedType DEF WriterStep, ListInsertRacing
<1>2. ASSUME NEW w \in Writers, StartWrite(w) \/ ClosedLogUsed(w) \/ SpuriousWakeup(w)
      PROVE  TypeInv'
  BY <1>2, FillTypes, SubmitTypes, UndefinedType DEF ClosedLogUsed, LogAppendClosed, SwitchLogClosed
<1>3. CASE DumperStep
  BY <1>3, DumperTypes
<1>4. CASE UNCHANGED vars
  BY <1>4, Untouched DEF vars, TypeInv
<1> QED BY <1>1, <1>2, <1>3, <1>4 DEF Next

\* Type correctness of the engine: in particular the dumper never asks for a
\* record beyond the last, and a writer has a slot whenever it uses one.
THEOREM DBSystemTypes == Spec => []TypeOK
<1>1. Init => TypeInv
  BY InitTypeInv
<1>2. TypeInv /\ [Next]_vars => TypeInv'
  BY TypeInvStep
<1>3. TypeInv => TypeOK
  BY TypeInvImpliesTypeOK
<1> QED BY <1>1, <1>2, <1>3, PTL DEF Spec

-----------------------------------------------------------------------------
(* The gate.  DumpGate is inductive relative to the types: the died log is *)
(* created only where it is missing, by a writer that then holds the one    *)
(* job, and each step up to end_dumping hands the job on.                  *)

\* Steps that neither move a job nor touch the died log.
LEMMA GateUntouched ==
  ASSUME DumpGate, UNCHANGED <<died_exists, wait_for_dump>>,
         dpc' = "idle" <=> dpc = "idle",
         \A w \in Writers : HasJob(w)' <=> HasJob(w)
  PROVE  DumpGate'
BY DEF DumpGate

LEMMA GateWriter ==
  ASSUME TypeInv, DumpGate, NEW w \in Writers,
         StartWrite(w) \/ WriterStep(w) \/ SpuriousWakeup(w) \/ ClosedLogUsed(w)
  PROVE  DumpGate'
<1>0. /\ pc \in [Writers -> WriterLabels]
      /\ wait_for_dump \in Seq(Gens) /\ table[w][1] \in Gens
  BY DEF TypeInv, WriterOK, MemOK
<1> USE DEF HasJob, Goto, WriterLabels
<1>1. CASE \/ StartWrite(w) \/ RequestBuff(w) \/ WriteAccess(w) \/ Copy(w) \/ WriteHash(w)
           \/ GetMemtable(w) \/ ProbeLocked(w) \/ ProbeFree(w) \/ ListInsert(w)
           \/ Count(w) \/ SpuriousWakeup(w)
  <2>1. /\ UNCHANGED <<died_exists, wait_for_dump, dpc>>
        /\ \A v \in Writers : HasJob(v)' <=> HasJob(v)
    BY <1>0, <1>1
    DEF StartWrite, LogAppend, RequestBuff, WriteAccess, Copy, WriteHash, GetMemtable,
        ProbeLocked, ProbeFree, ListInsert, Count, Ack, SpuriousWakeup,
        memVars, logVars, dumperVars, writerVars
  <2> QED BY <2>1, GateUntouched
<1>2. ASSUME RenameLog, ~ died_exists, pc' = [pc EXCEPT ![w] = "submit"],
             UNCHANGED <<wait_for_dump, dpc>>
      PROVE  DumpGate'
  <2>1. (\A v \in Writers : ~ HasJob(v)) /\ wait_for_dump = << >> /\ dpc = "idle"
    BY <1>2 DEF DumpGate
  <2>2. \A v \in Writers : HasJob(v)' <=> v = w
    BY <1>0, <1>2, <2>1
  <2> QED BY <1>2, <2>1, <2>2 DEF RenameLog, DumpGate
<1>3. CASE SwitchLog(w) \/ SwitchLogAgain(w)
  <2>1. CASE ~ died_exists
    BY <1>2, <1>3, <2>1 DEF SwitchLog, SwitchLogAgain, memVars, dumperVars
  <2>2. CASE died_exists
    <3>1. /\ UNCHANGED <<died_exists, wait_for_dump, dpc>>
          /\ \A v \in Writers : HasJob(v)' <=> HasJob(v)
      BY <1>0, <1>3, <2>2 DEF SwitchLog, SwitchLogAgain, memVars, dumperVars
    <3> QED BY <3>1, GateUntouched
  <2> QED BY <2>1, <2>2
<1>4. CASE SubmitDump(w)
  <2>1. /\ UNCHANGED <<died_exists, wait_for_dump, dpc>>
        /\ \A v \in Writers : HasJob(v)' <=> HasJob(v)
    BY <1>0, <1>4 DEF SubmitDump, logVars, dumperVars
  <2> QED BY <2>1, GateUntouched
<1>5. CASE PushDump(w)
  <2>1. /\ wait_for_dump = << >> /\ dpc = "idle" /\ died_exists
        /\ \A v \in Writers : HasJob(v) => v = w
    BY <1>5 DEF PushDump, DumpGate
  <2>2. wait_for_dump' # << >> /\ Len(wait_for_dump') = 1
    BY <1>0, <1>5, <2>1 DEF PushDump
  <2>3. \A v \in Writers : ~ HasJob(v)'
    BY <1>0, <1>5, <2>1 DEF PushDump, Ack
  <2> QED BY <1>5, <2>1, <2>2, <2>3 DEF PushDump, DumpGate, logVars, dumperVars
<1>6. CASE ListInsertRacing(w) \/ ClosedLogUsed(w)
  <2>1. /\ UNCHANGED <<died_exists, wait_for_dump, dpc>>
        /\ \A v \in Writers : HasJob(v)' <=> HasJob(v)
    BY <1>6
    DEF ListInsertRacing, ClosedLogUsed, LogAppendClosed, SwitchLogClosed,
        Undefined, memVars, logVars, dumperVars, writerVars
  <2> QED BY <2>1, GateUntouched
<1> QED BY <1>1, <1>3, <1>4, <1>5, <1>6 DEF WriterStep

LEMMA GateDumper == ASSUME TypeInv, DumpGate, DumperStep PROVE DumpGate'
<1>0. wait_for_dump \in Seq(Gens)
  BY DEF TypeInv, MemOK
<1> USE DEF HasJob
<1>1. CASE TakeJob
  <2>1. /\ Len(wait_for_dump) = 1 /\ dpc = "idle" /\ died_exists
        /\ \A w \in Writers : ~ HasJob(w)
    BY <1>1 DEF TakeJob, DumpGate
  <2>2. wait_for_dump' = << >>
    BY <1>0, <1>1, <2>1, HeadTailProperties, EmptySeq DEF TakeJob
  <2> QED BY <1>1, <2>1, <2>2 DEF TakeJob, DumpGate, logVars, writerVars
<1>2. CASE \/ MergeRound \/ MergeDone \/ DumpKeys \/ DumpAccess \/ DumpAppendRelease
           \/ DumpEndAccess \/ DumpHash \/ InsertRecord
  <2>1. /\ UNCHANGED <<died_exists, wait_for_dump, pc>>
        /\ dpc # "idle" /\ dpc' # "idle"
    BY <1>2
    DEF MergeRound, MergeDone, DumpKeys, NextRecord, DumpAccess, DumpAppendRelease,
        DumpEndAccess, DumpHash, InsertRecord, memVars, logVars, writerVars
  <2> QED BY <2>1, GateUntouched
<1>3. CASE DumpFreedKeys \/ InsertEmpty
  <2>1. UNCHANGED <<died_exists, wait_for_dump, pc, dpc>>
    BY <1>3
    DEF DumpFreedKeys, InsertEmpty, Undefined, memVars, logVars, writerVars, dumperVars
  <2> QED BY <2>1, GateUntouched
<1>4. CASE EndDumping
  <2>1. dpc # "idle" /\ wait_for_dump = << >> /\ \A w \in Writers : ~ HasJob(w)
    BY <1>0, <1>4 DEF EndDumping, DumpGate
  <2> QED BY <1>4, <2>1 DEF EndDumping, DumpGate, memVars, writerVars
<1> QED BY <1>1, <1>2, <1>3, <1>4 DEF DumperStep

LEMMA GateStep == TypeInv /\ DumpGate /\ [Next]_vars => DumpGate'
<1> SUFFICES ASSUME TypeInv, DumpGate, [Next]_vars PROVE DumpGate'
  OBVIOUS
<1>1. ASSUME NEW w \in Writers,
             StartWrite(w) \/ ClosedLogUsed(w) \/ WriterStep(w) \/ SpuriousWakeup(w)
      PROVE  DumpGate'
  BY <1>1, GateWriter
<1>2. CASE DumperStep
  BY <1>2, GateDumper
<1>3. ASSUME UNCHANGED <<died_exists, wait_for_dump, pc, dpc>> PROVE DumpGate'
  BY <1>3, GateUntouched DEF HasJob
<1>4. CASE UNCHANGED vars
  BY <1>3, <1>4 DEF vars, memVars, logVars, writerVars, dumperVars
<1> QED BY <1>1, <1>2, <1>4 DEF Next

\* One dump at a time, for any number of writers: switch_log lets the next one
\* submit only after end_dumping, and the dump queue holds at most one job.
THEOREM OneDumpAtATime == Spec => []DumpGate
<1>1. Init => DumpGate
  BY DEF Init, DumpGate, HasJob
<1>2. TypeInv /\ DumpGate /\ [Next]_vars => (TypeInv /\ DumpGate)'
  BY TypeInvStep, GateStep
<1> QED BY InitTypeInv, <1>1, <1>2, PTL DEF Spec

-----------------------------------------------------------------------------
(* The wakeup in switch_log. *)

SleepersAsleep == \A w \in wait_switch_log : pc[w] = "asleep"

WakeInv == SleepersAsleep /\ NoLostSwitchWakeup

\* Steps that leave the sleepers and the died log alone.
LEMMA WakeUntouched ==
  ASSUME WakeInv, UNCHANGED <<wait_switch_log, died_exists>>,
         \A w \in Writers \cup wait_switch_log : pc[w] = "asleep" => pc'[w] = "asleep"
  PROVE  WakeInv'
BY DEF WakeInv, SleepersAsleep, NoLostSwitchWakeup

LEMMA WakeWriter ==
  ASSUME TypeInv, WakeInv, NEW w \in Writers,
         StartWrite(w) \/ WriterStep(w) \/ SpuriousWakeup(w) \/ ClosedLogUsed(w)
  PROVE  WakeInv'
<1>0. pc \in [Writers -> WriterLabels] /\ wait_switch_log \subseteq Writers
  BY DEF TypeInv, WriterOK, LogOK
<1> USE DEF Goto, WriterLabels
<1>1. CASE \/ StartWrite(w) \/ RequestBuff(w) \/ WriteAccess(w) \/ Copy(w) \/ WriteHash(w)
           \/ GetMemtable(w) \/ ProbeLocked(w) \/ ProbeFree(w) \/ ListInsert(w)
           \/ Count(w) \/ SubmitDump(w) \/ PushDump(w)
           \/ ListInsertRacing(w) \/ ClosedLogUsed(w)
  <2>1. /\ UNCHANGED <<wait_switch_log, died_exists>>
        /\ \A v \in Writers : pc[v] = "asleep" => pc'[v] = "asleep"
    BY <1>0, <1>1
    DEF StartWrite, LogAppend, RequestBuff, WriteAccess, Copy, WriteHash, GetMemtable,
        ProbeLocked, ProbeFree, ListInsert, Count, Ack, SubmitDump, PushDump,
        ListInsertRacing, ClosedLogUsed, LogAppendClosed, SwitchLogClosed,
        Undefined, logVars, writerVars
  <2> QED BY <1>0, <2>1, WakeUntouched
<1>2. CASE SwitchLog(w)
  BY <1>0, <1>2 DEF SwitchLog, RenameLog, WakeInv, SleepersAsleep, NoLostSwitchWakeup
<1>3. CASE SwitchLogAgain(w)
  BY <1>0, <1>3 DEF SwitchLogAgain, RenameLog, WakeInv, SleepersAsleep, NoLostSwitchWakeup
<1>4. CASE SpuriousWakeup(w)
  BY <1>0, <1>4 DEF SpuriousWakeup, writerVars, WakeInv, SleepersAsleep, NoLostSwitchWakeup
<1> QED BY <1>1, <1>2, <1>3, <1>4 DEF WriterStep

LEMMA WakeStep == TypeInv /\ WakeInv /\ [Next]_vars => WakeInv'
<1> SUFFICES ASSUME TypeInv, WakeInv, [Next]_vars PROVE WakeInv'
  OBVIOUS
<1>0. wait_switch_log \subseteq Writers
  BY DEF TypeInv, LogOK
<1>1. ASSUME NEW w \in Writers,
             StartWrite(w) \/ ClosedLogUsed(w) \/ WriterStep(w) \/ SpuriousWakeup(w)
      PROVE  WakeInv'
  BY <1>1, WakeWriter
<1>u. ASSUME UNCHANGED <<wait_switch_log, died_exists, pc>> PROVE WakeInv'
  BY <1>u, WakeUntouched
<1>2. CASE EndDumping
  <2>1. /\ \/ wait_switch_log' = {}
           \/ \E v \in wait_switch_log : wait_switch_log' = wait_switch_log \ {v}
        /\ pc' = pc
    BY <1>2 DEF EndDumping, NotifyOne, writerVars
  <2> QED BY <1>0, <2>1 DEF WakeInv, SleepersAsleep, NoLostSwitchWakeup
<1>3. CASE DumperStep /\ ~ EndDumping
  BY <1>u, <1>3
  DEF DumperStep, TakeJob, MergeRound, MergeDone, DumpKeys, DumpFreedKeys, DumpAccess,
      DumpAppendRelease, DumpEndAccess, DumpHash, InsertRecord, InsertEmpty, Undefined,
      logVars, writerVars
<1>4. CASE UNCHANGED vars
  BY <1>u, <1>4 DEF vars, logVars, writerVars
<1> QED BY <1>1, <1>2, <1>3, <1>4 DEF Next

\* The single notify_one of end_dumping is enough for any number of writers
\* that sleep in switch_log.
THEOREM SwitchWakeupNotLost == Spec => []NoLostSwitchWakeup
<1>1. Init => WakeInv
  BY DEF Init, WakeInv, SleepersAsleep, NoLostSwitchWakeup
<1>2. TypeInv /\ WakeInv /\ [Next]_vars => (TypeInv /\ WakeInv)'
  BY TypeInvStep, WakeStep
<1>3. WakeInv => NoLostSwitchWakeup
  BY DEF WakeInv
<1> QED BY InitTypeInv, <1>1, <1>2, <1>3, PTL DEF Spec

-----------------------------------------------------------------------------
(* The inductive invariant.  A slot goes from a writer to an entry of a     *)
(* list, from there to a record of the dumper, and back to the free list:  *)
(* the invariant says that no two of them hold the same one.               *)

\* The records the dumper has yet to append.
Pending == Len(file.vals) + 1 .. Len(kvs)

\* The writers own slots that were handed out, each its own.
WritersApart ==
  /\ \A w \in Writers : Owns(w) => idx[w] \in idxes_wrote
  /\ \A w, v \in Writers : Owns(w) /\ Owns(v) /\ idx[w] = idx[v] => w = v

\* So do the entries of the lists.
EntriesApart ==
  /\ \A g \in Gens, t \in Tables : \A k \in DOMAIN lists[g][t] :
       /\ lists[g][t][k] \in idxes_wrote
       /\ \A w \in Writers : Owns(w) => lists[g][t][k] # idx[w]
  /\ \A g, h \in Gens, t, u \in Tables :
       \A k \in DOMAIN lists[g][t], l \in DOMAIN lists[h][u] :
         lists[g][t][k] = lists[h][u][l] => g = h /\ t = u /\ k = l

\* And so do the records of the dumper.
PendingApart ==
  /\ \A i \in Pending :
       /\ kvs[i].slot \in idxes_wrote
       /\ \A w \in Writers : Owns(w) => kvs[i].slot # idx[w]
       /\ \A g \in Gens, t \in Tables : \A k \in DOMAIN lists[g][t] :
            lists[g][t][k] # kvs[i].slot
  /\ \A i, j \in Pending : kvs[i].slot = kvs[j].slot => i = j

\* Nothing is appended before the keys are written.
FileIsNew == dpc \in {"idle", "merge", "keys"} => file.vals = << >>

\* What a writer has copied is in its slot.
CopiedRecord ==
  \A w \in Writers :
    pc[w] \in {"hash", "get", "probe", "update"} => data[idx[w]] = rec[w]

HolderInv ==
  /\ FreeOnce /\ FreeOrHandedOut
  /\ WritersApart /\ EntriesApart /\ PendingApart /\ FileIsNew

RecordInv == CopiedRecord /\ EntryPointsToItsRecord

-----------------------------------------------------------------------------
(* Slots and their holders                                                 *)

LEMMA InitHolders == Init => HolderInv /\ RecordInv
<1> SUFFICES ASSUME Init PROVE HolderInv /\ RecordInv
  OBVIOUS
<1> USE DBSystemAssumption, BuffSizeAssumption
<1>1. /\ idxes_empty = [i \in 1 .. RECORD_BUFF_SIZE |-> i - 1]
      /\ idxes_wrote = {}
      /\ lists = [g \in Gens |-> [t \in Tables |-> EmptyList]]
      /\ pc = [w \in Writers |-> "idle"]
      /\ kvs = << >> /\ file = NoFile
  BY DEF Init, BufferInit
<1>2. \A w \in Writers : pc[w] = "idle" /\ ~ Owns(w)
  BY <1>1 DEF Owns
<1>3. \A g \in Gens, t \in Tables : DOMAIN lists[g][t] = {}
  <2>1. DOMAIN EmptyList = {}
    BY DEF EmptyList
  <2> QED BY <1>1, <2>1
<1>4. Pending = {} /\ file.vals = << >>
  BY <1>1 DEF Pending, NoFile
<1>5. FreeOnce /\ FreeOrHandedOut
  <2>1. Len(idxes_empty) = RECORD_BUFF_SIZE /\ DOMAIN idxes_empty = 1 .. RECORD_BUFF_SIZE
    BY <1>1
  <2>2. FreeOnce
    BY <1>1, <2>1 DEF FreeOnce
  <2>3. \A s \in Slots : s + 1 \in 1 .. RECORD_BUFF_SIZE /\ idxes_empty[s + 1] = s
    BY <1>1 DEF Slots
  <2>4. FreeOrHandedOut
    BY <1>1, <2>1, <2>3 DEF FreeOrHandedOut, Contains
  <2> QED BY <2>2, <2>4
<1>6. WritersApart /\ EntriesApart /\ PendingApart /\ FileIsNew
  BY <1>2, <1>3, <1>4 DEF WritersApart, EntriesApart, PendingApart, FileIsNew
<1>7. RecordInv
  BY <1>2, <1>3, <1>4 DEF RecordInv, CopiedRecord, EntryPointsToItsRecord, Pending
<1> QED BY <1>5, <1>6, <1>7 DEF HolderInv

\* Steps after which there are no more holders than before.
LEMMA HoldersFrame ==
  ASSUME HolderInv,
         UNCHANGED <<idxes_empty, idxes_wrote, lists>>,
         \A w \in Writers : Owns(w)' => Owns(w) /\ idx'[w] = idx[w],
         \A i \in Pending' : i \in Pending /\ kvs'[i] = kvs[i],
         FileIsNew'
  PROVE  HolderInv'
<1>1. FreeOnce' /\ FreeOrHandedOut'
  BY DEF HolderInv, FreeOnce, FreeOrHandedOut, Contains
<1>2. WritersApart'
  BY DEF HolderInv, WritersApart
<1>3. EntriesApart'
  <2>1. EntriesApart
    BY DEF HolderInv
  <2> QED BY <2>1 DEF EntriesApart
<1>4. PendingApart'
  <2>1. PendingApart
    BY DEF HolderInv
  <2>2. \A i \in Pending' :
       /\ kvs'[i].slot \in idxes_wrote'
       /\ \A w \in Writers : Owns(w)' => kvs'[i].slot # idx'[w]
       /\ \A g \in Gens, t \in Tables : \A k \in DOMAIN lists'[g][t] :
            lists'[g][t][k] # kvs'[i].slot
    BY <2>1 DEF PendingApart
  <2>3. \A i, j \in Pending' : kvs'[i].slot = kvs'[j].slot => i = j
    BY <2>1 DEF PendingApart
  <2> QED BY <2>2, <2>3 DEF PendingApart
<1> QED BY <1>1, <1>2, <1>3, <1>4 DEF HolderInv

\* Steps that neither fill a slot nor hand a record on.
LEMMA RecordsFrame ==
  ASSUME RecordInv, UNCHANGED <<data, lists>>,
         \A w \in Writers : pc'[w] \in {"hash", "get", "probe", "update"} =>
           pc[w] \in {"hash", "get", "probe", "update"} /\ idx'[w] = idx[w] /\ rec'[w] = rec[w],
         \A i \in Pending' : i \in Pending /\ kvs'[i] = kvs[i]
  PROVE  RecordInv'
<1>1. CopiedRecord'
  BY DEF RecordInv, CopiedRecord
<1>2. EntryPointsToItsRecord'
  BY DEF RecordInv, EntryPointsToItsRecord, Pending
<1> QED BY <1>1, <1>2 DEF RecordInv

\* Most steps of a writer.
LEMMA WriterKeepsHolders ==
  ASSUME TypeInv, HolderInv, RecordInv, NEW w \in Writers,
         \/ StartWrite(w) \/ WriteAccess(w) \/ WriteHash(w)
         \/ GetMemtable(w) \/ ProbeLocked(w) \/ ProbeFree(w)
         \/ Count(w) \/ SwitchLog(w) \/ SwitchLogAgain(w) \/ SpuriousWakeup(w)
         \/ SubmitDump(w) \/ PushDump(w) \/ ListInsertRacing(w) \/ ClosedLogUsed(w)
  PROVE  HolderInv' /\ RecordInv'
<1>0. /\ pc \in [Writers -> WriterLabels] /\ rec \in [Writers -> Records \cup {NoRecord}]
  BY DEF TypeInv, WriterOK
<1>1. /\ UNCHANGED <<idxes_empty, idxes_wrote, lists, data, kvs, file, dpc, idx>>
  BY DEF StartWrite, LogAppend, WriteAccess, WriteHash, GetMemtable, ProbeLocked, ProbeFree,
     Count, Ack, SwitchLog, SwitchLogAgain, SpuriousWakeup, SubmitDump, PushDump,
     ListInsertRacing, ClosedLogUsed, LogAppendClosed, SwitchLogClosed, Undefined,
     cacheVars, bufferVars, memVars, dumperVars, writerVars
<1>2. \A v \in Writers :
        /\ Owns(v)' => Owns(v)
        /\ pc'[v] \in {"hash", "get", "probe", "update"}
             => pc[v] \in {"hash", "get", "probe", "update"} /\ rec'[v] = rec[v]
  <2>1. CASE StartWrite(w) \/ WriteAccess(w) \/ WriteHash(w) \/ GetMemtable(w)
    BY <1>0, <2>1 DEF StartWrite, LogAppend, WriteAccess, WriteHash, GetMemtable, Goto, Owns
  <2>2. CASE ProbeLocked(w) \/ ProbeFree(w) \/ Count(w) \/ SwitchLog(w) \/ SwitchLogAgain(w)
    BY <1>0, <2>2 DEF ProbeLocked, ProbeFree, Count, Ack, SwitchLog, SwitchLogAgain, Goto, Owns
  <2>3. CASE \/ SpuriousWakeup(w) \/ SubmitDump(w) \/ PushDump(w) \/ ListInsertRacing(w)
             \/ ClosedLogUsed(w)
    BY <1>0, <2>3 DEF SpuriousWakeup, SubmitDump, PushDump, Ack, ListInsertRacing,
         ClosedLogUsed, LogAppendClosed, SwitchLogClosed,
       Undefined, writerVars, Goto, Owns
  <2> QED BY <2>1, <2>2, <2>3
<1>3. Pending' = Pending /\ FileIsNew'
  BY <1>1 DEF Pending, FileIsNew, HolderInv
<1> QED BY <1>1, <1>2, <1>3, HoldersFrame, RecordsFrame

\* Most steps of the dumper.
LEMMA DumperKeepsHolders ==
  ASSUME TypeInv, HolderInv, RecordInv,
         \/ TakeJob \/ MergeDone \/ DumpKeys \/ DumpFreedKeys \/ DumpAccess \/ DumpEndAccess
         \/ DumpHash \/ InsertRecord \/ InsertEmpty \/ EndDumping
  PROVE  HolderInv' /\ RecordInv'
<1>0. FileIsNew
  BY DEF HolderInv
<1>1. UNCHANGED <<idxes_empty, idxes_wrote, lists, data, idx, pc, rec>>
  BY DEF TakeJob, MergeDone, DumpKeys, DumpFreedKeys, DumpAccess, DumpEndAccess, DumpHash,
     InsertRecord, InsertEmpty, EndDumping, Undefined, cacheVars, bufferVars, memVars, writerVars
<1>2. \A v \in Writers : Owns(v)' => Owns(v)
  BY <1>1 DEF Owns
<1>3. FileIsNew' /\ \A i \in Pending' : i \in Pending /\ kvs'[i] = kvs[i]
  <2>1. CASE TakeJob \/ MergeDone \/ DumpFreedKeys
    BY <1>0, <2>1 DEF TakeJob, MergeDone, DumpFreedKeys, Undefined, dumperVars, FileIsNew, Pending
  <2>2. CASE DumpKeys
    <3>1. file.vals = << >> /\ file'.vals = << >> /\ kvs' = kvs /\ dpc' \in {"access", "insert"}
      BY <1>0, <2>2 DEF DumpKeys, FileIsNew, NextRecord
    <3> QED BY <3>1 DEF FileIsNew, Pending
  <2>3. CASE DumpAccess \/ DumpEndAccess \/ DumpHash \/ InsertRecord
    <3>1. kvs' = kvs /\ file' = file /\ dpc' \notin {"idle", "merge", "keys"}
      BY <2>3 DEF DumpAccess, DumpEndAccess, DumpHash, NextRecord, InsertRecord
    <3> QED BY <3>1 DEF FileIsNew, Pending
  <2>4. CASE InsertEmpty
    BY <1>0, <2>4 DEF InsertEmpty, Undefined, dumperVars, FileIsNew, Pending
  <2>5. CASE EndDumping
    <3>1. kvs' = << >> /\ file'.vals = << >>
      BY <2>5 DEF EndDumping, NoFile
    <3>2. Pending' = {}
      BY <3>1 DEF Pending
    <3> QED BY <3>1, <3>2 DEF FileIsNew
  <2> QED BY <2>1, <2>2, <2>3, <2>4, <2>5
<1> QED BY <1>1, <1>2, <1>3, HoldersFrame, RecordsFrame

\* request_record_buff: nobody holds the slot that the writer gets.
LEMMA RequestHolders ==
  ASSUME TypeInv, HolderInv, RecordInv, NEW w \in Writers, RequestBuff(w)
  PROVE  HolderInv' /\ RecordInv'
<1>0. /\ pc \in [Writers -> WriterLabels] /\ idx \in [Writers -> Slots \cup {NoSlot}]
      /\ BufferTypeOK /\ FreeOnce /\ FreeOrHandedOut
      /\ WritersApart /\ EntriesApart /\ PendingApart /\ FileIsNew
  BY DEF TypeInv, WriterOK, CacheOK, HolderInv
<1>1. PICK s \in Slots : RequestSlot(s) /\ idx' = [idx EXCEPT ![w] = s]
  BY DEF RequestBuff
<1>2. /\ pc[w] = "request" /\ pc' = [pc EXCEPT ![w] = "access"]
      /\ UNCHANGED <<lists, data, kvs, file, dpc, rec>>
  BY DEF RequestBuff, Goto, memVars, dumperVars
<1>3. s \notin idxes_wrote /\ FreeOnce' /\ FreeOrHandedOut' /\ idxes_wrote' = idxes_wrote \cup {s}
  <2>1. s \notin idxes_wrote /\ FreeOnce' /\ FreeOrHandedOut'
    BY <1>0, <1>1, RequestSlotLemma DEF BufferTypeOK
  <2> QED BY <1>1, <2>1 DEF RequestSlot
<1>4. /\ \A v \in Writers : Owns(v)' <=> Owns(v) \/ v = w
      /\ idx'[w] = s /\ \A v \in Writers : v # w => idx'[v] = idx[v]
      /\ ~ Owns(w)
  BY <1>0, <1>1, <1>2 DEF Owns
<1>5. WritersApart'
  BY <1>0, <1>3, <1>4 DEF WritersApart
<1>6. EntriesApart'
  <2>1. \A g \in Gens, t \in Tables : \A k \in DOMAIN lists'[g][t] :
          /\ lists'[g][t][k] \in idxes_wrote'
          /\ \A v \in Writers : Owns(v)' => lists'[g][t][k] # idx'[v]
    BY <1>0, <1>2, <1>3, <1>4 DEF EntriesApart
  <2> QED BY <1>0, <1>2, <2>1 DEF EntriesApart
<1>7. Pending' = Pending /\ kvs' = kvs
  BY <1>2 DEF Pending
<1>8. PendingApart'
  BY <1>0, <1>2, <1>3, <1>4, <1>7 DEF PendingApart
<1>9. FileIsNew'
  BY <1>0, <1>2 DEF FileIsNew
<1>10. RecordInv'
  <2>1. \A v \in Writers : pc'[v] \in {"hash", "get", "probe", "update"} =>
          pc[v] \in {"hash", "get", "probe", "update"} /\ idx'[v] = idx[v] /\ rec'[v] = rec[v]
    BY <1>0, <1>2, <1>4
  <2> QED BY <1>2, <1>7, <2>1, RecordsFrame
<1> QED BY <1>3, <1>5, <1>6, <1>8, <1>9, <1>10 DEF HolderInv

\* memcpy: the slot is nobody else's.
LEMMA CopyHolders ==
  ASSUME TypeInv, HolderInv, RecordInv, NEW w \in Writers, Copy(w)
  PROVE  HolderInv' /\ RecordInv'
<1>0. /\ pc \in [Writers -> WriterLabels] /\ idx[w] \in Slots
      /\ data \in [Slots -> Records \cup {NoRecord}] /\ lists \in [Gens -> [Tables -> Lists]]
      /\ WritersApart /\ EntriesApart /\ PendingApart /\ FileIsNew
      /\ CopiedRecord /\ EntryPointsToItsRecord
  BY DEF TypeInv, WriterOK, CacheOK, HolderInv, RecordInv, Copy, Owns, MemOK
<1>1. /\ pc[w] = "inside" /\ pc' = [pc EXCEPT ![w] = "hash"]
      /\ data' = [data EXCEPT ![idx[w]] = rec[w]]
      /\ UNCHANGED <<idxes_empty, idxes_wrote, lists, kvs, file, dpc, rec, idx>>
  BY DEF Copy, Goto, memVars, dumperVars
<1>2. Owns(w) /\ \A v \in Writers : Owns(v)' <=> Owns(v)
  BY <1>0, <1>1 DEF Owns
<1>3. HolderInv'
  <2>1. Pending' = Pending /\ FileIsNew'
    BY <1>0, <1>1 DEF Pending, FileIsNew
  <2> QED BY <1>1, <1>2, <2>1, HoldersFrame
<1>4. CopiedRecord'
  <2>1. SUFFICES ASSUME NEW v \in Writers, pc'[v] \in {"hash", "get", "probe", "update"}
                 PROVE  data'[idx'[v]] = rec'[v]
    BY DEF CopiedRecord
  <2>2. CASE v = w
    BY <1>0, <1>1, <2>2
  <2>3. CASE v # w
    <3>1. pc[v] \in {"hash", "get", "probe", "update"} /\ Owns(v)
      BY <1>0, <1>1, <2>1, <2>3 DEF Owns
    <3>2. idx[v] # idx[w] /\ data[idx[v]] = rec[v]
      BY <1>0, <1>2, <2>3, <3>1 DEF WritersApart, CopiedRecord
    <3>3. idx[v] \in Slots
      BY <3>1 DEF TypeInv, WriterOK
    <3> QED BY <1>0, <1>1, <3>2, <3>3
  <2> QED BY <2>2, <2>3
<1>5. EntryPointsToItsRecord'
  <2>1. \A g \in Gens, t \in Tables : \A k \in DOMAIN lists[g][t] :
          lists[g][t][k] # idx[w] /\ lists[g][t][k] \in Slots
    BY <1>0, <1>2 DEF EntriesApart, Lists
  <2>2. \A g \in Gens, t \in Tables : \A k \in DOMAIN lists'[g][t] :
          data'[lists'[g][t][k]].key = k
    BY <1>0, <1>1, <2>1 DEF EntryPointsToItsRecord
  <2>3. \A i \in Pending : kvs[i].slot # idx[w] /\ kvs[i].slot \in Slots
    <3>1. \A i \in Pending : kvs[i].slot # idx[w] /\ kvs[i].slot \in idxes_wrote
      BY <1>0, <1>2 DEF PendingApart
    <3> QED BY <3>1 DEF TypeInv, CacheOK, BufferTypeOK
  <2>4. \A i \in Pending : data'[kvs[i].slot].key = kvs[i].key
    BY <1>0, <1>1, <2>3 DEF EntryPointsToItsRecord, Pending
  <2> QED BY <1>1, <2>2, <2>4 DEF EntryPointsToItsRecord, Pending
<1> QED BY <1>3, <1>4, <1>5 DEF RecordInv

\* The slot goes from its writer to an entry.
LEMMA InsertHolders ==
  ASSUME TypeInv, HolderInv, RecordInv, NEW w \in Writers, ListInsert(w)
  PROVE  HolderInv' /\ RecordInv'
<1> DEFINE g == table[w][1]
           t == table[w][2]
           key == rec[w].key
           slot == idx[w]
           IsNew(h, u, k) == h = g /\ u = t /\ k = key
<1>0. /\ pc \in [Writers -> WriterLabels] /\ lists \in [Gens -> [Tables -> Lists]]
      /\ WritersApart /\ EntriesApart /\ PendingApart /\ FileIsNew
      /\ CopiedRecord /\ EntryPointsToItsRecord
  BY DEF TypeInv, WriterOK, MemOK, HolderInv, RecordInv
<1>1. /\ pc[w] = "update" /\ pc' = [pc EXCEPT ![w] = "count"] /\ Owns(w)
      /\ lists' = [lists EXCEPT ![g][t] = ListUpdate(@, key, slot)]
      /\ idx' = [idx EXCEPT ![w] = NoSlot]
      /\ UNCHANGED <<idxes_empty, idxes_wrote, data, kvs, file, dpc, rec>>
  BY DEF ListInsert, Goto, Owns, cacheVars, bufferVars, dumperVars
<1>2. g \in Gens /\ t \in Tables /\ slot \in idxes_wrote /\ data[slot].key = key
  BY <1>0, <1>1 DEF TypeInv, WriterOK, WritersApart, CopiedRecord
<1>3. /\ \A v \in Writers : Owns(v)' => v # w /\ Owns(v) /\ idx'[v] = idx[v] /\ idx[v] # slot
      /\ \A v \in Writers : pc'[v] \in {"hash", "get", "probe", "update"} =>
           pc[v] \in {"hash", "get", "probe", "update"} /\ idx'[v] = idx[v]
  <2>1. \A v \in Writers : Owns(v)' => v # w /\ Owns(v)
    BY <1>0, <1>1 DEF Owns
  <2>2. \A v \in Writers : v # w => idx'[v] = idx[v]
    BY <1>1 DEF TypeInv, WriterOK
  <2>3. \A v \in Writers : v # w /\ Owns(v) => idx[v] # slot
    BY <1>0, <1>1 DEF WritersApart
  <2>4. \A v \in Writers : pc'[v] \in {"hash", "get", "probe", "update"} =>
           v # w /\ pc[v] \in {"hash", "get", "probe", "update"}
    BY <1>0, <1>1
  <2> QED BY <2>1, <2>2, <2>3, <2>4
<1>4. ASSUME NEW h \in Gens, NEW u \in Tables, NEW k \in DOMAIN lists'[h][u]
      PROVE  \/ IsNew(h, u, k) /\ lists'[h][u][k] = slot
             \/ ~ IsNew(h, u, k) /\ k \in DOMAIN lists[h][u] /\ lists'[h][u][k] = lists[h][u][k]
  <2>1. CASE h = g /\ u = t
    <3>1. lists'[h][u] = ListUpdate(lists[g][t], key, slot)
      BY <1>0, <1>1, <1>2, <2>1
    <3> HIDE DEF g, t, key, slot
    <3> QED BY <2>1, <3>1 DEF ListUpdate
  <2>2. CASE ~ (h = g /\ u = t)
    <3>1. lists'[h][u] = lists[h][u]
      BY <1>0, <1>1, <1>2, <2>2
    <3> QED BY <2>2, <3>1
  <2> QED BY <2>1, <2>2
<1>5. Pending' = Pending /\ FileIsNew'
  BY <1>0, <1>1 DEF Pending, FileIsNew
<1>6. \A h \in Gens, u \in Tables : \A k \in DOMAIN lists[h][u] : lists[h][u][k] # slot
  BY <1>0, <1>1 DEF EntriesApart
<1>7. \A i \in Pending : kvs[i].slot # slot
  BY <1>0, <1>1 DEF PendingApart
<1> HIDE DEF g, t, key, slot, IsNew
<1>8. FreeOnce' /\ FreeOrHandedOut' /\ WritersApart'
  BY <1>0, <1>1, <1>3 DEF HolderInv, FreeOnce, FreeOrHandedOut, Contains, WritersApart
<1>9. EntriesApart'
  <2>1. ASSUME NEW h \in Gens, NEW u \in Tables, NEW k \in DOMAIN lists'[h][u]
        PROVE  /\ lists'[h][u][k] \in idxes_wrote'
               /\ \A v \in Writers : Owns(v)' => lists'[h][u][k] # idx'[v]
    BY <1>0, <1>1, <1>2, <1>3, <1>4, <2>1 DEF EntriesApart
  <2>2. ASSUME NEW h \in Gens, NEW u \in Tables, NEW i \in Gens, NEW x \in Tables,
               NEW k \in DOMAIN lists'[h][u], NEW l \in DOMAIN lists'[i][x],
               lists'[h][u][k] = lists'[i][x][l]
        PROVE  h = i /\ u = x /\ k = l
    <3>1. CASE IsNew(h, u, k) /\ IsNew(i, x, l)
      BY <3>1 DEF IsNew
    <3>2. CASE IsNew(h, u, k) /\ ~ IsNew(i, x, l)
      BY <1>4, <1>6, <2>2, <3>2
    <3>3. CASE ~ IsNew(h, u, k) /\ IsNew(i, x, l)
      BY <1>4, <1>6, <2>2, <3>3
    <3>4. CASE ~ IsNew(h, u, k) /\ ~ IsNew(i, x, l)
      <4>1. k \in DOMAIN lists[h][u] /\ l \in DOMAIN lists[i][x] /\ lists[h][u][k] = lists[i][x][l]
        BY <1>4, <2>2, <3>4
      <4> QED BY <1>0, <4>1 DEF EntriesApart
    <3> QED BY <3>1, <3>2, <3>3, <3>4
  <2> QED BY <2>1, <2>2 DEF EntriesApart
<1>10. PendingApart'
  <2>1. ASSUME NEW i \in Pending
        PROVE  /\ kvs[i].slot \in idxes_wrote
               /\ \A v \in Writers : Owns(v)' => kvs[i].slot # idx'[v]
    BY <1>0, <1>3 DEF PendingApart
  <2>2. ASSUME NEW i \in Pending, NEW h \in Gens, NEW u \in Tables, NEW k \in DOMAIN lists'[h][u]
        PROVE  lists'[h][u][k] # kvs[i].slot
    <3>1. CASE IsNew(h, u, k)
      BY <1>4, <1>7, <3>1
    <3>2. CASE ~ IsNew(h, u, k)
      BY <1>0, <1>4, <3>2 DEF PendingApart
    <3> QED BY <3>1, <3>2
  <2>3. \A i, j \in Pending : kvs[i].slot = kvs[j].slot => i = j
    BY <1>0 DEF PendingApart
  <2> QED BY <1>1, <1>5, <2>1, <2>2, <2>3 DEF PendingApart
<1>11. CopiedRecord'
  BY <1>0, <1>1, <1>3 DEF CopiedRecord
<1>12. EntryPointsToItsRecord'
  <2>1. ASSUME NEW h \in Gens, NEW u \in Tables, NEW k \in DOMAIN lists'[h][u]
        PROVE  data[lists'[h][u][k]].key = k
    <3>1. CASE IsNew(h, u, k)
      BY <1>2, <1>4, <3>1 DEF IsNew
    <3>2. CASE ~ IsNew(h, u, k)
      BY <1>0, <1>4, <3>2 DEF EntryPointsToItsRecord
    <3> QED BY <3>1, <3>2
  <2>2. \A i \in Pending : data[kvs[i].slot].key = kvs[i].key
    BY <1>0 DEF EntryPointsToItsRecord, Pending
  <2> QED BY <1>1, <1>5, <2>1, <2>2 DEF EntryPointsToItsRecord, Pending
<1> QED BY <1>5, <1>8, <1>9, <1>10, <1>11, <1>12 DEF HolderInv, RecordInv

\* The slot goes from an entry to a record of the dumper.
LEMMA MergeHolders ==
  ASSUME TypeInv, HolderInv, RecordInv, MergeRound
  PROVE  HolderInv' /\ RecordInv'
<1>0. /\ lists \in [Gens -> [Tables -> Lists]] /\ kvs \in Seq(Kvs)
      /\ curr_writing.gen \in Gens /\ curr_writing.tables \in Seq(Tables)
      /\ \A i \in Positions : curr_writing.tables[i] \in Tables
      /\ WritersApart /\ EntriesApart /\ PendingApart /\ FileIsNew
      /\ CopiedRecord /\ EntryPointsToItsRecord
  BY ElementOfSeq, LenProperties
  DEF TypeInv, MemOK, DumperOK, HolderInv, RecordInv, Positions
<1>1. PICK p \in Positions, key \in Keys :
        /\ key \in DOMAIN JobList(p)
        /\ kvs' = Append(kvs, [key |-> key, slot |-> JobList(p)[key],
                               from |-> curr_writing.tables[p]])
        /\ lists' = [lists EXCEPT ![curr_writing.gen][curr_writing.tables[p]] = ListPop(@, key)]
  BY DEF MergeRound, Smallest
<1> DEFINE g == curr_writing.gen
           t == curr_writing.tables[p]
           slot == lists[g][t][key]
           n == Len(kvs)
           Popped(h, u, k) == h = g /\ u = t /\ k = key
<1>2. g \in Gens /\ t \in Tables /\ key \in DOMAIN lists[g][t] /\ JobList(p) = lists[g][t]
  BY <1>0, <1>1 DEF JobList
<1>3. /\ n \in Nat /\ Len(kvs') = n + 1 /\ \A i \in 1 .. n : kvs'[i] = kvs[i]
      /\ kvs'[n + 1] = [key |-> key, slot |-> slot, from |-> t]
  <2>1. [key |-> key, slot |-> slot, from |-> t] \in Kvs
    BY <1>0, <1>2 DEF Kvs, Lists
  <2>2. kvs' = Append(kvs, [key |-> key, slot |-> slot, from |-> t])
    BY <1>1, <1>2
  <2> HIDE DEF slot, t
  <2> QED BY <1>0, <2>1, <2>2, AppendProperties
<1>4. /\ dpc = "merge"
      /\ UNCHANGED <<idxes_empty, idxes_wrote, data, file, dpc, rec, pc, idx>>
  BY DEF MergeRound, cacheVars, bufferVars, writerVars
<1>5. ASSUME NEW h \in Gens, NEW u \in Tables, NEW k \in DOMAIN lists'[h][u]
      PROVE  /\ ~ Popped(h, u, k)
             /\ k \in DOMAIN lists[h][u] /\ lists'[h][u][k] = lists[h][u][k]
  <2>1. CASE h = g /\ u = t
    <3>1. lists'[h][u] = ListPop(lists[g][t], key)
      BY <1>0, <1>1, <1>2, <2>1
    <3> HIDE DEF g, t
    <3> QED BY <2>1, <3>1 DEF ListPop
  <2>2. CASE ~ (h = g /\ u = t)
    <3>1. lists'[h][u] = lists[h][u]
      BY <1>0, <1>1, <1>2, <2>2
    <3> QED BY <2>2, <3>1
  <2> QED BY <2>1, <2>2
<1>6. file.vals = << >> /\ Pending = 1 .. n /\ Pending' = 1 .. n + 1 /\ FileIsNew'
  BY <1>0, <1>3, <1>4 DEF FileIsNew, Pending
<1>7. /\ slot \in idxes_wrote /\ data[slot].key = key
      /\ \A v \in Writers : Owns(v) => slot # idx[v]
  BY <1>0, <1>2 DEF EntriesApart, EntryPointsToItsRecord
<1>8. \A h \in Gens, u \in Tables : \A k \in DOMAIN lists'[h][u] : lists'[h][u][k] # slot
  <2>1. SUFFICES ASSUME NEW h \in Gens, NEW u \in Tables, NEW k \in DOMAIN lists'[h][u]
                 PROVE  lists'[h][u][k] # slot
    OBVIOUS
  <2>2. k \in DOMAIN lists[h][u] /\ lists'[h][u][k] = lists[h][u][k] /\ ~ Popped(h, u, k)
    BY <1>5
  <2>3. lists[h][u][k] = slot => h = g /\ u = t /\ k = key
    BY <1>0, <1>2, <2>2 DEF EntriesApart
  <2> QED BY <2>2, <2>3
<1>9. \A i \in 1 .. n : kvs[i].slot # slot
  BY <1>0, <1>2, <1>6 DEF PendingApart
<1>10. kvs'[n + 1].slot = slot /\ kvs'[n + 1].key = key
  BY <1>3
<1> HIDE DEF g, t, slot, n, Popped
<1>11. \A v \in Writers : Owns(v)' <=> Owns(v)
  BY <1>4 DEF Owns
<1>12. FreeOnce' /\ FreeOrHandedOut' /\ WritersApart'
  BY <1>4, <1>11, <1>0 DEF HolderInv, FreeOnce, FreeOrHandedOut, Contains, WritersApart
<1>13. EntriesApart'
  <2>1. \A h \in Gens, u \in Tables : \A k \in DOMAIN lists'[h][u] :
          /\ lists'[h][u][k] \in idxes_wrote'
          /\ \A v \in Writers : Owns(v)' => lists'[h][u][k] # idx'[v]
    BY <1>0, <1>4, <1>5, <1>11 DEF EntriesApart
  <2>2. \A h, i \in Gens, u, x \in Tables :
          \A k \in DOMAIN lists'[h][u], l \in DOMAIN lists'[i][x] :
            lists'[h][u][k] = lists'[i][x][l] => h = i /\ u = x /\ k = l
    <3>1. SUFFICES ASSUME NEW h \in Gens, NEW i \in Gens, NEW u \in Tables, NEW x \in Tables,
                          NEW k \in DOMAIN lists'[h][u], NEW l \in DOMAIN lists'[i][x],
                          lists'[h][u][k] = lists'[i][x][l]
                   PROVE  h = i /\ u = x /\ k = l
      OBVIOUS
    <3>2. k \in DOMAIN lists[h][u] /\ l \in DOMAIN lists[i][x] /\ lists[h][u][k] = lists[i][x][l]
      BY <1>5, <3>1
    <3> QED BY <1>0, <3>2 DEF EntriesApart
  <2> QED BY <2>1, <2>2 DEF EntriesApart
<1>14. PendingApart'
  <2>1. ASSUME NEW i \in 1 .. n + 1
        PROVE  \/ i = n + 1 /\ kvs'[i].slot = slot
               \/ i \in 1 .. n /\ i # n + 1 /\ kvs'[i] = kvs[i] /\ kvs[i].slot # slot
    BY <1>3, <1>9, <1>10
  <2>2. ASSUME NEW i \in 1 .. n + 1
        PROVE  /\ kvs'[i].slot \in idxes_wrote
               /\ \A v \in Writers : Owns(v) => kvs'[i].slot # idx[v]
    BY <1>0, <1>6, <1>7, <2>1 DEF PendingApart
  <2>3. ASSUME NEW i \in 1 .. n + 1, NEW h \in Gens, NEW u \in Tables, NEW k \in DOMAIN lists'[h][u]
        PROVE  lists'[h][u][k] # kvs'[i].slot
    <3>1. CASE kvs'[i].slot = slot
      BY <1>8, <3>1
    <3>2. CASE i \in 1 .. n /\ kvs'[i] = kvs[i]
      BY <1>0, <1>5, <1>6, <3>2 DEF PendingApart
    <3> QED BY <2>1, <3>1, <3>2
  <2>4. ASSUME NEW i \in 1 .. n + 1, NEW j \in 1 .. n + 1, kvs'[i].slot = kvs'[j].slot
        PROVE  i = j
    <3>1. CASE i \in 1 .. n /\ j \in 1 .. n
      <4>1. kvs[i].slot = kvs[j].slot
        BY <1>3, <2>4, <3>1
      <4> QED BY <1>0, <1>6, <3>1, <4>1 DEF PendingApart
    <3>2. CASE i = n + 1 \/ j = n + 1
      BY <2>1, <2>4, <3>2
    <3> QED BY <2>1, <3>1, <3>2
  <2> QED BY <1>4, <1>6, <1>11, <2>2, <2>3, <2>4 DEF PendingApart
<1>15. CopiedRecord'
  BY <1>0, <1>4 DEF CopiedRecord
<1>16. EntryPointsToItsRecord'
  <2>1. \A h \in Gens, u \in Tables : \A k \in DOMAIN lists'[h][u] : data[lists'[h][u][k]].key = k
    BY <1>0, <1>5 DEF EntryPointsToItsRecord
  <2>2. \A i \in 1 .. n : data[kvs[i].slot].key = kvs[i].key
    BY <1>0, <1>6 DEF EntryPointsToItsRecord, Pending
  <2>3. \A i \in 1 .. n + 1 : data[kvs'[i].slot].key = kvs'[i].key
    <3>1. SUFFICES ASSUME NEW i \in 1 .. n + 1 PROVE data[kvs'[i].slot].key = kvs'[i].key
      OBVIOUS
    <3>2. CASE i = n + 1
      BY <1>7, <1>10, <3>2
    <3>3. CASE i # n + 1
      <4>1. i \in 1 .. n
        BY <1>3, <3>3
      <4> QED BY <1>3, <2>2, <4>1
    <3> QED BY <3>2, <3>3
  <2> QED BY <1>4, <1>6, <2>1, <2>3 DEF EntryPointsToItsRecord, Pending
<1> QED BY <1>6, <1>12, <1>13, <1>14, <1>15, <1>16 DEF HolderInv, RecordInv

\* The slot goes back to the free list, and nobody else holds it.
LEMMA ReleaseHolders ==
  ASSUME TypeInv, HolderInv, RecordInv, DumpAppendRelease
  PROVE  HolderInv' /\ RecordInv'
<1> DEFINE m == Len(file.vals) + 1
           slot == NextKv.slot
<1>0. /\ BufferTypeOK /\ FreeOnce /\ FreeOrHandedOut
      /\ WritersApart /\ EntriesApart /\ PendingApart /\ FileIsNew
      /\ Len(file.vals) \in Nat /\ Len(kvs) \in Nat /\ file.vals \in Seq(0 .. MaxWrites)
      /\ file \in Files
  BY LenProperties DEF TypeInv, CacheOK, DumperOK, Files, HolderInv
<1>1. /\ dpc = "inside" /\ dpc' = "ending" /\ ReleaseSlot(slot)
      /\ UNCHANGED <<lists, data, kvs, pc, rec, idx>>
      /\ file' = [file EXCEPT !.vals = Append(@, data[slot].val)]
  BY DEF DumpAppendRelease, writerVars, memVars
<1>2. m \in Pending /\ slot = kvs[m].slot
  BY <1>0, <1>1 DEF TypeInv, DumperOK, Pending, NextKv
<1>3. slot \in idxes_wrote /\ slot \in Slots
  BY <1>0, <1>2 DEF PendingApart, BufferTypeOK
<1>4. FreeOnce' /\ FreeOrHandedOut' /\ idxes_wrote' = idxes_wrote \ {slot}
  <2> HIDE DEF slot
  <2> QED BY <1>0, <1>1, <1>3, ReleaseSlotLemma DEF BufferTypeOK
<1>5. Pending' = Pending \ {m}
  <2>1. Len(file'.vals) = m
    <3>1. file'.vals = Append(file.vals, data[slot].val)
      BY <1>0, <1>1 DEF Files
    <3> HIDE DEF slot
    <3>2. Len(Append(file.vals, data[slot].val)) = Len(file.vals) + 1
      BY <1>0
    <3> QED BY <3>1, <3>2
  <2>2. Len(file'.vals) + 1 .. Len(kvs') = (m .. Len(kvs)) \ {m}
    BY <1>0, <1>1, <2>1
  <2> QED BY <2>2 DEF Pending
<1> HIDE DEF m, slot
<1>6. \A v \in Writers : Owns(v)' <=> Owns(v)
  BY <1>1 DEF Owns
<1>7. WritersApart'
  <2>1. \A v \in Writers : Owns(v) => idx[v] # slot
    BY <1>0, <1>2 DEF PendingApart
  <2> QED BY <1>0, <1>1, <1>4, <1>6, <2>1 DEF WritersApart
<1>8. EntriesApart'
  <2>1. \A g \in Gens, t \in Tables : \A k \in DOMAIN lists[g][t] : lists[g][t][k] # slot
    BY <1>0, <1>2 DEF PendingApart
  <2>2. \A g \in Gens, t \in Tables : \A k \in DOMAIN lists'[g][t] :
          /\ lists'[g][t][k] \in idxes_wrote'
          /\ \A v \in Writers : Owns(v)' => lists'[g][t][k] # idx'[v]
    BY <1>0, <1>1, <1>4, <1>6, <2>1 DEF EntriesApart
  <2> QED BY <1>0, <1>1, <2>2 DEF EntriesApart
<1>9. PendingApart'
  <2>1. \A i \in Pending' : i \in Pending /\ kvs'[i] = kvs[i] /\ kvs[i].slot # slot
    BY <1>0, <1>1, <1>2, <1>5 DEF PendingApart
  <2>2. \A i \in Pending' :
       /\ kvs'[i].slot \in idxes_wrote'
       /\ \A w \in Writers : Owns(w)' => kvs'[i].slot # idx'[w]
       /\ \A g \in Gens, t \in Tables : \A k \in DOMAIN lists'[g][t] :
            lists'[g][t][k] # kvs'[i].slot
    BY <1>0, <1>1, <1>4, <1>6, <2>1 DEF PendingApart
  <2>3. \A i, j \in Pending' : kvs'[i].slot = kvs'[j].slot => i = j
    BY <1>0, <2>1 DEF PendingApart
  <2> QED BY <2>2, <2>3 DEF PendingApart
<1>10. FileIsNew'
  BY <1>1 DEF FileIsNew
<1>11. RecordInv'
  BY <1>1, <1>5, RecordsFrame
<1> QED BY <1>4, <1>7, <1>8, <1>9, <1>10, <1>11 DEF HolderInv

LEMMA HoldersStep == TypeInv /\ HolderInv /\ RecordInv /\ [Next]_vars => HolderInv' /\ RecordInv'
<1> SUFFICES ASSUME TypeInv, HolderInv, RecordInv, [Next]_vars PROVE HolderInv' /\ RecordInv'
  OBVIOUS
<1>1. ASSUME NEW w \in Writers,
             StartWrite(w) \/ ClosedLogUsed(w) \/ WriterStep(w) \/ SpuriousWakeup(w)
      PROVE  HolderInv' /\ RecordInv'
  BY <1>1, WriterKeepsHolders, RequestHolders, CopyHolders, InsertHolders DEF WriterStep
<1>2. CASE DumperStep
  BY <1>2, DumperKeepsHolders, MergeHolders, ReleaseHolders DEF DumperStep
<1>3. CASE UNCHANGED vars
  <2>1. UNCHANGED <<idxes_empty, idxes_wrote, lists, data, idx, pc, rec, kvs, file, dpc>>
    BY <1>3 DEF vars, cacheVars, bufferVars, memVars, writerVars, dumperVars
  <2>2. Pending' = Pending /\ FileIsNew' /\ \A w \in Writers : Owns(w)' => Owns(w)
    BY <2>1 DEF Pending, FileIsNew, Owns, HolderInv
  <2> QED BY <2>1, <2>2, HoldersFrame, RecordsFrame
<1> QED BY <1>1, <1>2, <1>3 DEF Next

LEMMA TypesAndHolders == Spec => [](TypeInv /\ HolderInv /\ RecordInv)
<1>1. TypeInv /\ HolderInv /\ RecordInv /\ [Next]_vars => (TypeInv /\ HolderInv /\ RecordInv)'
  BY TypeInvStep, HoldersStep
<1> QED BY InitTypeInv, InitHolders, <1>1, PTL DEF Spec

\* The holders of a slot, all of one kind or of several, are one.
LEMMA OneHolder ==
  ASSUME TypeInv, HolderInv, NEW s \in Slots, NEW a \in Holders(s), NEW b \in Holders(s)
  PROVE  a = b /\ s \in idxes_wrote
<1> DEFINE WriterHolder(x) == \E w \in Writers : x = <<"writer", w>> /\ Owns(w) /\ idx[w] = s
           EntryHolder(x) == \E g \in Gens, t \in Tables : \E k \in DOMAIN lists[g][t] :
                               x = <<"list", <<g, t, k>>>> /\ lists[g][t][k] = s
           PendingHolder(x) == \E i \in Pending : x = <<"kvs", i>> /\ kvs[i].slot = s
<1>0. WritersApart /\ EntriesApart /\ PendingApart
  BY DEF HolderInv
<1>1. ASSUME NEW x \in Holders(s)
      PROVE  WriterHolder(x) \/ EntryHolder(x) \/ PendingHolder(x)
  <2>1. CASE \E w \in {v \in Writers : Owns(v) /\ idx[v] = s} : x = <<"writer", w>>
    BY <2>1
  <2>2. CASE \E e \in {e \in Gens \X Tables \X Keys :
               /\ e[3] \in DOMAIN lists[e[1]][e[2]]
               /\ lists[e[1]][e[2]][e[3]] = s} : x = <<"list", e>>
    <3>1. PICK e \in Gens \X Tables \X Keys :
            /\ e[3] \in DOMAIN lists[e[1]][e[2]] /\ lists[e[1]][e[2]][e[3]] = s
            /\ x = <<"list", e>>
      BY <2>2
    <3>2. e[1] \in Gens /\ e[2] \in Tables /\ e = <<e[1], e[2], e[3]>>
      BY <3>1
    <3> QED BY <3>1, <3>2
  <2>3. CASE \E i \in {i \in Len(file.vals) + 1 .. Len(kvs) : kvs[i].slot = s} : x = <<"kvs", i>>
    BY <2>3 DEF Pending
  <2> QED BY <2>1, <2>2, <2>3 DEF Holders
<1>2. CASE WriterHolder(a) /\ WriterHolder(b)
  BY <1>0, <1>2 DEF WritersApart
<1>3. CASE EntryHolder(a) /\ EntryHolder(b)
  <2>1. PICK g \in Gens, t \in Tables : \E k \in DOMAIN lists[g][t] :
          a = <<"list", <<g, t, k>>>> /\ lists[g][t][k] = s
    BY <1>3
  <2>2. PICK k \in DOMAIN lists[g][t] : a = <<"list", <<g, t, k>>>> /\ lists[g][t][k] = s
    BY <2>1
  <2>3. PICK h \in Gens, u \in Tables : \E l \in DOMAIN lists[h][u] :
          b = <<"list", <<h, u, l>>>> /\ lists[h][u][l] = s
    BY <1>3
  <2>4. PICK l \in DOMAIN lists[h][u] : b = <<"list", <<h, u, l>>>> /\ lists[h][u][l] = s
    BY <2>3
  <2>5. g = h /\ t = u /\ k = l /\ s \in idxes_wrote
    BY <1>0, <2>2, <2>4 DEF EntriesApart
  <2> QED BY <2>2, <2>4, <2>5
<1>4. CASE PendingHolder(a) /\ PendingHolder(b)
  BY <1>0, <1>4 DEF PendingApart
<1>5. ASSUME NEW x, NEW y, WriterHolder(x), EntryHolder(y) PROVE FALSE
  BY <1>0, <1>5 DEF EntriesApart
<1>6. ASSUME NEW x, NEW y, WriterHolder(x), PendingHolder(y) PROVE FALSE
  BY <1>0, <1>6 DEF PendingApart
<1>7. ASSUME NEW x, NEW y, EntryHolder(x), PendingHolder(y) PROVE FALSE
  BY <1>0, <1>7 DEF PendingApart
<1> HIDE DEF WriterHolder, EntryHolder, PendingHolder
<1> QED BY <1>1, <1>2, <1>3, <1>4, <1>5, <1>6, <1>7

\* At every moment a slot of the cache has one holder at most, a writer that
\* fills it, an entry of a list, or a record the dumper has yet to append, and
\* none once it is free: two records never share a slot, and release_buff is
\* never called for a slot that somebody else was given meanwhile.
THEOREM SlotHasOneHolder == Spec => []SingleHolder
<1>1. ASSUME TypeInv, HolderInv PROVE SingleHolder
  <2>1. SUFFICES ASSUME NEW s \in Slots
                 PROVE  /\ Cardinality(Holders(s)) <= 1
                        /\ Holders(s) # {} => s \in idxes_wrote
    BY DEF SingleHolder
  <2>2. CASE Holders(s) = {}
    BY <2>2, FS_EmptySet
  <2>3. CASE Holders(s) # {}
    <3>1. PICK a : a \in Holders(s)
      BY <2>3
    <3>2. Holders(s) = {a} /\ s \in idxes_wrote
      BY <1>1, <3>1, OneHolder
    <3> QED BY <3>2, FS_Singleton
  <2> QED BY <2>2, <2>3
<1> QED BY <1>1, TypesAndHolders, PTL

\* Whatever a list or the dumper points at is a record of the key it is kept
\* under: a writer fills a slot before it publishes it, and nobody else writes
\* to the slot until the dumper has released it.
THEOREM EntriesPointRight == Spec => []EntryPointsToItsRecord
<1>1. RecordInv => EntryPointsToItsRecord
  BY DEF RecordInv
<1> QED BY <1>1, TypesAndHolders, PTL

-----------------------------------------------------------------------------
(* The refinement, one step after the other                                *)

LEMMA ClientLabels ==
  /\ ClientLabel("idle") = "idle" /\ ClientLabel("request") = "request"
  /\ ClientLabel("access") = "access" /\ ClientLabel("inside") = "inside"
  /\ ClientLabel("hash") = "publish" /\ ClientLabel("get") = "publish"
  /\ ClientLabel("probe") = "publish" /\ ClientLabel("update") = "publish"
  /\ ClientLabel("count") = "idle" /\ ClientLabel("switch") = "idle"
  /\ ClientLabel("asleep") = "idle" /\ ClientLabel("submit") = "idle"
  /\ ClientLabel("push") = "idle"
BY DEF ClientLabel

\* The state of the clients, thread by thread.
LEMMA ClientState ==
  /\ \A w \in Writers : clientPc[w] = ClientLabel(pc[w]) /\ clientIdx[w] = idx[w]
  /\ clientPc[Loader] = "done"
  /\ clientPc[Dumper] = IF Dumping THEN dpc ELSE "idle"
  /\ clientIdx[Dumper] = IF Dumping THEN DumpedSlot ELSE NoSlot
BY RefinementAssumption DEF clientPc, clientIdx

LEMMA InitRefines == Init => Clients!Init
<1> SUFFICES ASSUME Init PROVE Clients!Init
  OBVIOUS
<1>1. BufferInit /\ pc = [w \in Writers |-> "idle"] /\ idx = [w \in Writers |-> NoSlot] /\ dpc = "idle"
  BY DEF Init
<1>2. Clients!BufferInit
  BY <1>1 DEF BufferInit, Clients!BufferInit, Slots, Clients!Slots
<1>3. clientPc = [t \in Clients!Threads |-> IF t = Loader THEN "done" ELSE "idle"]
  BY <1>1, ClientLabels DEF clientPc, Clients!Threads, Clients!Fillers, Dumping
<1>4. clientIdx = [t \in Clients!Threads |-> Clients!NoSlot]
  BY <1>1 DEF clientIdx, Clients!Threads, Clients!Fillers, Clients!NoSlot, NoSlot, Dumping
<1>5. clientPublished = {}
  BY <1>1 DEF clientPublished, BufferInit
<1> QED BY <1>2, <1>3, <1>4, <1>5 DEF Clients!Init

\* A writer goes to another label, and perhaps to another slot.
LEMMA WriterMoves ==
  ASSUME TypeInv, NEW w \in Writers, NEW label, NEW s,
         pc' = [pc EXCEPT ![w] = label], idx' = [idx EXCEPT ![w] = s],
         dpc' = dpc, kvs' = kvs, file' = file
  PROVE  /\ clientPc' = [clientPc EXCEPT ![w] = ClientLabel(label)]
         /\ clientIdx' = [clientIdx EXCEPT ![w] = s]
<1>0. /\ pc \in [Writers -> WriterLabels] /\ idx \in [Writers -> Slots \cup {NoSlot}]
      /\ Dumping' = Dumping /\ DumpedSlot' = DumpedSlot
  BY DEF TypeInv, WriterOK, Dumping, DumpedSlot, LastKv, NextKv
<1>1. clientPc' = [clientPc EXCEPT ![w] = ClientLabel(label)]
  BY <1>0, RefinementAssumption DEF clientPc
<1>2. clientIdx' = [clientIdx EXCEPT ![w] = s]
  BY <1>0, RefinementAssumption DEF clientIdx
<1> QED BY <1>1, <1>2

\* The dumper moves, and the writers do not.
LEMMA DumperMoves ==
  ASSUME UNCHANGED <<pc, idx>>
  PROVE  /\ clientPc' = [clientPc EXCEPT ![Dumper] = IF Dumping' THEN dpc' ELSE "idle"]
         /\ clientIdx' = [clientIdx EXCEPT ![Dumper] = IF Dumping' THEN DumpedSlot' ELSE NoSlot]
<1>1. clientPc' = [clientPc EXCEPT ![Dumper] = IF Dumping' THEN dpc' ELSE "idle"]
  BY RefinementAssumption DEF clientPc
<1>2. clientIdx' = [clientIdx EXCEPT ![Dumper] = IF Dumping' THEN DumpedSlot' ELSE NoSlot]
  BY RefinementAssumption DEF clientIdx
<1> QED BY <1>1, <1>2

\* The slot the dumper works on is one of its records.
LEMMA DumpedIsPending ==
  ASSUME TypeInv, HolderInv, dpc \in {"access", "inside"}
  PROVE  /\ DumpedSlot = NextKv.slot /\ DumpedSlot \in Slots /\ DumpedSlot \in idxes_wrote
         /\ \A w \in Writers : Owns(w) => idx[w] # DumpedSlot
<1>1. Len(file.vals) \in Nat /\ Len(kvs) \in Nat /\ Len(file.vals) + 1 \in Pending
  BY LenProperties DEF TypeInv, DumperOK, Files, Pending
<1>2. DumpedSlot = NextKv.slot /\ NextKv = kvs[Len(file.vals) + 1]
  BY DEF DumpedSlot, NextKv
<1>3. PendingApart /\ idxes_wrote \in SUBSET Slots
  BY DEF HolderInv, TypeInv, CacheOK, BufferTypeOK
<1> QED BY <1>1, <1>2, <1>3 DEF PendingApart

\* DBSystem::write, as far as the cache sees it.
LEMMA WriterRefines ==
  ASSUME TypeInv, HolderInv, NEW w \in Writers,
         StartWrite(w) \/ RequestBuff(w) \/ WriteAccess(w) \/ Copy(w) \/ ListInsert(w)
  PROVE  Clients!Next
<1>0. /\ pc \in [Writers -> WriterLabels] /\ idx \in [Writers -> Slots \cup {NoSlot}]
      /\ w \in Clients!Threads /\ w \in Clients!Fillers /\ w # Loader /\ w # Dumper
      /\ WritersApart
  BY RefinementAssumption DEF TypeInv, WriterOK, Clients!Threads, Clients!Fillers, HolderInv
<1>a. Clients!NotifyOne({}, {})
  BY DEF Clients!NotifyOne
<1>b. idx = [idx EXCEPT ![w] = idx[w]]
  BY <1>0
<1>c. clientPc[w] = ClientLabel(pc[w]) /\ clientIdx[w] = idx[w]
  BY ClientState
<1>1. CASE StartWrite(w)
  <2>1. /\ pc[w] = "idle" /\ pc' = [pc EXCEPT ![w] = "request"] /\ idx' = idx
        /\ UNCHANGED bufferVars /\ dpc' = dpc /\ kvs' = kvs /\ file' = file
    BY <1>1 DEF StartWrite, LogAppend, Goto, cacheVars, dumperVars
  <2>2. clientPc' = [clientPc EXCEPT ![w] = "request"] /\ clientIdx' = [clientIdx EXCEPT ![w] = idx[w]]
    <3>1. idx' = [idx EXCEPT ![w] = idx[w]]
      BY <1>b, <2>1
    <3>2. /\ clientPc' = [clientPc EXCEPT ![w] = ClientLabel("request")]
          /\ clientIdx' = [clientIdx EXCEPT ![w] = idx[w]]
      BY <2>1, <3>1, WriterMoves, Zenon
    <3> QED BY <3>2, ClientLabels
  <2>3. clientIdx' = clientIdx
    BY <2>2, <1>c DEF clientIdx
  <2>4. clientPublished' = clientPublished
    <3>1. \A v \in Writers : Owns(v)' <=> Owns(v)
      BY <1>0, <2>1 DEF Owns
    <3> QED BY <2>1, <3>1 DEF clientPublished, bufferVars, DumpedSlot, LastKv, NextKv
  <2>5. clientPc[w] = "idle" /\ clientPc[Loader] = "done"
    BY <1>c, <2>1, ClientLabels, ClientState
  <2> QED BY <2>1, <2>2, <2>3, <2>4, <2>5
          DEF Clients!Next, Clients!StartWrite, Clients!Goto, Clients!bufferVars, bufferVars
<1>2. CASE RequestBuff(w)
  <2>1. PICK s \in Slots : RequestSlot(s) /\ idx' = [idx EXCEPT ![w] = s]
    BY <1>2 DEF RequestBuff
  <2>2. /\ pc[w] = "request" /\ pc' = [pc EXCEPT ![w] = "access"] /\ accessing' = accessing
        /\ dpc' = dpc /\ kvs' = kvs /\ file' = file
    BY <1>2 DEF RequestBuff, Goto, dumperVars
  <2>3. clientPc' = [clientPc EXCEPT ![w] = "access"] /\ clientIdx' = [clientIdx EXCEPT ![w] = s]
    <3>1. /\ clientPc' = [clientPc EXCEPT ![w] = ClientLabel("access")]
          /\ clientIdx' = [clientIdx EXCEPT ![w] = s]
      BY <2>1, <2>2, WriterMoves, Zenon
    <3> QED BY <3>1, ClientLabels
  <2>4. clientPublished' = clientPublished
    <3>1. s \notin idxes_wrote /\ idxes_wrote' = idxes_wrote \cup {s}
      <4>1. s \notin idxes_wrote
        BY <2>1, RequestSlotLemma DEF TypeInv, CacheOK, BufferTypeOK, HolderInv
      <4> QED BY <2>1, <4>1 DEF RequestSlot
    <3>2. /\ \A v \in Writers : Owns(v)' <=> Owns(v) \/ v = w
          /\ idx'[w] = s /\ \A v \in Writers : v # w => idx'[v] = idx[v]
          /\ ~ Owns(w)
      BY <1>0, <2>1, <2>2 DEF Owns
    <3>3. DumpedSlot' = DumpedSlot /\ dpc' = dpc
      BY <2>2 DEF DumpedSlot, LastKv, NextKv
    <3>4. \A x \in idxes_wrote : (\A v \in Writers : Owns(v)' => idx'[v] # x)
                                   <=> (\A v \in Writers : Owns(v) => idx[v] # x)
      BY <3>1, <3>2
    <3> QED BY <3>1, <3>2, <3>3, <3>4 DEF clientPublished
  <2>5. Clients!RequestSlot(s) /\ s \in Clients!Slots
    BY <2>1 DEF RequestSlot, Clients!RequestSlot, Slots, Clients!Slots,
       Last, Front, Clients!Last, Clients!Front
  <2>6. Clients!Request(w)
    BY <1>a, <1>c, <2>2, <2>3, <2>4, <2>5, ClientLabels DEF Clients!Request, Clients!Goto
  <2> QED BY <1>0, <2>6 DEF Clients!Next, Clients!Step
<1>3. CASE WriteAccess(w)
  <2>1. /\ pc[w] = "access" /\ pc' = [pc EXCEPT ![w] = "inside"] /\ idx' = idx
        /\ Accessible(idx[w]) /\ LockSlot(idx[w])
        /\ UNCHANGED <<idxes_empty, idxes_wrote>> /\ dpc' = dpc /\ kvs' = kvs /\ file' = file
    BY <1>3 DEF WriteAccess, Goto, dumperVars
  <2>2. clientPc' = [clientPc EXCEPT ![w] = "inside"] /\ clientIdx' = [clientIdx EXCEPT ![w] = idx[w]]
    <3>1. idx' = [idx EXCEPT ![w] = idx[w]]
      BY <1>b, <2>1
    <3>2. /\ clientPc' = [clientPc EXCEPT ![w] = ClientLabel("inside")]
          /\ clientIdx' = [clientIdx EXCEPT ![w] = idx[w]]
      BY <2>1, <3>1, WriterMoves, Zenon
    <3> QED BY <3>2, ClientLabels
  <2>3. clientIdx' = clientIdx
    BY <2>2, <1>c DEF clientIdx
  <2>4. clientPublished' = clientPublished
    <3>1. \A v \in Writers : Owns(v)' <=> Owns(v)
      BY <1>0, <2>1 DEF Owns
    <3> QED BY <2>1, <3>1 DEF clientPublished, DumpedSlot, LastKv, NextKv
  <2>5. Clients!Accessible(clientIdx[w]) /\ Clients!LockSlot(clientIdx[w])
    BY <1>c, <2>1 DEF Accessible, LockSlot, Clients!Accessible, Clients!LockSlot
  <2>6. Clients!Access(w)
    BY <1>c, <2>1, <2>2, <2>3, <2>4, <2>5, ClientLabels DEF Clients!Access, Clients!Goto
  <2> QED BY <1>0, <2>6 DEF Clients!Next, Clients!Step
<1>4. CASE Copy(w)
  <2>1. /\ pc[w] = "inside" /\ pc' = [pc EXCEPT ![w] = "hash"] /\ idx' = idx
        /\ UnlockSlot(idx[w])
        /\ UNCHANGED <<idxes_empty, idxes_wrote>> /\ dpc' = dpc /\ kvs' = kvs /\ file' = file
    BY <1>4 DEF Copy, Goto, dumperVars
  <2>2. clientPc' = [clientPc EXCEPT ![w] = "publish"] /\ clientIdx' = [clientIdx EXCEPT ![w] = idx[w]]
    <3>1. idx' = [idx EXCEPT ![w] = idx[w]]
      BY <1>b, <2>1
    <3>2. /\ clientPc' = [clientPc EXCEPT ![w] = ClientLabel("hash")]
          /\ clientIdx' = [clientIdx EXCEPT ![w] = idx[w]]
      BY <2>1, <3>1, WriterMoves, Zenon
    <3> QED BY <3>2, ClientLabels
  <2>3. clientIdx' = clientIdx
    BY <2>2, <1>c DEF clientIdx
  <2>4. clientPublished' = clientPublished
    <3>1. \A v \in Writers : Owns(v)' <=> Owns(v)
      BY <1>0, <2>1 DEF Owns
    <3> QED BY <2>1, <3>1 DEF clientPublished, DumpedSlot, LastKv, NextKv
  <2>5. Clients!UnlockSlot(clientIdx[w])
    BY <1>c, <2>1 DEF UnlockSlot, Clients!UnlockSlot
  <2>6. Clients!EndFill(w)
    BY <1>0, <1>a, <1>c, <2>1, <2>2, <2>3, <2>4, <2>5, ClientLabels
    DEF Clients!EndFill, Clients!EndAccess, Clients!Goto
  <2> QED BY <1>0, <2>6 DEF Clients!Next, Clients!Step
<1>5. CASE ListInsert(w)
  <2>1. /\ pc[w] = "update" /\ pc' = [pc EXCEPT ![w] = "count"] /\ idx' = [idx EXCEPT ![w] = NoSlot]
        /\ UNCHANGED bufferVars /\ dpc' = dpc /\ kvs' = kvs /\ file' = file
    BY <1>5 DEF ListInsert, Goto, cacheVars, dumperVars
  <2>2. clientPc' = [clientPc EXCEPT ![w] = "idle"] /\ clientIdx' = [clientIdx EXCEPT ![w] = NoSlot]
    <3>1. /\ clientPc' = [clientPc EXCEPT ![w] = ClientLabel("count")]
          /\ clientIdx' = [clientIdx EXCEPT ![w] = NoSlot]
      BY <2>1, WriterMoves, Zenon
    <3> QED BY <3>1, ClientLabels
  <2>3. clientPublished' = clientPublished \cup {idx[w]}
    <3>1. /\ \A v \in Writers : Owns(v)' <=> Owns(v) /\ v # w
          /\ \A v \in Writers : v # w => idx'[v] = idx[v]
          /\ Owns(w)
      BY <1>0, <2>1 DEF Owns
    <3>2. idx[w] \in idxes_wrote /\ \A v \in Writers : Owns(v) /\ v # w => idx[v] # idx[w]
      BY <1>0, <3>1 DEF WritersApart
    <3>3. DumpedSlot' = DumpedSlot /\ dpc' = dpc /\ idxes_wrote' = idxes_wrote
      BY <2>1 DEF DumpedSlot, LastKv, NextKv, bufferVars
    <3>4. dpc \in {"access", "inside"} => DumpedSlot # idx[w]
      BY <3>1, DumpedIsPending
    <3>5. \A x \in idxes_wrote : (\A v \in Writers : Owns(v)' => idx'[v] # x)
                                   <=> (\A v \in Writers : Owns(v) => idx[v] # x) \/ x = idx[w]
      BY <3>1, <3>2
    <3> QED BY <3>2, <3>3, <3>4, <3>5 DEF clientPublished
  <2>4. Clients!Publish(w)
    BY <1>0, <1>c, <2>1, <2>2, <2>3, ClientLabels
    DEF Clients!Publish, Clients!Goto, Clients!bufferVars, bufferVars, Clients!NoSlot, NoSlot
  <2> QED BY <1>0, <2>4 DEF Clients!Next, Clients!Step
<1> QED BY <1>1, <1>2, <1>3, <1>4, <1>5

\* What the cache does not see.
LEMMA Invisible ==
  ASSUME UNCHANGED bufferVars, idx' = idx,
         \A w \in Writers : ClientLabel(pc'[w]) = ClientLabel(pc[w]) /\ (Owns(w)' <=> Owns(w)),
         (dpc' = dpc /\ kvs' = kvs /\ file' = file) \/ (~ Dumping /\ ~ Dumping')
  PROVE  UNCHANGED Clients!vars
<1>1. clientPc' = clientPc
  BY DEF clientPc, Dumping
<1>2. clientIdx' = clientIdx
  BY DEF clientIdx, Dumping, DumpedSlot, LastKv, NextKv
<1>3. clientPublished' = clientPublished
  BY DEF clientPublished, bufferVars, Dumping, DumpedSlot, LastKv, NextKv
<1> QED BY <1>1, <1>2, <1>3 DEF Clients!vars, Clients!bufferVars, bufferVars

LEMMA WriterInvisible ==
  ASSUME TypeInv, NEW w \in Writers,
         \/ WriteHash(w) \/ GetMemtable(w) \/ ProbeLocked(w) \/ ProbeFree(w)
         \/ Count(w) \/ SwitchLog(w) \/ SwitchLogAgain(w) \/ SpuriousWakeup(w)
         \/ SubmitDump(w) \/ PushDump(w) \/ ListInsertRacing(w) \/ ClosedLogUsed(w)
  PROVE  UNCHANGED Clients!vars
<1>0. pc \in [Writers -> WriterLabels]
  BY DEF TypeInv, WriterOK
<1>1. UNCHANGED <<bufferVars, idx, dpc, kvs, file>>
  BY DEF WriteHash, GetMemtable, ProbeLocked, ProbeFree, Count, Ack, SwitchLog, SwitchLogAgain,
     SpuriousWakeup, SubmitDump, PushDump, ListInsertRacing, ClosedLogUsed, LogAppendClosed,
     SwitchLogClosed, Undefined,
     cacheVars, writerVars, dumperVars
<1>2. \A v \in Writers : ClientLabel(pc'[v]) = ClientLabel(pc[v]) /\ (Owns(v)' <=> Owns(v))
  <2>1. CASE WriteHash(w) \/ GetMemtable(w) \/ ProbeLocked(w) \/ ProbeFree(w)
    BY <1>0, <2>1, ClientLabels DEF WriteHash, GetMemtable, ProbeLocked, ProbeFree, Goto, Owns
  <2>2. CASE Count(w) \/ SwitchLog(w) \/ SwitchLogAgain(w)
    BY <1>0, <2>2, ClientLabels DEF Count, Ack, SwitchLog, SwitchLogAgain, Goto, Owns
  <2>3. CASE SubmitDump(w) \/ PushDump(w)
    BY <1>0, <2>3, ClientLabels DEF SubmitDump, PushDump, Ack, Goto, Owns
  <2>4. CASE SpuriousWakeup(w) \/ ListInsertRacing(w) \/ ClosedLogUsed(w)
    BY <2>4 DEF SpuriousWakeup, ListInsertRacing, ClosedLogUsed,
         LogAppendClosed, SwitchLogClosed, Undefined, writerVars, Owns
  <2> QED BY <2>1, <2>2, <2>3, <2>4
<1> QED BY <1>1, <1>2, Invisible

\* The dumper turns to its next record, or has none left.
LEMMA NextRecordRefines ==
  ASSUME TypeInv, HolderInv, TypeInv', HolderInv', UNCHANGED <<bufferVars, pc, idx>>,
         ~ Dumping, dpc' \in {"access", "insert"}
  PROVE  Clients!Next \/ UNCHANGED Clients!vars
<1>0. \A w \in Writers : Owns(w)' <=> Owns(w)
  BY DEF Owns
<1>1. CASE dpc' = "insert"
  <2>1. ~ Dumping'
    BY <1>1 DEF Dumping
  <2> QED BY <1>0, <2>1, Invisible
<1>2. CASE dpc' = "access"
  <2> DEFINE s == DumpedSlot'
  <2>1. /\ s \in Slots /\ s \in idxes_wrote'
        /\ \A w \in Writers : Owns(w)' => idx'[w] # s
    <3>1. Len(file'.vals) \in Nat /\ Len(kvs') \in Nat /\ Len(file'.vals) + 1 \in Pending'
      BY <1>2, LenProperties DEF TypeInv, DumperOK, Files, Pending
    <3>2. s = kvs'[Len(file'.vals) + 1].slot
      BY <1>2 DEF DumpedSlot, NextKv
    <3>3. PendingApart' /\ (idxes_wrote \in SUBSET Slots)'
      BY DEF HolderInv, TypeInv, CacheOK, BufferTypeOK
    <3> QED BY <3>1, <3>2, <3>3 DEF PendingApart
  <2>2. Dumping' /\ dpc \notin {"access", "inside"}
    BY <1>2 DEF Dumping
  <2>3. /\ clientPc' = [clientPc EXCEPT ![Dumper] = "access"]
        /\ clientIdx' = [clientIdx EXCEPT ![Dumper] = s]
    <3>1. /\ clientPc' = [clientPc EXCEPT ![Dumper] = IF Dumping' THEN dpc' ELSE "idle"]
          /\ clientIdx' = [clientIdx EXCEPT ![Dumper] = IF Dumping' THEN DumpedSlot' ELSE NoSlot]
      BY DumperMoves
    <3> QED BY <1>2, <2>2, <3>1
  <2>4. s \in clientPublished
    BY <1>0, <2>1, <2>2 DEF clientPublished, bufferVars
  <2>5. clientPublished' = clientPublished \ {s}
    BY <1>0, <1>2, <2>2 DEF clientPublished, bufferVars
  <2>6. clientPc[Dumper] = "idle"
    BY ClientState
  <2>7. s \in Clients!Slots
    BY <2>1 DEF Slots, Clients!Slots
  <2>8. Clients!StartDump(s)
    BY <2>3, <2>4, <2>5, <2>6
    DEF Clients!StartDump, Clients!Goto, Clients!bufferVars, bufferVars
  <2> QED BY <2>7, <2>8 DEF Clients!Next
<1> QED BY <1>1, <1>2

\* dump_all, as far as the cache sees it.
LEMMA DumperRefines ==
  ASSUME TypeInv, HolderInv, TypeInv', HolderInv', DumperStep
  PROVE  Clients!Next \/ UNCHANGED Clients!vars
<1>0. /\ Dumper \in Clients!Threads /\ Clients!NotifyOne({}, {})
      /\ file \in Files /\ Len(file.vals) \in Nat /\ Len(kvs) \in Nat
      /\ file.vals \in Seq(0 .. MaxWrites)
  BY LenProperties DEF Clients!Threads, Clients!NotifyOne, TypeInv, DumperOK, Files
<1>1. CASE TakeJob \/ MergeRound \/ MergeDone \/ InsertRecord \/ EndDumping
  <2>1. UNCHANGED <<bufferVars, idx, pc>> /\ ~ Dumping /\ ~ Dumping'
    BY <1>1 DEF TakeJob, MergeRound, MergeDone, InsertRecord, EndDumping, cacheVars, writerVars,
       Dumping
  <2> QED BY <2>1, Invisible DEF Owns
<1>2. CASE DumpFreedKeys \/ InsertEmpty
  <2>1. UNCHANGED <<bufferVars, idx, pc>> /\ dpc' = dpc /\ kvs' = kvs /\ file' = file
    BY <1>2 DEF DumpFreedKeys, InsertEmpty, Undefined, cacheVars, writerVars, dumperVars
  <2> QED BY <2>1, Invisible DEF Owns
<1>3. CASE DumpKeys \/ DumpHash
  <2>1. UNCHANGED <<bufferVars, pc, idx>> /\ ~ Dumping /\ dpc' \in {"access", "insert"}
    BY <1>3 DEF DumpKeys, DumpHash, NextRecord, cacheVars, writerVars, Dumping
  <2> QED BY <2>1, NextRecordRefines
<1>4. CASE DumpAccess
  <2>1. /\ dpc = "access" /\ dpc' = "inside" /\ Dumping /\ Dumping'
        /\ UNCHANGED <<idxes_empty, idxes_wrote, pc, idx, kvs, file>>
        /\ Accessible(NextKv.slot) /\ LockSlot(NextKv.slot)
    BY <1>4 DEF DumpAccess, writerVars, Dumping
  <2>2. DumpedSlot = NextKv.slot /\ DumpedSlot' = DumpedSlot
    BY <2>1 DEF DumpedSlot, NextKv
  <2>3. /\ clientPc' = [clientPc EXCEPT ![Dumper] = "inside"]
        /\ clientIdx' = [clientIdx EXCEPT ![Dumper] = DumpedSlot]
    <3>1. /\ clientPc' = [clientPc EXCEPT ![Dumper] = IF Dumping' THEN dpc' ELSE "idle"]
          /\ clientIdx' = [clientIdx EXCEPT ![Dumper] = IF Dumping' THEN DumpedSlot' ELSE NoSlot]
      BY <2>1, DumperMoves
    <3> QED BY <2>1, <2>2, <3>1
  <2>4. clientPc[Dumper] = "access" /\ clientIdx[Dumper] = DumpedSlot
    BY <2>1, ClientState
  <2>5. clientIdx' = clientIdx
    BY <2>3, <2>4 DEF clientIdx
  <2>6. clientPublished' = clientPublished
    BY <2>1, <2>2 DEF clientPublished, Owns
  <2>7. Clients!Accessible(clientIdx[Dumper]) /\ Clients!LockSlot(clientIdx[Dumper])
    BY <2>1, <2>2, <2>4 DEF Accessible, LockSlot, Clients!Accessible, Clients!LockSlot
  <2>8. Clients!Access(Dumper)
    BY <2>1, <2>3, <2>4, <2>5, <2>6, <2>7 DEF Clients!Access, Clients!Goto
  <2> QED BY <1>0, <2>8 DEF Clients!Next, Clients!Step
<1>5. CASE DumpAppendRelease
  <2>1. /\ dpc = "inside" /\ dpc' = "ending" /\ Dumping /\ Dumping'
        /\ UNCHANGED <<accessing, pc, idx, kvs>> /\ ReleaseSlot(NextKv.slot)
        /\ file' = [file EXCEPT !.vals = Append(@, data[NextKv.slot].val)]
    BY <1>5 DEF DumpAppendRelease, writerVars, Dumping
  <2>2. DumpedSlot = NextKv.slot
    BY <2>1 DEF DumpedSlot
  <2>3. DumpedSlot' = NextKv.slot
    <3> DEFINE v == data[NextKv.slot].val
    <3>1. file'.vals = Append(file.vals, v)
      BY <1>0, <2>1 DEF Files
    <3> HIDE DEF v
    <3>2. Len(file'.vals) = Len(file.vals) + 1
      BY <1>0, <3>1
    <3> QED BY <2>1, <3>2 DEF DumpedSlot, LastKv, NextKv
  <2>4. /\ clientPc' = [clientPc EXCEPT ![Dumper] = "ending"]
        /\ clientIdx' = [clientIdx EXCEPT ![Dumper] = DumpedSlot]
    <3>1. /\ clientPc' = [clientPc EXCEPT ![Dumper] = IF Dumping' THEN dpc' ELSE "idle"]
          /\ clientIdx' = [clientIdx EXCEPT ![Dumper] = IF Dumping' THEN DumpedSlot' ELSE NoSlot]
      BY <2>1, DumperMoves
    <3> QED BY <2>1, <2>2, <2>3, <3>1
  <2>5. clientPc[Dumper] = "inside" /\ clientIdx[Dumper] = DumpedSlot
    BY <2>1, ClientState
  <2>6. clientIdx' = clientIdx
    BY <2>4, <2>5 DEF clientIdx
  <2>7. clientPublished' = clientPublished
    <3>1. idxes_wrote' = idxes_wrote \ {DumpedSlot}
      BY <2>1, <2>2 DEF ReleaseSlot
    <3>2. \A w \in Writers : Owns(w)' <=> Owns(w)
      BY <2>1 DEF Owns
    <3> QED BY <2>1, <3>1, <3>2 DEF clientPublished
  <2>8. Clients!ReleaseSlot(clientIdx[Dumper])
    BY <2>1, <2>2, <2>5 DEF ReleaseSlot, Releasable, Clients!ReleaseSlot, Clients!Releasable
  <2>9. Clients!DumpRelease
    BY <1>0, <2>1, <2>4, <2>5, <2>6, <2>7, <2>8
    DEF Clients!DumpRelease, Clients!Release, Clients!Goto
  <2> QED BY <2>9 DEF Clients!Next, Clients!DumperStep
<1>6. CASE DumpEndAccess
  <2>1. /\ dpc = "ending" /\ dpc' = "hash" /\ Dumping /\ ~ Dumping'
        /\ UNCHANGED <<idxes_empty, idxes_wrote, pc, idx, kvs, file>>
        /\ UnlockSlot(LastKv.slot)
    BY <1>6 DEF DumpEndAccess, writerVars, Dumping
  <2>2. /\ clientPc' = [clientPc EXCEPT ![Dumper] = "idle"]
        /\ clientIdx' = [clientIdx EXCEPT ![Dumper] = NoSlot]
    <3>1. /\ clientPc' = [clientPc EXCEPT ![Dumper] = IF Dumping' THEN dpc' ELSE "idle"]
          /\ clientIdx' = [clientIdx EXCEPT ![Dumper] = IF Dumping' THEN DumpedSlot' ELSE NoSlot]
      BY <2>1, DumperMoves
    <3> QED BY <2>1, <3>1
  <2>3. clientPc[Dumper] = "ending" /\ clientIdx[Dumper] = LastKv.slot
    BY <2>1, ClientState DEF DumpedSlot
  <2>4. clientPublished' = clientPublished
    BY <2>1 DEF clientPublished, Owns
  <2>5. Clients!UnlockSlot(clientIdx[Dumper])
    BY <2>1, <2>3 DEF UnlockSlot, Clients!UnlockSlot
  <2>6. Clients!DumpEnd
    BY <1>0, <2>1, <2>2, <2>3, <2>4, <2>5
    DEF Clients!DumpEnd, Clients!EndAccess, Clients!Goto, Clients!NoSlot, NoSlot
  <2> QED BY <2>6 DEF Clients!Next, Clients!DumperStep
<1> QED BY <1>1, <1>2, <1>3, <1>4, <1>5, <1>6 DEF DumperStep

LEMMA StepRefines ==
  ASSUME TypeInv, HolderInv, TypeInv', HolderInv', [Next]_vars
  PROVE  [Clients!Next]_(Clients!vars)
<1>1. ASSUME NEW w \in Writers,
             StartWrite(w) \/ ClosedLogUsed(w) \/ WriterStep(w) \/ SpuriousWakeup(w)
      PROVE  Clients!Next \/ UNCHANGED Clients!vars
  BY <1>1, WriterRefines, WriterInvisible DEF WriterStep
<1>2. CASE DumperStep
  BY <1>2, DumperRefines
<1>3. CASE UNCHANGED vars
  <2>1. UNCHANGED <<bufferVars, idx, pc>> /\ dpc' = dpc /\ kvs' = kvs /\ file' = file
    BY <1>3 DEF vars, cacheVars, writerVars, dumperVars
  <2> QED BY <2>1, Invisible DEF Owns
<1> QED BY <1>1, <1>2, <1>3 DEF Next

\* The engine uses the cache as BufferClients says: every critical section on
\* the cache that a write or a dump enters is one of a client's, with the slots
\* that the lists and the dumper carry as the published ones, and whatever else
\* the engine does is invisible.  So what BufferProofs proves of the clients,
\* such as SlotAccounting and ExclusiveAccess, holds of the engine.
THEOREM EngineIsCacheClient == Spec => RefinesBufferClients
<1>1. Spec => Clients!Init
  BY InitRefines DEF Spec
<1>2. TypeInv /\ HolderInv /\ (TypeInv /\ HolderInv)' /\ [Next]_vars => [Clients!Next]_(Clients!vars)
  BY StepRefines
<1> QED BY <1>1, <1>2, TypesAndHolders, PTL DEF Spec, RefinesBufferClients, Clients!SafeSpec

-----------------------------------------------------------------------------
(* What DBSystem promises while one thread writes: the inductive           *)
(* invariants                                                              *)

OneWriter == \A v, w \in Writers : v = w

\* Every key is one that the merge finds.
KeysAreSearched == \A k \in Keys : k < INT64_MAX

\* How far a write has come: its record is in no list, it is in a current one.
Filling == {"request", "access", "inside", "hash", "get", "probe", "update"}
Listed  == {"count", "switch", "asleep", "submit"}

\* The lists of the generation that was submitted last.
Submitted == lists[gen - 1][1]

\* The one writer always finds the first list free, and what it submits is the
\* generation before the current one, until the dump of it has ended.
CourseInv ==
  /\ \A w \in Writers :
       /\ pc[w] # "asleep" => log_open
       /\ pc[w] \in {"probe", "update"} => table[w] = <<gen, 1>>
       /\ pc[w] = "push" => table[w][1] + 1 = gen
  /\ wait_for_dump # << >> => wait_for_dump[1] + 1 = gen
  /\ dpc # "idle" => curr_writing.gen + 1 = gen
  /\ \A g \in Gens, t \in Tables : t # 1 \/ g > gen => DOMAIN lists[g][t] = {}

\* The dumper's records are in ascending order, and before those it has yet to
\* merge; they are what it writes.
MergeInv ==
  /\ \A i, j \in 1 .. Len(kvs) : i < j => kvs[i].key < kvs[j].key
  /\ dpc = "merge" => \A i \in 1 .. Len(kvs) : \A k \in DOMAIN Submitted : kvs[i].key < k
  /\ Len(file.vals) <= Len(kvs)
  /\ dpc = "idle" => kvs = << >>
  /\ dpc \notin {"idle", "merge", "keys"} =>
       file.keys = [i \in 1 .. Len(kvs) |-> kvs[i].key]
  /\ dpc \in {"insert", "end"} => Len(file.vals) = Len(kvs)

\* Values are handed out in the order of the writes.
WritesInv ==
  /\ \A a \in acked : a.val <= writes
  /\ \A w \in Writers :
       /\ pc[w] # "idle" => rec[w].val = writes
       /\ pc[w] \in Filling => \A a \in acked : a.val < rec[w].val

\* The records that the current lists lead to.
Current == {data[lists[gen][1][k]] : k \in DOMAIN lists[gen][1]}

\* The lists that were submitted have yet to be merged.
Waiting == (\E w \in Writers : pc[w] = "push") \/ wait_for_dump # << >> \/ dpc = "merge"

Row(i) == [key |-> kvs[i].key, val |-> file.vals[i]]

\* The records that were submitted, wherever they are before they are in a file
\* that the manifest lists.
JobRecords ==
  (IF Waiting THEN {data[Submitted[k]] : k \in DOMAIN Submitted} ELSE {})
    \cup {data[kvs[i].slot] : i \in Pending}
    \cup {Row(i) : i \in 1 .. Len(file.vals)}

\* The records of the files that the manifest lists.
Filed == UNION {Rows(ssts[n]) : n \in DOMAIN ssts}

\* What is in the lists and the job was written, and is acknowledged, but for
\* the record of the write under way.
SourceInv ==
  /\ \A r \in JobRecords : r \in acked \/ \E w \in Writers : pc[w] = "push" /\ r = rec[w]
  /\ \A r \in Current : r \in acked \/ \E w \in Writers : pc[w] \in Listed /\ r = rec[w]

Before(S, T) == \A a \in S, b \in T : a.key = b.key => a.val < b.val

\* A key's records are in the order of its writes: files, one after another;
\* the job; the current lists.
OrderInv ==
  /\ Before(JobRecords, Current)
  /\ Before(Filed, Current)
  /\ dpc # "end" => Before(Filed, JobRecords)
  /\ dpc = "end" => JobRecords \subseteq Filed
  /\ SortedFiles

Covers(S, r) == \E d \in S : d.key = r.key /\ d.val >= r.val

\* What the logs hold, the lists or the job or the files hold too, or something
\* later; so that a log may go when its job has ended.
LogInv ==
  /\ ~ died_exists => died = {}
  /\ \A w \in Writers :
       /\ pc[w] \in {"submit", "push"} => rec[w] \in died
       /\ pc[w] \in Filling \cup {"count", "switch", "asleep"} => rec[w] \in hot
       /\ pc[w] = "submit" => hot = {}
  /\ \A r \in hot : Covers(Current, r) \/ \E w \in Writers : pc[w] \in Filling /\ r = rec[w]
  /\ \A r \in died :
       \/ Covers(JobRecords, r)
       \/ Covers(Current, r) /\ \E w \in Writers : pc[w] = "submit"
  /\ \A r \in acked : Covers(OnDisk, r)

\* No job is empty, and the merge keeps the list that it works on.
JobInv ==
  /\ \A w \in Writers : pc[w] \in {"switch", "asleep", "submit"} => DOMAIN lists[gen][1] # {}
  /\ (\E w \in Writers : pc[w] = "push") \/ wait_for_dump # << >> => DOMAIN Submitted # {}
  /\ dpc = "merge" => kvs # << >> \/ DOMAIN Submitted # {}
  /\ dpc \notin {"idle", "merge"} => kvs # << >>
  /\ dpc # "idle" => \E i \in DOMAIN curr_writing.tables : curr_writing.tables[i] = 1
  /\ \A i \in DOMAIN kvs : kvs[i].from = 1
  /\ ub = "none"

\* Whoever answers for slot s while it holds the record that key k is found by.
Kept(k, s) ==
  \/ \E w \in Writers : pc[w] \in {"get", "probe", "update"} /\ rec[w].key = k /\ idx[w] = s
  \/ \E g \in Gens : k \in DOMAIN lists[g][1] /\ lists[g][1][k] = s
  \/ \E i \in Pending : kvs[i].key = k /\ kvs[i].slot = s

\* The dumper has given slot s back and not turned the index of k.
Turning(k, s) == dpc \in {"ending", "hash"} /\ LastKv.key = k /\ LastKv.slot = s

\* Writes whose index is set.
Settled == acked \cup {rec[w] : w \in {v \in Writers :
             pc[v] \notin {"idle", "request", "access", "inside", "hash"}}}

\* The index of a key that is not in a file leads to a slot that is kept for
\* the key and holds its latest write.
FoundInv ==
  /\ \A k \in Keys : hash[k] = NoIndex \/ hash[k].in_file \/ \E s \in Slots : hash[k] = BufferIndex(s)
  /\ \A k \in Keys, s \in Slots : hash[k] = BufferIndex(s) /\ ~ Turning(k, s) =>
       /\ Kept(k, s)
       /\ \A a \in Settled : a.key = k => a.val <= data[s].val

-----------------------------------------------------------------------------
(* The course of a write and of a job                                      *)

\* The one writer is neither kept from a list nor finds one taken away.
LEMMA NoContention ==
  ASSUME OneWriter, TypeInv, CourseInv, NEW w \in Writers
  PROVE  ~ ProbeLocked(w) /\ ~ ListInsertRacing(w) /\ ~ ClosedLogUsed(w)
<1>1. ~ ProbeLocked(w)
  BY DEF ProbeLocked, Locked, OneWriter
<1>2. ~ ListInsertRacing(w)
  <2>1. pc[w] = "update" => table[w][1] = gen
    BY DEF CourseInv
  <2> QED BY <2>1 DEF ListInsertRacing, WithDumper
<1>3. ~ ClosedLogUsed(w)
  BY DEF ClosedLogUsed, LogAppendClosed, SwitchLogClosed, CourseInv
<1> QED BY <1>1, <1>2, <1>3

\* Steps that move no job.
LEMMA CourseFrame ==
  ASSUME CourseInv, UNCHANGED <<memVars, curr_writing>>, dpc' = "idle" <=> dpc = "idle",
         \A w \in Writers :
           /\ pc'[w] # "asleep" => log_open'
           /\ pc'[w] \in {"probe", "update"} => table'[w] = <<gen, 1>>
           /\ pc'[w] = "push" => pc[w] = "push" /\ table'[w] = table[w]
  PROVE  CourseInv'
BY DEF CourseInv, memVars

LEMMA WriterCourse ==
  ASSUME OneWriter, TypeInv, DumpGate, CourseInv, NEW w \in Writers,
         StartWrite(w) \/ WriterStep(w) \/ SpuriousWakeup(w)
  PROVE  CourseInv'
<1>0. /\ pc \in [Writers -> WriterLabels] /\ \A v \in Writers : v = w
      /\ table \in [Writers -> Gens \X (Tables \cup {0})]
      /\ gen \in Gens /\ lists \in [Gens -> [Tables -> Lists]]
      /\ wait_switch_log \subseteq Writers /\ wait_for_dump \in Seq(Gens)
  BY DEF TypeInv, WriterOK, MemOK, LogOK, OneWriter
<1>c. /\ pc[w] # "asleep" => log_open
      /\ pc[w] \in {"probe", "update"} => table[w] = <<gen, 1>>
      /\ pc[w] = "push" => table[w][1] + 1 = gen
  BY DEF CourseInv
<1>f. ASSUME UNCHANGED <<memVars, dumperVars>>,
             /\ pc'[w] # "asleep" => log_open'
             /\ pc'[w] \in {"probe", "update"} => table'[w] = <<gen, 1>>
             /\ pc'[w] = "push" => pc[w] = "push" /\ table'[w] = table[w]
      PROVE  CourseInv'
  BY <1>0, <1>f, CourseFrame DEF dumperVars
<1>1. CASE StartWrite(w) \/ RequestBuff(w) \/ WriteAccess(w) \/ Copy(w) \/ WriteHash(w)
  <2>1. /\ UNCHANGED <<memVars, dumperVars, log_open, table>> /\ pc[w] # "asleep"
        /\ pc'[w] \in {"request", "access", "inside", "hash", "get"}
    BY <1>0, <1>1
    DEF StartWrite, LogAppend, RequestBuff, WriteAccess, Copy, WriteHash, Goto, logVars
  <2> QED BY <1>c, <1>f, <2>1
<1>2. CASE GetMemtable(w)
  <2>1. /\ UNCHANGED <<memVars, dumperVars, log_open>> /\ pc[w] # "asleep"
        /\ pc'[w] = "probe" /\ table'[w] = <<gen, 1>>
    BY <1>0, <1>2 DEF GetMemtable, Goto, logVars
  <2> QED BY <1>c, <1>f, <2>1
<1>3. CASE ProbeFree(w)
  <2>1. /\ UNCHANGED <<memVars, dumperVars, log_open, table>> /\ pc[w] = "probe"
        /\ pc'[w] = "update"
    BY <1>0, <1>3 DEF ProbeFree, Goto, logVars
  <2> QED BY <1>c, <1>f, <2>1
<1>4. CASE ListInsert(w)
  <2>1. /\ pc[w] = "update" /\ pc'[w] = "count"
        /\ lists' = [lists EXCEPT ![gen][1] = ListUpdate(@, rec[w].key, idx[w])]
        /\ UNCHANGED <<gen, wait_for_dump, log_open, dumperVars>>
    <3>1. table[w] = <<gen, 1>> /\ table[w][1] = gen /\ table[w][2] = 1
      BY <1>4, <1>c DEF ListInsert
    <3> QED BY <1>0, <1>4, <3>1 DEF ListInsert, Goto, logVars
  <2>2. \A g \in Gens, t \in Tables : t # 1 \/ g > gen => lists'[g][t] = lists[g][t]
    <3>1. ~ gen > gen
      BY <1>0 DEF Gens
    <3> QED BY <1>0, <2>1, <3>1
  <2> QED BY <1>0, <1>c, <2>1, <2>2 DEF CourseInv, dumperVars
<1>5. CASE Count(w)
  <2>1. /\ UNCHANGED <<memVars, dumperVars, log_open, table>> /\ pc[w] # "asleep"
        /\ pc'[w] \in {"idle", "switch"}
    BY <1>0, <1>5 DEF Count, Ack, Goto, logVars
  <2> QED BY <1>c, <1>f, <2>1
<1>6. CASE SwitchLog(w) \/ SwitchLogAgain(w)
  <2>1. /\ UNCHANGED <<memVars, dumperVars, table>>
        /\ (pc'[w] = "submit" /\ log_open') \/ pc'[w] = "asleep"
    BY <1>0, <1>6 DEF SwitchLog, SwitchLogAgain, RenameLog, Goto
  <2> QED BY <1>f, <2>1
<1>7. CASE SpuriousWakeup(w)
  <2>1. UNCHANGED <<memVars, dumperVars, log_open, table, pc>>
    BY <1>7 DEF SpuriousWakeup, writerVars
  <2> QED BY <1>c, <1>f, <2>1
<1>8. CASE SubmitDump(w)
  <2>1. /\ pc[w] = "submit" /\ pc'[w] = "push" /\ gen' = gen + 1 /\ table'[w] = <<gen, 0>>
        /\ UNCHANGED <<lists, wait_for_dump, log_open, dumperVars>>
    BY <1>0, <1>8 DEF SubmitDump, Goto, logVars
  <2>2. wait_for_dump = << >> /\ dpc = "idle"
    BY <2>1 DEF DumpGate, HasJob
  <2>3. \A g \in Gens : g > gen' => g > gen
    BY <1>0, <2>1 DEF Gens
  <2> QED BY <1>0, <1>c, <2>1, <2>2, <2>3 DEF CourseInv, dumperVars
<1>9. CASE PushDump(w)
  <2>1. /\ pc[w] = "push" /\ pc'[w] = "idle"
        /\ wait_for_dump' = Append(wait_for_dump, table[w][1])
        /\ UNCHANGED <<lists, gen, log_open, dumperVars>>
    BY <1>0, <1>9 DEF PushDump, Ack, Goto, logVars
  <2>2. wait_for_dump = << >> /\ dpc = "idle"
    BY <2>1 DEF DumpGate, HasJob
  <2>3. wait_for_dump' = <<table[w][1]>>
    BY <2>1, <2>2
  <2> QED BY <1>0, <1>c, <2>1, <2>2, <2>3 DEF CourseInv, dumperVars
<1> QED
  BY <1>1, <1>2, <1>3, <1>4, <1>5, <1>6, <1>7, <1>8, <1>9, NoContention DEF WriterStep

LEMMA DumperCourse ==
  ASSUME TypeInv, DumpGate, CourseInv, DumperStep
  PROVE  CourseInv'
<1>0. /\ lists \in [Gens -> [Tables -> Lists]] /\ wait_for_dump \in Seq(Gens)
      /\ curr_writing.gen \in Gens /\ curr_writing \in [gen : Gens, tables : Seq(Tables)]
      /\ \A i \in Positions : curr_writing.tables[i] \in Tables
  BY ElementOfSeq, LenProperties DEF TypeInv, MemOK, DumperOK, Positions
<1>1. CASE TakeJob
  <2>1. Len(wait_for_dump) = 1 /\ wait_for_dump # << >>
    BY <1>1 DEF TakeJob, DumpGate
  <2>2. /\ wait_for_dump' = << >> /\ curr_writing'.gen = wait_for_dump[1]
        /\ UNCHANGED <<lists, gen, pc, table, log_open>>
    BY <1>0, <1>1, <2>1, HeadTailProperties, EmptySeq DEF TakeJob, logVars, writerVars
  <2> QED BY <2>1, <2>2 DEF CourseInv
<1>2. CASE MergeRound
  <2>1. PICK p \in Positions, key \in Keys :
          lists' = [lists EXCEPT ![curr_writing.gen][curr_writing.tables[p]] = ListPop(@, key)]
    BY <1>2 DEF MergeRound
  <2>2. \A g \in Gens, t \in Tables : DOMAIN lists[g][t] = {} => DOMAIN lists'[g][t] = {}
    <3>1. \A l : DOMAIN l = {} => DOMAIN ListPop(l, key) = {}
      BY DEF ListPop
    <3> QED BY <1>0, <2>1, <3>1
  <2>3. /\ curr_writing'.gen = curr_writing.gen
        /\ UNCHANGED <<dpc, gen, wait_for_dump, pc, table, log_open>>
    BY <1>0, <1>2 DEF MergeRound, logVars, writerVars
  <2> QED BY <2>2, <2>3 DEF CourseInv
<1>3. CASE \/ MergeDone \/ DumpKeys \/ DumpAccess \/ DumpAppendRelease
           \/ DumpEndAccess \/ DumpHash \/ InsertRecord
  <2>1. /\ UNCHANGED <<memVars, curr_writing, pc, table, log_open>>
        /\ dpc # "idle" /\ dpc' # "idle"
    BY <1>3
    DEF MergeDone, DumpKeys, NextRecord, DumpAccess, DumpAppendRelease,
        DumpEndAccess, DumpHash, InsertRecord, logVars, writerVars
  <2> QED BY <2>1 DEF CourseInv, memVars
<1>4. CASE DumpFreedKeys \/ InsertEmpty
  <2>1. UNCHANGED <<memVars, curr_writing, dpc, pc, table, log_open>>
    BY <1>4 DEF DumpFreedKeys, InsertEmpty, Undefined, logVars, writerVars, dumperVars
  <2> QED BY <2>1 DEF CourseInv, memVars
<1>5. CASE EndDumping
  <2>1. UNCHANGED <<memVars, pc, table, log_open>> /\ dpc' = "idle"
    BY <1>5 DEF EndDumping, writerVars
  <2> QED BY <2>1 DEF CourseInv, memVars
<1> QED BY <1>1, <1>2, <1>3, <1>4, <1>5 DEF DumperStep

-----------------------------------------------------------------------------
(* The order in which the dumper merges and writes                         *)

\* A job that waits, or is merged, is the generation before the current one.
LEMMA SubmittedLists ==
  ASSUME TypeInv, CourseInv, Waiting
  PROVE  gen - 1 \in Gens /\ Submitted \in Lists
<1>0. lists \in [Gens -> [Tables -> Lists]] /\ gen \in Gens /\ 1 \in Tables
  BY DBSystemAssumption DEF TypeInv, MemOK, Tables
<1>1. \E g \in Gens : g + 1 = gen
  <2>1. ASSUME NEW w \in Writers, pc[w] = "push" PROVE \E g \in Gens : g + 1 = gen
    BY <2>1 DEF CourseInv, TypeInv, WriterOK
  <2>2. CASE wait_for_dump # << >>
    <3>1. wait_for_dump[1] \in Gens
      BY <2>2, ElementOfSeq, EmptySeq DEF TypeInv, MemOK
    <3> QED BY <2>2, <3>1 DEF CourseInv
  <2>3. CASE dpc = "merge"
    BY <2>3 DEF CourseInv, TypeInv, DumperOK
  <2> QED BY <2>1, <2>2, <2>3 DEF Waiting
<1>2. gen - 1 \in Gens
  BY <1>1 DEF Gens
<1> QED BY <1>0, <1>2 DEF Submitted

\* In the merge, only the first list holds anything.
LEMMA MergedList ==
  ASSUME TypeInv, CourseInv, dpc = "merge", NEW i \in Positions, DOMAIN JobList(i) # {}
  PROVE  curr_writing.tables[i] = 1 /\ JobList(i) = Submitted
<1>1. curr_writing.tables[i] \in Tables /\ curr_writing.gen \in Gens
  BY ElementOfSeq, LenProperties DEF TypeInv, DumperOK, Positions
<1>2. curr_writing.gen + 1 = gen
  BY DEF CourseInv
<1>3. curr_writing.gen = gen - 1
  BY <1>1, <1>2 DEF Gens
<1>4. curr_writing.tables[i] = 1
  BY <1>1 DEF CourseInv, JobList
<1> QED BY <1>3, <1>4 DEF JobList, Submitted

\* One round pops the first key of the first list.
LEMMA MergeRoundIs ==
  ASSUME TypeInv, CourseInv, MergeRound
  PROVE  \E k \in Keys :
           /\ k \in DOMAIN Submitted
           /\ \A x \in DOMAIN Submitted : k <= x
           /\ kvs' = Append(kvs, [key |-> k, slot |-> Submitted[k], from |-> 1])
           /\ lists' = [lists EXCEPT ![gen - 1][1] = ListPop(@, k)]
           /\ DOMAIN Submitted' = DOMAIN Submitted \ {k}
           /\ \A x \in DOMAIN Submitted' : Submitted'[x] = Submitted[x]
<1>0. /\ lists \in [Gens -> [Tables -> Lists]] /\ 1 \in Tables
      /\ curr_writing.gen \in Gens /\ curr_writing.gen + 1 = gen /\ dpc = "merge" /\ gen' = gen
  BY DBSystemAssumption DEF TypeInv, MemOK, DumperOK, Tables, CourseInv, MergeRound
<1>1. PICK i \in Positions, k \in Keys :
        /\ Smallest(i, k)
        /\ kvs' = Append(kvs, [key |-> k, slot |-> JobList(i)[k],
                               from |-> curr_writing.tables[i]])
        /\ lists' = [lists EXCEPT ![curr_writing.gen][curr_writing.tables[i]] = ListPop(@, k)]
  BY DEF MergeRound
<1>2. k \in DOMAIN JobList(i) /\ \A x \in DOMAIN JobList(i) : k < x \/ k = x
  BY <1>1 DEF Smallest
<1>3. curr_writing.tables[i] = 1 /\ JobList(i) = Submitted
  BY <1>0, <1>2, MergedList
<1>4. curr_writing.gen = gen - 1 /\ gen - 1 \in Gens
  BY <1>0 DEF Gens
<1>5. \A x \in DOMAIN Submitted : k <= x
  <2>1. DOMAIN Submitted \subseteq Keys
    BY <1>0, <1>4 DEF Submitted, Lists
  <2>2. SUFFICES ASSUME NEW x \in DOMAIN Submitted PROVE k <= x
    OBVIOUS
  <2>3. k \in Nat /\ x \in Nat
    BY <2>1, DBSystemAssumption
  <2>4. k < x \/ k = x
    BY <1>2, <1>3
  <2> QED BY <2>3, <2>4
<1>6. lists' = [lists EXCEPT ![gen - 1][1] = ListPop(@, k)]
  BY <1>1, <1>3, <1>4
<1>7. Submitted' = ListPop(Submitted, k)
  <2>1. lists'[gen - 1][1] = ListPop(lists[gen - 1][1], k)
    BY <1>0, <1>4, <1>6
  <2> QED BY <1>0, <2>1 DEF Submitted
<1>8. /\ DOMAIN Submitted' = DOMAIN Submitted \ {k}
      /\ \A x \in DOMAIN Submitted' : Submitted'[x] = Submitted[x]
  BY <1>7 DEF ListPop
<1> QED BY <1>1, <1>2, <1>3, <1>5, <1>6, <1>8

\* What a writer does changes nothing of the lists that were submitted.
LEMMA WriterKeepsSubmitted ==
  ASSUME OneWriter, TypeInv, DumpGate, CourseInv, NEW w \in Writers,
         StartWrite(w) \/ WriterStep(w) \/ SpuriousWakeup(w)
  PROVE  /\ UNCHANGED dumperVars
         /\ Waiting /\ pc[w] # "submit" => Submitted' = Submitted
         /\ pc[w] = "submit" => dpc = "idle" /\ wait_for_dump = << >> /\ ~ Waiting
<1>0. /\ pc \in [Writers -> WriterLabels] /\ lists \in [Gens -> [Tables -> Lists]]
      /\ gen \in Gens /\ \A v \in Writers : v = w
  BY DEF TypeInv, WriterOK, MemOK, OneWriter
<1>1. UNCHANGED dumperVars
  BY NoContention
  DEF StartWrite, LogAppend, WriterStep, RequestBuff, WriteAccess, Copy, WriteHash, GetMemtable,
      ProbeFree, ListInsert, Count, SwitchLog, SwitchLogAgain, SpuriousWakeup, SubmitDump, PushDump
<1>2. ASSUME Waiting, pc[w] # "submit" PROVE Submitted' = Submitted
  <2>0. gen - 1 \in Gens
    BY <1>2, SubmittedLists
  <2>1. CASE ListInsert(w)
    <3>1. table[w][1] = gen /\ gen - 1 # gen /\ gen' = gen
      BY <1>0, <2>1 DEF CourseInv, ListInsert, Gens
    <3>2. lists'[gen - 1] = lists[gen - 1]
      BY <1>0, <2>0, <2>1, <3>1 DEF ListInsert
    <3> QED BY <3>1, <3>2 DEF Submitted
  <2>2. CASE ~ ListInsert(w)
    <3>1. UNCHANGED <<lists, gen>>
      BY <1>2, <2>2, NoContention
      DEF StartWrite, LogAppend, WriterStep, RequestBuff, WriteAccess, Copy, WriteHash, GetMemtable,
          ProbeFree, Count, SwitchLog, SwitchLogAgain, SpuriousWakeup, SubmitDump, PushDump, memVars
    <3> QED BY <3>1 DEF Submitted
  <2> QED BY <2>1, <2>2
<1>3. ASSUME pc[w] = "submit" PROVE dpc = "idle" /\ wait_for_dump = << >> /\ ~ Waiting
  <2>1. dpc = "idle" /\ wait_for_dump = << >>
    BY <1>3 DEF DumpGate, HasJob
  <2> QED BY <1>0, <1>3, <2>1 DEF Waiting
<1> QED BY <1>1, <1>2, <1>3

\* Steps that add nothing to the job.
LEMMA MergeFrame ==
  ASSUME MergeInv, UNCHANGED kvs,
         dpc' = "merge" => dpc = "merge" /\ DOMAIN Submitted' \subseteq DOMAIN Submitted,
         Len(file'.vals) <= Len(kvs), dpc' = "idle" => dpc = "idle",
         dpc' \notin {"idle", "merge", "keys"} =>
           file'.keys = [i \in 1 .. Len(kvs) |-> kvs[i].key],
         dpc' \in {"insert", "end"} => Len(file'.vals) = Len(kvs)
  PROVE  MergeInv'
BY DEF MergeInv

LEMMA WriterMerge ==
  ASSUME OneWriter, TypeInv, DumpGate, CourseInv, MergeInv, NEW w \in Writers,
         StartWrite(w) \/ WriterStep(w) \/ SpuriousWakeup(w)
  PROVE  MergeInv'
<1>1. UNCHANGED <<dpc, kvs, file>>
  BY WriterKeepsSubmitted DEF dumperVars
<1>2. dpc' = "merge" => dpc = "merge" /\ DOMAIN Submitted' \subseteq DOMAIN Submitted
  BY <1>1, WriterKeepsSubmitted DEF Waiting
<1> QED BY <1>1, <1>2, MergeFrame DEF MergeInv

LEMMA DumperMerge ==
  ASSUME TypeInv, DumpGate, CourseInv, MergeInv, FileIsNew, DumperStep
  PROVE  MergeInv'
<1>0. /\ Len(file.vals) \in Nat /\ Len(kvs) \in Nat /\ file.vals \in Seq(0 .. MaxWrites)
      /\ file \in Files /\ kvs \in Seq(Kvs)
      /\ \A i \in 1 .. Len(kvs) : kvs[i].key \in Nat
  <2>1. \A i \in 1 .. Len(kvs) : kvs[i] \in Kvs
    BY ElementOfSeq DEF TypeInv, DumperOK
  <2> QED BY <2>1, LenProperties, DBSystemAssumption DEF TypeInv, DumperOK, Files, Kvs
<1>1. CASE TakeJob
  <2>1. kvs = << >> /\ kvs' = kvs /\ file' = file /\ dpc' = "merge" /\ Len(file'.vals) <= Len(kvs)
    BY <1>1 DEF TakeJob, MergeInv
  <2> QED BY <2>1 DEF MergeInv
<1>2. CASE MergeRound
  <2>1. PICK k \in Keys :
           /\ k \in DOMAIN Submitted /\ \A x \in DOMAIN Submitted : k <= x
           /\ kvs' = Append(kvs, [key |-> k, slot |-> Submitted[k], from |-> 1])
           /\ DOMAIN Submitted' = DOMAIN Submitted \ {k}
    BY <1>2, MergeRoundIs
  <2>2. dpc = "merge" /\ dpc' = "merge" /\ file' = file /\ file.vals = << >>
    BY <1>2 DEF MergeRound, FileIsNew
  <2>3. \A i \in 1 .. Len(kvs) : kvs[i].key < k
    BY <2>1, <2>2 DEF MergeInv
  <2> DEFINE n == Len(kvs)
             kv == [key |-> k, slot |-> Submitted[k], from |-> 1]
  <2>4. Len(kvs') = n + 1 /\ kvs'[n + 1].key = k /\ \A i \in 1 .. n : kvs'[i] = kvs[i]
    <3>1. kv.key = k /\ kvs' = Append(kvs, kv)
      BY <2>1
    <3> HIDE DEF kv
    <3> QED BY <1>0, <3>1
  <2>5. k \in Nat /\ n \in Nat /\ DOMAIN Submitted \subseteq Nat
    <3>1. DOMAIN Submitted \subseteq Keys
      BY <2>2, SubmittedLists DEF Waiting, Lists
    <3> QED BY <1>0, <3>1, DBSystemAssumption
  <2>6. \A i \in 1 .. n : kvs[i].key \in Nat /\ kvs'[i].key = kvs[i].key
    BY <1>0, <2>4
  <2>7. \A i, j \in 1 .. n : i < j => kvs[i].key < kvs[j].key
    BY DEF MergeInv
  <2> HIDE DEF n
  <2>8. \A i, j \in 1 .. n + 1 : i < j => kvs'[i].key < kvs'[j].key
    <3> SUFFICES ASSUME NEW i \in 1 .. n + 1, NEW j \in 1 .. n + 1, i < j
                 PROVE  kvs'[i].key < kvs'[j].key
      OBVIOUS
    <3>1. i \in 1 .. n
      BY <2>5
    <3>2. CASE j = n + 1
      BY <2>3, <2>4, <2>6, <3>1, <3>2 DEF n
    <3>3. CASE j # n + 1
      <4>1. j \in 1 .. n
        BY <2>5, <3>3
      <4> QED BY <2>6, <2>7, <3>1, <4>1
    <3> QED BY <3>2, <3>3
  <2>9. \A i \in 1 .. n + 1 : \A x \in DOMAIN Submitted' : kvs'[i].key < x
    <3> SUFFICES ASSUME NEW i \in 1 .. n + 1, NEW x \in DOMAIN Submitted'
                 PROVE  kvs'[i].key < x
      OBVIOUS
    <3>1. x \in Nat /\ k < x
      <4>1. x \in DOMAIN Submitted /\ x # k
        BY <2>1
      <4>2. x \in Nat /\ k <= x
        BY <2>1, <2>5, <4>1
      <4> QED BY <2>5, <4>1, <4>2
    <3>2. CASE i = n + 1
      BY <2>4, <3>1, <3>2
    <3>3. CASE i # n + 1
      <4>1. i \in 1 .. n
        BY <2>5, <3>3
      <4>2. kvs[i].key < k
        BY <2>3, <4>1 DEF n
      <4> QED BY <2>5, <2>6, <3>1, <4>1, <4>2
    <3> QED BY <3>2, <3>3
  <2>10. Len(file'.vals) = 0
    BY <2>2
  <2> QED BY <2>2, <2>4, <2>5, <2>8, <2>9, <2>10 DEF MergeInv
<1>3. CASE MergeDone
  BY <1>3, MergeFrame DEF MergeDone, MergeInv
<1>4. CASE DumpKeys
  <2>1. file'.vals = << >> /\ file'.keys = [i \in 1 .. Len(kvs) |-> kvs[i].key] /\ kvs' = kvs
    BY <1>4 DEF DumpKeys
  <2>2. /\ dpc' \in {"access", "insert"}
        /\ dpc' = "insert" => ~ Len(file'.vals) < Len(kvs)
    BY <1>4 DEF DumpKeys, NextRecord
  <2>3. Len(file'.vals) = 0
    BY <2>1
  <2> QED BY <1>0, <2>1, <2>2, <2>3, MergeFrame
<1>5. CASE DumpAccess \/ DumpEndAccess
  <2>1. /\ kvs' = kvs /\ file' = file /\ dpc \notin {"idle", "merge", "keys"}
        /\ dpc' \in {"inside", "hash"}
    BY <1>5 DEF DumpAccess, DumpEndAccess
  <2> QED BY <2>1, MergeFrame DEF MergeInv
<1>6. CASE DumpAppendRelease
  <2> DEFINE v == data[NextKv.slot].val
  <2>1. /\ kvs' = kvs /\ dpc = "inside" /\ dpc' = "ending"
        /\ file'.keys = file.keys /\ file'.vals = Append(file.vals, v)
    BY <1>0, <1>6 DEF DumpAppendRelease, Files
  <2> HIDE DEF v
  <2>2. Len(file'.vals) = Len(file.vals) + 1 /\ Len(file.vals) < Len(kvs)
    BY <1>0, <2>1 DEF TypeInv, DumperOK
  <2>3. Len(file'.vals) <= Len(kvs)
    BY <1>0, <2>2
  <2> QED BY <2>1, <2>3, MergeFrame DEF MergeInv
<1>7. CASE DumpHash
  <2>1. /\ kvs' = kvs /\ file' = file /\ dpc = "hash" /\ dpc' \in {"access", "insert"}
        /\ dpc' = "insert" => ~ Len(file.vals) < Len(kvs)
    BY <1>7 DEF DumpHash, NextRecord
  <2>2. Len(file.vals) <= Len(kvs)
    BY DEF MergeInv
  <2> QED BY <1>0, <2>1, <2>2, MergeFrame DEF MergeInv
<1>8. CASE InsertRecord
  BY <1>8, MergeFrame DEF InsertRecord, MergeInv
<1>9. CASE DumpFreedKeys \/ InsertEmpty
  <2>1. UNCHANGED <<dpc, kvs, file, lists, gen>>
    BY <1>9 DEF DumpFreedKeys, InsertEmpty, Undefined, dumperVars, memVars
  <2>2. Submitted' = Submitted
    BY <2>1 DEF Submitted
  <2> QED BY <2>1, <2>2, MergeFrame DEF MergeInv
<1>10. CASE EndDumping
  <2>1. kvs' = << >> /\ file'.vals = << >> /\ dpc' = "idle"
    BY <1>10 DEF EndDumping, NoFile
  <2> QED BY <2>1 DEF MergeInv
<1> QED
  BY <1>1, <1>2, <1>3, <1>4, <1>5, <1>6, <1>7, <1>8, <1>9, <1>10 DEF DumperStep

-----------------------------------------------------------------------------
(* Where the records are                                                   *)

LEMMA WriterWrites ==
  ASSUME OneWriter, TypeInv, WritesInv, NEW w \in Writers,
         StartWrite(w) \/ WriterStep(w) \/ SpuriousWakeup(w)
  PROVE  WritesInv'
<1>0. /\ pc \in [Writers -> WriterLabels] /\ rec \in [Writers -> Records \cup {NoRecord}]
      /\ writes \in Nat /\ acked \subseteq Records /\ \A v \in Writers : v = w
      /\ \A a \in acked : a.val \in Nat
  BY DEF TypeInv, WriterOK, GhostOK, Records, OneWriter
<1>1. ASSUME NEW k \in Keys, LogAppend(w, k) PROVE WritesInv'
  <2> DEFINE r == [key |-> k, val |-> writes + 1]
  <2>1. /\ rec' = [rec EXCEPT ![w] = r] /\ writes' = writes + 1 /\ acked' = acked
        /\ pc' = [pc EXCEPT ![w] = "request"]
    BY <1>1 DEF LogAppend, Goto
  <2>2. rec'[w].val = writes + 1
    BY <1>0, <2>1
  <2>3. \A a \in acked : a.val <= writes + 1 /\ a.val < writes + 1
    BY <1>0 DEF WritesInv
  <2> QED BY <1>0, <2>1, <2>2, <2>3 DEF WritesInv
<1>2. CASE (Count(w) /\ pc'[w] = "idle") \/ PushDump(w)
  <2>1. /\ pc[w] \in {"count", "push"} /\ pc' = [pc EXCEPT ![w] = "idle"]
        /\ acked' = acked \cup {rec[w]} /\ writes' = writes
    BY <1>0, <1>2 DEF Count, PushDump, Ack, Goto
  <2>2. rec[w].val = writes
    BY <2>1 DEF WritesInv
  <2>3. \A a \in acked' : a.val <= writes
    <3>1. \A a \in acked : a.val <= writes
      BY DEF WritesInv
    <3>2. rec[w].val <= writes
      BY <1>0, <2>2
    <3> QED BY <2>1, <3>1, <3>2
  <2>4. pc'[w] = "idle" /\ "idle" \notin Filling
    BY <1>0, <2>1 DEF Filling
  <2> QED BY <1>0, <2>1, <2>3, <2>4 DEF WritesInv
<1>3. ASSUME ~ StartWrite(w), ~ PushDump(w), ~ (Count(w) /\ pc'[w] = "idle")
      PROVE  WritesInv'
  <2>1. UNCHANGED <<acked, writes>>
    BY <1>0, <1>3
    DEF WriterStep, RequestBuff, WriteAccess, Copy, WriteHash, GetMemtable, ProbeLocked, ProbeFree,
        ListInsert, ListInsertRacing, Undefined, Count, Ack, Goto, SwitchLog, SwitchLogAgain,
        SpuriousWakeup, SubmitDump, ghostVars
  <2>2. /\ rec' = rec
        /\ pc[w] = "idle" => pc'[w] = "idle"
        /\ pc'[w] \in Filling => pc[w] \in Filling
    <3>1. CASE RequestBuff(w) \/ WriteAccess(w) \/ Copy(w) \/ WriteHash(w)
      BY <1>0, <3>1 DEF RequestBuff, WriteAccess, Copy, WriteHash, Goto, Filling
    <3>2. CASE GetMemtable(w) \/ ProbeLocked(w) \/ ProbeFree(w) \/ ListInsert(w)
      BY <1>0, <3>2 DEF GetMemtable, ProbeLocked, ProbeFree, ListInsert, Goto, Filling
    <3>3. CASE Count(w) \/ SubmitDump(w)
      BY <1>0, <1>3, <3>3 DEF Count, Ack, SubmitDump, Goto, Filling
    <3>4. CASE SwitchLog(w) \/ SwitchLogAgain(w)
      BY <1>0, <3>4 DEF SwitchLog, SwitchLogAgain, Goto, Filling
    <3>5. CASE ListInsertRacing(w) \/ SpuriousWakeup(w)
      BY <3>5 DEF ListInsertRacing, Undefined, SpuriousWakeup, writerVars
    <3> QED BY <1>3, <3>1, <3>2, <3>3, <3>4, <3>5 DEF WriterStep
  <2>3. /\ \A a \in acked' : a.val <= writes'
        /\ pc'[w] # "idle" => rec'[w].val = writes'
        /\ pc'[w] \in Filling => \A a \in acked' : a.val < rec'[w].val
    <3>1. /\ \A a \in acked : a.val <= writes
          /\ pc[w] # "idle" => rec[w].val = writes
          /\ pc[w] \in Filling => \A a \in acked : a.val < rec[w].val
      BY DEF WritesInv
    <3> QED BY <2>1, <2>2, <3>1
  <2> QED BY <1>0, <2>3 DEF WritesInv
<1> QED BY <1>1, <1>2, <1>3 DEF StartWrite

\* Steps that leave what the lists, the dumper and the file lead to.
LEMMA SameRecords ==
  ASSUME TypeInv, CourseInv, UNCHANGED <<lists, gen, kvs, file>>, Waiting' <=> Waiting,
         \A g \in Gens : \A k \in DOMAIN lists[g][1] :
           data'[lists[g][1][k]] = data[lists[g][1][k]],
         \A i \in Pending : data'[kvs[i].slot] = data[kvs[i].slot]
  PROVE  JobRecords' = JobRecords /\ Current' = Current
<1>1. gen \in Gens
  BY DEF TypeInv, MemOK
<1>2. Current' = Current
  BY <1>1 DEF Current
<1>3. Submitted' = Submitted /\ Pending' = Pending
  BY DEF Submitted, Pending
<1>4. Waiting => \A k \in DOMAIN Submitted : data'[Submitted[k]] = data[Submitted[k]]
  BY SubmittedLists DEF Submitted
<1>5. {data'[kvs'[i].slot] : i \in Pending'} = {data[kvs[i].slot] : i \in Pending}
  BY <1>3
<1>6. {Row(i)' : i \in 1 .. Len(file'.vals)} = {Row(i) : i \in 1 .. Len(file.vals)}
  BY DEF Row
<1>7. (IF Waiting' THEN {data'[Submitted'[k]] : k \in DOMAIN Submitted'} ELSE {})
        = (IF Waiting THEN {data[Submitted[k]] : k \in DOMAIN Submitted} ELSE {})
  BY <1>3, <1>4
<1>8. JobRecords' = JobRecords
  BY <1>5, <1>6, <1>7 DEF JobRecords
<1> QED BY <1>2, <1>8

\* Most steps of a writer leave them, the copy into its own slot included.
LEMMA WriterRecords ==
  ASSUME OneWriter, TypeInv, DumpGate, CourseInv, HolderInv, NEW w \in Writers,
         StartWrite(w) \/ WriterStep(w) \/ SpuriousWakeup(w),
         ~ ListInsert(w), ~ SubmitDump(w)
  PROVE  JobRecords' = JobRecords /\ Current' = Current
<1>0. /\ pc \in [Writers -> WriterLabels] /\ \A v \in Writers : v = w
      /\ data \in [Slots -> Records \cup {NoRecord}] /\ lists \in [Gens -> [Tables -> Lists]]
      /\ 1 \in Tables /\ wait_for_dump \in Seq(Gens)
  BY DBSystemAssumption DEF TypeInv, WriterOK, CacheOK, MemOK, Tables, OneWriter
<1>1. UNCHANGED <<lists, gen, kvs, file, dpc>>
  BY NoContention
  DEF StartWrite, LogAppend, WriterStep, RequestBuff, WriteAccess, Copy, WriteHash, GetMemtable,
      ProbeFree, Count, SwitchLog, SwitchLogAgain, SpuriousWakeup, PushDump, memVars, dumperVars
<1>2. Waiting' <=> Waiting
  <2>1. CASE PushDump(w)
    <3>1. pc[w] = "push" /\ wait_for_dump' # << >>
      BY <1>0, <2>1 DEF PushDump
    <3> QED BY <3>1 DEF Waiting
  <2>2. CASE ~ PushDump(w)
    <3>1. wait_for_dump' = wait_for_dump /\ (pc'[w] = "push" <=> pc[w] = "push")
      <4>1. CASE \/ StartWrite(w) \/ RequestBuff(w) \/ WriteAccess(w) \/ Copy(w) \/ WriteHash(w)
                 \/ GetMemtable(w) \/ ProbeFree(w)
        BY <1>0, <4>1 DEF StartWrite, LogAppend, RequestBuff, WriteAccess, Copy, WriteHash,
           GetMemtable, ProbeFree, Goto, memVars
      <4>2. CASE Count(w) \/ SwitchLog(w) \/ SwitchLogAgain(w) \/ SpuriousWakeup(w)
        BY <1>0, <4>2 DEF Count, Ack, SwitchLog, SwitchLogAgain, SpuriousWakeup, Goto, memVars,
           writerVars
      <4> QED BY <2>2, <4>1, <4>2, NoContention DEF WriterStep
    <3> QED BY <1>0, <1>1, <3>1 DEF Waiting
  <2> QED BY <2>1, <2>2
<1>3. /\ \A g \in Gens : \A k \in DOMAIN lists[g][1] :
           data'[lists[g][1][k]] = data[lists[g][1][k]]
      /\ \A i \in Pending : data'[kvs[i].slot] = data[kvs[i].slot]
  <2>1. CASE Copy(w)
    <3>1. data' = [data EXCEPT ![idx[w]] = rec[w]] /\ Owns(w)
      BY <2>1 DEF Copy, Owns
    <3>2. \A g \in Gens : \A k \in DOMAIN lists[g][1] :
            lists[g][1][k] \in Slots /\ lists[g][1][k] # idx[w]
      BY <1>0, <3>1 DEF HolderInv, EntriesApart, Lists
    <3>3. \A i \in Pending : kvs[i].slot \in Slots /\ kvs[i].slot # idx[w]
      BY <3>1 DEF HolderInv, PendingApart, TypeInv, CacheOK, BufferTypeOK
    <3> QED BY <1>0, <3>1, <3>2, <3>3
  <2>2. CASE ~ Copy(w)
    <3>1. data' = data
      BY <2>2, NoContention
      DEF StartWrite, LogAppend, WriterStep, RequestBuff, WriteAccess, WriteHash, GetMemtable,
          ProbeFree, Count, SwitchLog, SwitchLogAgain, SpuriousWakeup, PushDump, cacheVars
    <3> QED BY <3>1
  <2> QED BY <2>1, <2>2
<1> QED BY <1>1, <1>2, <1>3, SameRecords

\* An insert puts the record in, in the place of an earlier one of its key.
LEMMA InsertRecords ==
  ASSUME OneWriter, TypeInv, DumpGate, CourseInv, HolderInv, RecordInv, NEW w \in Writers,
         ListInsert(w)
  PROVE  /\ JobRecords' = JobRecords
         /\ Current' = {r \in Current : r.key # rec[w].key} \cup {rec[w]}
         /\ DOMAIN lists'[gen'][1] # {}
<1>0. /\ pc \in [Writers -> WriterLabels] /\ \A v \in Writers : v = w
      /\ lists \in [Gens -> [Tables -> Lists]] /\ gen \in Gens /\ 1 \in Tables
  BY DBSystemAssumption DEF TypeInv, WriterOK, MemOK, Tables, OneWriter
<1>1. /\ pc[w] = "update" /\ pc'[w] = "count" /\ table[w] = <<gen, 1>>
      /\ UNCHANGED <<data, gen, kvs, file, dpc, wait_for_dump>>
  BY <1>0 DEF ListInsert, Goto, CourseInv, cacheVars, dumperVars
<1>2. lists' = [lists EXCEPT ![gen][1] = ListUpdate(@, rec[w].key, idx[w])]
  <2>1. table[w][1] = gen /\ table[w][2] = 1
    BY <1>1
  <2> QED BY <2>1 DEF ListInsert
<1>3. Waiting' <=> Waiting
  BY <1>0, <1>1 DEF Waiting
<1>4. Waiting => Submitted' = Submitted
  BY <1>1, WriterKeepsSubmitted DEF WriterStep
<1>5. JobRecords' = JobRecords
  <2>1. Pending' = Pending
    BY <1>1 DEF Pending
  <2>2. {Row(i)' : i \in 1 .. Len(file'.vals)} = {Row(i) : i \in 1 .. Len(file.vals)}
    BY <1>1 DEF Row
  <2>3. (IF Waiting' THEN {data'[Submitted'[k]] : k \in DOMAIN Submitted'} ELSE {})
          = (IF Waiting THEN {data[Submitted[k]] : k \in DOMAIN Submitted} ELSE {})
    BY <1>1, <1>3, <1>4
  <2>4. {data'[kvs'[i].slot] : i \in Pending'} = {data[kvs[i].slot] : i \in Pending}
    BY <1>1, <2>1
  <2> QED BY <2>2, <2>3, <2>4 DEF JobRecords
<1> DEFINE l == lists[gen][1]
           key == rec[w].key
<1>6. lists'[gen][1] = ListUpdate(l, key, idx[w])
  BY <1>0, <1>2
<1>7. /\ \A k \in DOMAIN l : data[l[k]].key = k
      /\ data[idx[w]] = rec[w]
  BY <1>0, <1>1 DEF RecordInv, EntryPointsToItsRecord, CopiedRecord
<1>8. /\ Current' = {data[lists'[gen][1][k]] : k \in DOMAIN lists'[gen][1]}
      /\ Current = {data[l[k]] : k \in DOMAIN l}
  BY <1>1 DEF Current
<1> HIDE DEF l, key
<1>9. /\ DOMAIN ListUpdate(l, key, idx[w]) = DOMAIN l \cup {key}
      /\ \A k \in DOMAIN l \cup {key} :
           ListUpdate(l, key, idx[w])[k] = IF k = key THEN idx[w] ELSE l[k]
  BY DEF ListUpdate
<1>10. Current' = {r \in Current : r.key # key} \cup {rec[w]}
  <2>1. ASSUME NEW r \in Current' PROVE r \in {x \in Current : x.key # key} \cup {rec[w]}
    <3>1. PICK k \in DOMAIN l \cup {key} : r = data[ListUpdate(l, key, idx[w])[k]]
      BY <1>6, <1>8, <1>9
    <3>2. CASE k = key
      BY <1>7, <1>9, <3>1, <3>2
    <3>3. CASE k # key
      BY <1>7, <1>8, <1>9, <3>1, <3>3
    <3> QED BY <3>2, <3>3
  <2>2. rec[w] \in Current'
    BY <1>6, <1>7, <1>8, <1>9
  <2>3. ASSUME NEW r \in Current, r.key # key PROVE r \in Current'
    <3>1. PICK k \in DOMAIN l : r = data[l[k]]
      BY <1>8
    <3>2. k # key
      BY <1>7, <2>3, <3>1
    <3> QED BY <1>6, <1>8, <1>9, <3>1, <3>2
  <2> QED BY <2>1, <2>2, <2>3
<1> QED BY <1>1, <1>5, <1>6, <1>9, <1>10 DEF key

\* With nothing to dump there is no record in the job.
LEMMA NoJobRecords ==
  ASSUME TypeInv, MergeInv, dpc = "idle", ~ Waiting
  PROVE  JobRecords = {}
<1>1. kvs = << >> /\ Len(kvs) = 0 /\ Len(file.vals) <= 0 /\ Len(file.vals) \in Nat
  BY LenProperties DEF MergeInv, TypeInv, DumperOK, Files
<1>2. Pending = {} /\ 1 .. Len(file.vals) = {}
  BY <1>1 DEF Pending
<1> QED BY <1>2 DEF JobRecords

\* submit_dump makes the current records those of the job.
LEMMA SubmitRecords ==
  ASSUME OneWriter, TypeInv, DumpGate, CourseInv, MergeInv, NEW w \in Writers, SubmitDump(w)
  PROVE  /\ JobRecords = {} /\ JobRecords' = Current /\ Current' = {}
         /\ Submitted' = lists[gen][1]
<1>0. /\ pc \in [Writers -> WriterLabels] /\ \A v \in Writers : v = w
      /\ lists \in [Gens -> [Tables -> Lists]] /\ gen \in Gens /\ 1 \in Tables
  BY DBSystemAssumption DEF TypeInv, WriterOK, MemOK, Tables, OneWriter
<1>1. /\ pc[w] = "submit" /\ pc'[w] = "push" /\ gen' = gen + 1 /\ gen < MaxWrites
      /\ UNCHANGED <<lists, data, kvs, file, dpc>>
  BY <1>0 DEF SubmitDump, Goto, cacheVars, dumperVars
<1>2. dpc = "idle" /\ ~ Waiting /\ Waiting'
  BY <1>1, WriterKeepsSubmitted DEF WriterStep, Waiting
<1>3. kvs = << >> /\ Len(kvs) = 0 /\ Len(file.vals) <= 0 /\ Len(file.vals) \in Nat
  BY <1>2, LenProperties DEF MergeInv, TypeInv, DumperOK, Files
<1>4. Pending' = {} /\ 1 .. Len(file'.vals) = {}
  BY <1>1, <1>3 DEF Pending
<1>5. Submitted' = lists[gen][1]
  <2>1. gen' - 1 = gen
    BY <1>0, <1>1 DEF Gens
  <2> QED BY <1>1, <2>1 DEF Submitted
<1>6. JobRecords' = Current
  BY <1>1, <1>2, <1>4, <1>5 DEF JobRecords, Current
<1>7. Current' = {}
  <2>1. gen' \in Gens /\ gen' > gen
    BY <1>0, <1>1, DBSystemAssumption DEF Gens
  <2>2. DOMAIN lists[gen'][1] = {}
    BY <1>0, <2>1 DEF CourseInv
  <2> QED BY <1>1, <2>2 DEF Current
<1> QED BY <1>2, <1>5, <1>6, <1>7, NoJobRecords

\* No step of the dumper touches the current lists or their records.
LEMMA DumperKeepsCurrent ==
  ASSUME TypeInv, CourseInv, DumperStep
  PROVE  Current' = Current /\ UNCHANGED <<data, gen, writerVars, ghostVars>>
<1>0. lists \in [Gens -> [Tables -> Lists]] /\ gen \in Gens /\ 1 \in Tables
  BY DBSystemAssumption DEF TypeInv, MemOK, Tables
<1>1. UNCHANGED <<data, gen, writerVars, ghostVars>>
  BY DEF DumperStep, TakeJob, MergeRound, MergeDone, DumpKeys, DumpFreedKeys, DumpAccess,
     DumpAppendRelease, DumpEndAccess, DumpHash, InsertRecord, InsertEmpty, EndDumping, Undefined,
     cacheVars, memVars
<1>2. lists'[gen][1] = lists[gen][1]
  <2>1. CASE MergeRound
    <3>1. PICK k \in Keys : lists' = [lists EXCEPT ![gen - 1][1] = ListPop(@, k)]
      BY <2>1, MergeRoundIs
    <3>2. gen - 1 # gen
      BY <1>0 DEF Gens
    <3> QED BY <1>0, <3>1, <3>2
  <2>2. CASE ~ MergeRound
    <3>1. lists' = lists
      BY <2>2 DEF DumperStep, TakeJob, MergeDone, DumpKeys, DumpFreedKeys, DumpAccess,
         DumpAppendRelease, DumpEndAccess, DumpHash, InsertRecord, InsertEmpty, EndDumping,
         Undefined, memVars
    <3> QED BY <3>1
  <2> QED BY <2>1, <2>2
<1> QED BY <1>1, <1>2 DEF Current

\* A record goes from the list to the dumper.
LEMMA MergeRecords ==
  ASSUME TypeInv, CourseInv, HolderInv, MergeRound
  PROVE  JobRecords' = JobRecords
<1>1. PICK k \in Keys :
         /\ k \in DOMAIN Submitted
         /\ kvs' = Append(kvs, [key |-> k, slot |-> Submitted[k], from |-> 1])
         /\ DOMAIN Submitted' = DOMAIN Submitted \ {k}
         /\ \A x \in DOMAIN Submitted' : Submitted'[x] = Submitted[x]
  BY MergeRoundIs
<1>2. /\ dpc = "merge" /\ dpc' = "merge" /\ UNCHANGED <<file, data, pc>> /\ file.vals = << >>
  BY DEF MergeRound, HolderInv, FileIsNew, cacheVars, writerVars
<1> DEFINE n == Len(kvs)
           kv == [key |-> k, slot |-> Submitted[k], from |-> 1]
           List == {data[Submitted[x]] : x \in DOMAIN Submitted}
           Kv(q) == {data[q[i].slot] : i \in 1 .. Len(q)}
<1>3. n \in Nat /\ kvs \in Seq(Kvs)
  BY LenProperties DEF TypeInv, DumperOK
<1>4. Len(kvs') = n + 1 /\ kvs'[n + 1].slot = Submitted[k] /\ \A i \in 1 .. n : kvs'[i] = kvs[i]
  <2>1. kv.slot = Submitted[k] /\ kvs' = Append(kvs, kv)
    BY <1>1
  <2> HIDE DEF kv
  <2> QED BY <1>3, <2>1
<1>5. JobRecords = List \cup {data[kvs[i].slot] : i \in 1 .. n}
  <2>1. Pending = 1 .. n /\ 1 .. Len(file.vals) = {}
    BY <1>2, <1>3 DEF Pending
  <2> QED BY <1>2, <2>1 DEF JobRecords, Waiting
<1>6. JobRecords' = {data[Submitted'[x]] : x \in DOMAIN Submitted'}
                      \cup {data[kvs'[i].slot] : i \in 1 .. n + 1}
  <2>1. Pending' = 1 .. n + 1 /\ 1 .. Len(file'.vals) = {}
    BY <1>2, <1>3, <1>4 DEF Pending
  <2> QED BY <1>2, <2>1 DEF JobRecords, Waiting
<1>7. {data[Submitted'[x]] : x \in DOMAIN Submitted'} \cup {data[Submitted[k]]} = List
  BY <1>1
<1>8. {data[kvs'[i].slot] : i \in 1 .. n + 1} = {data[kvs[i].slot] : i \in 1 .. n} \cup {data[Submitted[k]]}
  <2> HIDE DEF n
  <2>1. n + 1 \in 1 .. n + 1 /\ \A i \in 1 .. n + 1 : i = n + 1 \/ i \in 1 .. n
    BY <1>3
  <2>2. \A i \in 1 .. n : i \in 1 .. n + 1
    BY <1>3
  <2> QED BY <1>4, <2>1, <2>2 DEF n
<1> QED BY <1>5, <1>6, <1>7, <1>8

\* A record goes from its slot to a row.
LEMMA AppendRecords ==
  ASSUME TypeInv, CourseInv, MergeInv, HolderInv, RecordInv, DumpAppendRelease
  PROVE  JobRecords' = JobRecords
<1> DEFINE slot == NextKv.slot
<1>n. PICK n \in Nat : n = Len(file.vals)
  BY LenProperties DEF TypeInv, DumperOK, Files
<1>0. /\ Len(kvs) \in Nat /\ file.vals \in Seq(0 .. MaxWrites) /\ file \in Files
      /\ n < Len(kvs) /\ data \in [Slots -> Records \cup {NoRecord}]
  BY <1>n, LenProperties DEF TypeInv, DumperOK, CacheOK, Files, DumpAppendRelease
<1>1. /\ dpc = "inside" /\ dpc' = "ending" /\ UNCHANGED <<kvs, data, pc, wait_for_dump, lists, gen>>
      /\ file'.vals = Append(file.vals, data[slot].val)
  BY <1>0 DEF DumpAppendRelease, Files, writerVars, memVars
<1>2. n + 1 \in Pending /\ slot = kvs[n + 1].slot /\ slot \in Slots
  <2>1. n + 1 \in Pending /\ slot = kvs[n + 1].slot
    BY <1>n, <1>0 DEF Pending, NextKv
  <2> QED BY <2>1 DEF HolderInv, PendingApart, TypeInv, CacheOK, BufferTypeOK
<1>3. data[slot] = [key |-> kvs[n + 1].key, val |-> data[slot].val]
  <2>1. data[slot].key = kvs[n + 1].key
    BY <1>2 DEF RecordInv, EntryPointsToItsRecord, Pending
  <2>2. data[slot] \in Records \/ data[slot] = NoRecord
    BY <1>0, <1>2
  <2>3. data[slot] = [key |-> data[slot].key, val |-> data[slot].val]
    BY <2>2 DEF Records, NoRecord
  <2> QED BY <2>1, <2>3
<1> HIDE DEF slot
<1>4. Len(file'.vals) = n + 1 /\ file'.vals[n + 1] = data[slot].val
      /\ \A i \in 1 .. n : file'.vals[i] = file.vals[i]
  BY <1>n, <1>0, <1>1
<1>5. {Row(i)' : i \in 1 .. Len(file'.vals)} = {Row(i) : i \in 1 .. n} \cup {data[slot]}
  <2>1. /\ n + 1 \in 1 .. n + 1 /\ \A i \in 1 .. n + 1 : i = n + 1 \/ i \in 1 .. n
        /\ \A i \in 1 .. n : i \in 1 .. n + 1
    BY <1>0
  <2>2. \A i \in 1 .. n : Row(i)' = Row(i)
    BY <1>1, <1>4 DEF Row
  <2>3. Row(n + 1)' = data[slot]
    BY <1>1, <1>3, <1>4 DEF Row
  <2> QED BY <1>4, <2>1, <2>2, <2>3
<1>6. {data[kvs[i].slot] : i \in Pending} = {data'[kvs'[i].slot] : i \in Pending'} \cup {data[slot]}
  <2>1. Pending' = Pending \ {n + 1}
    BY <1>n, <1>0, <1>1, <1>4 DEF Pending
  <2> QED BY <1>1, <1>2, <2>1
<1>7. Waiting' <=> Waiting
  BY <1>1 DEF Waiting
<1>8. Submitted' = Submitted
  BY <1>1 DEF Submitted
<1>9. (IF Waiting' THEN {data'[Submitted'[k]] : k \in DOMAIN Submitted'} ELSE {})
        = (IF Waiting THEN {data[Submitted[k]] : k \in DOMAIN Submitted} ELSE {})
  BY <1>1, <1>7, <1>8
<1> QED BY <1>n, <1>5, <1>6, <1>9 DEF JobRecords

\* While the dumper is past the merge, nothing waits.
LEMMA NoneWaits ==
  ASSUME DumpGate, dpc # "idle"
  PROVE  wait_for_dump = << >> /\ \A w \in Writers : pc[w] \notin {"submit", "push"}
BY DEF DumpGate, HasJob

\* Most steps of the dumper hand on what they have.
LEMMA DumperRecords ==
  ASSUME TypeInv, DumpGate, CourseInv, MergeInv, HolderInv, RecordInv, DumperStep,
         ~ MergeDone, ~ EndDumping
  PROVE  JobRecords' = JobRecords
<1>0. /\ wait_for_dump \in Seq(Gens)
  BY DEF TypeInv, MemOK
<1>1. CASE TakeJob
  <2>1. /\ UNCHANGED <<lists, gen, kvs, file, data>> /\ wait_for_dump # << >> /\ dpc' = "merge"
    BY <1>1 DEF TakeJob, cacheVars
  <2> QED BY <2>1, SameRecords DEF Waiting
<1>2. CASE DumpKeys
  <2>1. /\ UNCHANGED <<lists, gen, kvs, data, pc, wait_for_dump>>
        /\ dpc = "keys" /\ dpc' \in {"access", "insert"}
        /\ file.vals = << >> /\ file'.vals = << >>
    BY <1>2 DEF DumpKeys, NextRecord, HolderInv, FileIsNew, cacheVars, memVars, writerVars
  <2>2. ~ Waiting /\ ~ Waiting'
    BY <2>1, NoneWaits DEF Waiting
  <2>3. Pending' = Pending /\ 1 .. Len(file.vals) = {} /\ 1 .. Len(file'.vals) = {}
    BY <2>1 DEF Pending
  <2> QED BY <2>1, <2>2, <2>3 DEF JobRecords
<1>3. CASE \/ DumpAccess \/ DumpEndAccess \/ DumpHash \/ InsertRecord
           \/ DumpFreedKeys \/ InsertEmpty
  <2>1. /\ UNCHANGED <<lists, gen, kvs, file, data, pc, wait_for_dump>>
        /\ dpc \notin {"idle", "merge"} /\ dpc' \notin {"idle", "merge"}
    BY <1>3 DEF DumpAccess, DumpEndAccess, DumpHash, NextRecord, InsertRecord, DumpFreedKeys,
       InsertEmpty, Undefined, cacheVars, memVars, writerVars, dumperVars
  <2>2. Waiting' <=> Waiting
    BY <2>1 DEF Waiting
  <2> QED BY <2>1, <2>2, SameRecords
<1> QED BY <1>1, <1>2, <1>3, MergeRecords, AppendRecords DEF DumperStep

\* The end of the merge drops what is left in the list: nothing, when every key
\* is searched for.
LEMMA MergeDoneRecords ==
  ASSUME TypeInv, DumpGate, CourseInv, HolderInv, MergeDone
  PROVE  /\ JobRecords' \subseteq JobRecords
         /\ DOMAIN Submitted = {} => JobRecords' = JobRecords
<1>1. /\ UNCHANGED <<kvs, file, data, lists, gen, pc, wait_for_dump>>
      /\ dpc = "merge" /\ dpc' = "keys"
  BY DEF MergeDone, cacheVars, memVars, writerVars
<1>2. Waiting /\ ~ Waiting'
  BY <1>1, NoneWaits DEF Waiting
<1>3. Pending' = Pending /\ \A i : Row(i)' = Row(i)
  BY <1>1 DEF Pending, Row
<1>4. JobRecords' = {data[kvs[i].slot] : i \in Pending} \cup {Row(i) : i \in 1 .. Len(file.vals)}
  <2>1. {Row(i)' : i \in 1 .. Len(file'.vals)} = {Row(i) : i \in 1 .. Len(file.vals)}
    BY <1>1, <1>3
  <2>2. {data'[kvs'[i].slot] : i \in Pending'} = {data[kvs[i].slot] : i \in Pending}
    BY <1>1, <1>3
  <2> QED BY <1>2, <2>1, <2>2 DEF JobRecords
<1> QED BY <1>2, <1>4 DEF JobRecords

LEMMA EndDumpingRecords ==
  ASSUME TypeInv, DumpGate, EndDumping
  PROVE  JobRecords' = {}
<1>1. /\ kvs' = << >> /\ file'.vals = << >> /\ UNCHANGED <<pc, wait_for_dump>>
      /\ dpc = "end" /\ dpc' = "idle"
  BY DEF EndDumping, NoFile, memVars, writerVars
<1>2. ~ Waiting'
  BY <1>1, NoneWaits DEF Waiting
<1>3. Pending' = {} /\ 1 .. Len(file'.vals) = {}
  BY <1>1 DEF Pending
<1> QED BY <1>2, <1>3 DEF JobRecords

\* The manifest takes the file that holds the records of the job.
LEMMA FiledRecords ==
  ASSUME TypeInv, DumpGate, MergeInv, InsertRecord
  PROVE  /\ Len(ssts') = Len(ssts) + 1 /\ \A n \in DOMAIN ssts : ssts'[n] = ssts[n]
         /\ Rows(ssts'[Len(ssts) + 1]) = JobRecords
         /\ DOMAIN ssts' = DOMAIN ssts \cup {Len(ssts) + 1}
         /\ ssts'[Len(ssts) + 1] = [kstart |-> kvs[1].key, kend |-> Last(kvs).key,
                                    nrecord |-> Len(kvs), rows |-> file]
<1> DEFINE f == [kstart |-> kvs[1].key, kend |-> Last(kvs).key, nrecord |-> Len(kvs), rows |-> file]
<1>1. /\ dpc = "insert" /\ ssts' = Append(ssts, f)
  BY DEF InsertRecord
<1>2. ssts \in Seq(SstRecords) /\ Len(ssts) \in Nat /\ DOMAIN ssts = 1 .. Len(ssts)
  BY LenProperties DEF TypeInv, SstOK
<1>3. /\ Len(file.vals) = Len(kvs) /\ Len(kvs) \in Nat
      /\ file.keys = [i \in 1 .. Len(kvs) |-> kvs[i].key]
  BY <1>1, LenProperties DEF MergeInv, TypeInv, DumperOK
<1>4. Pending = {} /\ ~ Waiting
  <2>1. Pending = {}
    BY <1>3 DEF Pending
  <2>2. ~ Waiting
    BY <1>1, NoneWaits DEF Waiting
  <2> QED BY <2>1, <2>2
<1>5. f.rows = file
  OBVIOUS
<1>6. Rows(f) = JobRecords
  <2> HIDE DEF f
  <2>1. Rows(f) = {[key |-> file.keys[i], val |-> file.vals[i]] : i \in DOMAIN file.keys}
    BY <1>5 DEF Rows
  <2>2. Rows(f) = {Row(i) : i \in 1 .. Len(kvs)}
    BY <1>3, <2>1 DEF Row
  <2> QED BY <1>3, <1>4, <2>2 DEF JobRecords
<1>7. f = [kstart |-> kvs[1].key, kend |-> Last(kvs).key, nrecord |-> Len(kvs), rows |-> file]
  OBVIOUS
<1> HIDE DEF f
<1>8. /\ Len(ssts') = Len(ssts) + 1 /\ ssts'[Len(ssts) + 1] = f
      /\ \A n \in 1 .. Len(ssts) : ssts'[n] = ssts[n]
      /\ DOMAIN ssts' = 1 .. Len(ssts) + 1
  BY <1>1, <1>2
<1>9. 1 .. Len(ssts) + 1 = (1 .. Len(ssts)) \cup {Len(ssts) + 1}
  BY <1>2
<1> QED BY <1>2, <1>6, <1>7, <1>8, <1>9

-----------------------------------------------------------------------------
(* The order of a key's records                                            *)

LEMMA WriterSource ==
  ASSUME OneWriter, TypeInv, DumpGate, CourseInv, MergeInv, HolderInv, RecordInv, SourceInv,
         NEW w \in Writers,
         StartWrite(w) \/ WriterStep(w) \/ SpuriousWakeup(w)
  PROVE  SourceInv'
<1>0. /\ pc \in [Writers -> WriterLabels] /\ \A v \in Writers : v = w
      /\ rec \in [Writers -> Records \cup {NoRecord}]
  BY DEF TypeInv, WriterOK, OneWriter
<1>s. /\ \A r \in JobRecords : r \in acked \/ (pc[w] = "push" /\ r = rec[w])
      /\ \A r \in Current : r \in acked \/ (pc[w] \in Listed /\ r = rec[w])
  BY <1>0 DEF SourceInv
<1>q. ASSUME /\ \A r \in JobRecords' : r \in acked' \/ (pc'[w] = "push" /\ r = rec'[w])
             /\ \A r \in Current' : r \in acked' \/ (pc'[w] \in Listed /\ r = rec'[w])
      PROVE  SourceInv'
  BY <1>q DEF SourceInv
<1>1. CASE ListInsert(w)
  <2>1. pc[w] = "update" /\ pc'[w] = "count" /\ UNCHANGED <<rec, acked>>
    BY <1>0, <1>1 DEF ListInsert, Goto, ghostVars
  <2>2. /\ JobRecords' = JobRecords
        /\ Current' = {r \in Current : r.key # rec[w].key} \cup {rec[w]}
    BY <1>1, InsertRecords
  <2> QED BY <1>s, <1>q, <2>1, <2>2 DEF Listed
<1>2. CASE SubmitDump(w)
  <2>1. pc[w] = "submit" /\ pc'[w] = "push" /\ UNCHANGED <<rec, acked>>
    BY <1>0, <1>2 DEF SubmitDump, Goto, ghostVars
  <2>2. JobRecords' = Current /\ Current' = {}
    BY <1>2, SubmitRecords
  <2> QED BY <1>s, <1>q, <2>1, <2>2 DEF Listed
<1>3. CASE (Count(w) /\ pc'[w] = "idle") \/ PushDump(w)
  <2>1. acked' = acked \cup {rec[w]}
    BY <1>0, <1>3 DEF Count, PushDump, Ack, Goto
  <2>2. ~ ListInsert(w) /\ ~ SubmitDump(w)
    BY <1>3 DEF Count, PushDump, ListInsert, SubmitDump
  <2>3. JobRecords' = JobRecords /\ Current' = Current
    BY <1>3, <2>2, WriterRecords DEF WriterStep
  <2> QED BY <1>s, <1>q, <2>1, <2>3
<1>4. ASSUME ~ ListInsert(w), ~ SubmitDump(w), ~ PushDump(w), ~ (Count(w) /\ pc'[w] = "idle")
      PROVE  SourceInv'
  <2>1. /\ acked' = acked
        /\ pc[w] = "push" => pc'[w] = "push" /\ rec'[w] = rec[w]
        /\ pc[w] \in Listed => pc'[w] \in Listed /\ rec'[w] = rec[w]
    <3>1. CASE \/ StartWrite(w) \/ RequestBuff(w) \/ WriteAccess(w) \/ Copy(w) \/ WriteHash(w)
               \/ GetMemtable(w) \/ ProbeFree(w)
      BY <1>0, <3>1 DEF StartWrite, LogAppend, RequestBuff, WriteAccess, Copy, WriteHash,
         GetMemtable, ProbeFree, Goto, ghostVars, Listed
    <3>2. CASE Count(w) \/ SwitchLog(w) \/ SwitchLogAgain(w) \/ SpuriousWakeup(w)
      BY <1>0, <1>4, <3>2 DEF Count, Ack, SwitchLog, SwitchLogAgain, SpuriousWakeup, Goto,
         ghostVars, writerVars, Listed
    <3> QED BY <1>4, <3>1, <3>2, NoContention DEF WriterStep
  <2>2. JobRecords' = JobRecords /\ Current' = Current
    BY <1>4, WriterRecords
  <2> QED BY <1>s, <1>q, <2>1, <2>2
<1> QED BY <1>1, <1>2, <1>3, <1>4

LEMMA DumperShrinks ==
  ASSUME TypeInv, DumpGate, CourseInv, MergeInv, HolderInv, RecordInv, DumperStep
  PROVE  JobRecords' \subseteq JobRecords
BY DumperRecords, MergeDoneRecords, EndDumpingRecords

LEMMA DumperSource ==
  ASSUME TypeInv, DumpGate, CourseInv, MergeInv, HolderInv, RecordInv, SourceInv, DumperStep
  PROVE  SourceInv'
<1>1. JobRecords' \subseteq JobRecords
  BY DumperShrinks
<1>2. Current' = Current /\ UNCHANGED <<pc, rec, acked>>
  BY DumperKeepsCurrent DEF writerVars, ghostVars
<1> QED BY <1>1, <1>2 DEF SourceInv

\* Steps that put no record before another.
LEMMA OrderFrame ==
  ASSUME OrderInv, JobRecords' \subseteq JobRecords, Current' \subseteq Current, ssts' = ssts,
         acked \subseteq acked', dpc' = "end" => dpc = "end", dpc = "end" => dpc' = "end"
  PROVE  OrderInv'
<1>1. Filed' = Filed
  BY DEF Filed
<1>2. SortedFiles'
  BY DEF OrderInv, SortedFiles
<1> QED BY <1>1, <1>2 DEF OrderInv, Before

LEMMA WriterOrder ==
  ASSUME OneWriter, TypeInv, DumpGate, CourseInv, MergeInv, HolderInv, RecordInv,
         WritesInv, SourceInv, OrderInv, NEW w \in Writers,
         StartWrite(w) \/ WriterStep(w) \/ SpuriousWakeup(w)
  PROVE  OrderInv'
<1>0. /\ \A v \in Writers : v = w
      /\ dpc' = dpc /\ ssts' = ssts /\ acked \subseteq acked'
  <2>1. dpc' = dpc
    BY WriterKeepsSubmitted DEF dumperVars
  <2>2. ssts' = ssts /\ acked \subseteq acked'
    BY NoContention
    DEF StartWrite, LogAppend, WriterStep, RequestBuff, WriteAccess, Copy, WriteHash, GetMemtable,
        ProbeFree, ListInsert, Count, Ack, SwitchLog, SwitchLogAgain, SpuriousWakeup,
        SubmitDump, PushDump, ghostVars
  <2> QED BY <2>1, <2>2 DEF OneWriter
<1>f. Filed' = Filed /\ SortedFiles'
  <2>1. SortedFiles'
    BY <1>0 DEF OrderInv, SortedFiles
  <2> QED BY <1>0, <2>1 DEF Filed
<1>a. Filed \subseteq acked
  BY DEF OrderInv, SortedFiles, Filed
<1>1. CASE ListInsert(w)
  <2>1. pc[w] = "update"
    BY <1>1 DEF ListInsert
  <2>2. /\ JobRecords' = JobRecords
        /\ Current' = {r \in Current : r.key # rec[w].key} \cup {rec[w]}
    BY <1>1, InsertRecords
  <2>3. \A r \in JobRecords : r \in acked
    BY <1>0, <2>1 DEF SourceInv
  <2>4. \A a \in acked : a.val < rec[w].val
    BY <2>1 DEF WritesInv, Filling
  <2>5. Before(JobRecords, Current') /\ Before(Filed, Current')
    BY <1>a, <2>2, <2>3, <2>4 DEF OrderInv, Before
  <2> QED BY <1>0, <1>f, <2>2, <2>5 DEF OrderInv
<1>2. CASE SubmitDump(w)
  <2>1. JobRecords' = Current /\ Current' = {}
    BY <1>2, SubmitRecords
  <2>2. dpc = "idle"
    BY <1>2, WriterKeepsSubmitted DEF WriterStep, SubmitDump
  <2> QED BY <1>0, <1>f, <2>1, <2>2 DEF OrderInv, Before
<1>3. CASE ~ ListInsert(w) /\ ~ SubmitDump(w)
  <2>1. JobRecords' = JobRecords /\ Current' = Current
    BY <1>3, WriterRecords
  <2> QED BY <1>0, <2>1, OrderFrame
<1> QED BY <1>1, <1>2, <1>3

\* The new file is sorted, and comes after those that are there.
LEMMA InsertOrder ==
  ASSUME TypeInv, DumpGate, CourseInv, MergeInv, HolderInv, RecordInv, SourceInv, OrderInv,
         InsertRecord
  PROVE  OrderInv'
<1> DEFINE n == Len(ssts) + 1
           f == [kstart |-> kvs[1].key, kend |-> Last(kvs).key, nrecord |-> Len(kvs), rows |-> file]
<1>1. /\ \A m \in DOMAIN ssts : ssts'[m] = ssts[m]
      /\ ssts'[n] = f /\ Rows(ssts'[n]) = JobRecords /\ DOMAIN ssts' = DOMAIN ssts \cup {n}
  BY FiledRecords
<1>2. /\ dpc = "insert" /\ dpc' = "end" /\ kvs # << >> /\ UNCHANGED <<kvs, file, acked, pc>>
  BY DEF InsertRecord, ghostVars, writerVars
<1>3. JobRecords' = JobRecords /\ Current' = Current
  <2>1. DumperStep /\ ~ MergeDone /\ ~ EndDumping
    BY <1>2 DEF DumperStep, MergeDone, EndDumping
  <2> QED BY <2>1, DumperRecords, DumperKeepsCurrent
<1>4. Filed' = Filed \cup JobRecords
  BY <1>1 DEF Filed
<1>5. JobRecords \subseteq acked
  BY <1>2, NoneWaits DEF SourceInv
<1>6. /\ Len(file.vals) = Len(kvs) /\ Len(kvs) \in Nat \ {0}
      /\ file.keys = [i \in 1 .. Len(kvs) |-> kvs[i].key]
      /\ \A i, j \in 1 .. Len(kvs) : i < j => kvs[i].key < kvs[j].key
  BY <1>2, EmptySeq, LenProperties DEF MergeInv, TypeInv, DumperOK
<1>7. /\ ssts'[n].kstart = kvs[1].key /\ ssts'[n].kend = kvs[Len(kvs)].key
      /\ ssts'[n].nrecord = Len(kvs) /\ ssts'[n].rows = file
  BY <1>1 DEF Last
<1> HIDE DEF n, f
<1>8. SortedFiles'
  <2>1. ASSUME NEW m \in DOMAIN ssts'
        PROVE  LET g == ssts'[m]
                   ks == g.rows.keys
               IN  /\ Len(ks) = g.nrecord /\ Len(g.rows.vals) = g.nrecord
                   /\ \A i, j \in 1 .. g.nrecord : i < j => ks[i] < ks[j]
                   /\ g.kstart = ks[1] /\ g.kend = ks[g.nrecord]
                   /\ Rows(g) \subseteq acked'
    <3>1. CASE m \in DOMAIN ssts
      <4>1. ssts'[m] = ssts[m]
        BY <1>1, <3>1
      <4> QED BY <1>2, <3>1, <4>1 DEF OrderInv, SortedFiles
    <3>2. CASE m = n
      <4>1. Len(file.keys) = Len(kvs)
        BY <1>6
      <4>2. file.keys[1] = kvs[1].key /\ file.keys[Len(kvs)] = kvs[Len(kvs)].key
        BY <1>6
      <4>3. \A i, j \in 1 .. Len(kvs) : i < j => file.keys[i] < file.keys[j]
        BY <1>6
      <4>4. Rows(ssts'[n]) \subseteq acked'
        BY <1>1, <1>2, <1>5
      <4> QED BY <1>6, <1>7, <3>2, <4>1, <4>2, <4>3, <4>4
    <3> QED BY <1>1, <3>1, <3>2
  <2>2. ASSUME NEW l \in DOMAIN ssts', NEW m \in DOMAIN ssts', l < m
        PROVE  \A a \in Rows(ssts'[l]), b \in Rows(ssts'[m]) : a.key = b.key => a.val < b.val
    <3>0. DOMAIN ssts = 1 .. Len(ssts) /\ Len(ssts) \in Nat
      BY LenProperties DEF TypeInv, SstOK
    <3>1. l \in DOMAIN ssts /\ ssts'[l] = ssts[l]
      BY <1>1, <2>2, <3>0 DEF n
    <3>2. CASE m = n
      <4>1. Rows(ssts'[l]) \subseteq Filed
        BY <3>1 DEF Filed
      <4>2. Before(Filed, JobRecords)
        BY <1>2 DEF OrderInv
      <4> QED BY <1>1, <3>2, <4>1, <4>2 DEF Before
    <3>3. CASE m # n
      <4>1. m \in DOMAIN ssts /\ ssts'[m] = ssts[m]
        BY <1>1, <3>3
      <4> QED BY <2>2, <3>1, <4>1 DEF OrderInv, SortedFiles
    <3> QED BY <3>2, <3>3
  <2> QED BY <2>1, <2>2 DEF SortedFiles
<1>9. Before(Filed', Current')
  BY <1>3, <1>4 DEF OrderInv, Before
<1> QED BY <1>2, <1>3, <1>4, <1>8, <1>9 DEF OrderInv

LEMMA DumperOrder ==
  ASSUME TypeInv, DumpGate, CourseInv, MergeInv, HolderInv, RecordInv, SourceInv, OrderInv,
         DumperStep
  PROVE  OrderInv'
<1>0. JobRecords' \subseteq JobRecords /\ Current' = Current /\ acked' = acked
  BY DumperShrinks, DumperKeepsCurrent DEF ghostVars
<1>1. CASE EndDumping
  <2>1. dpc' = "idle" /\ ssts' = ssts /\ JobRecords' = {}
    BY <1>1, EndDumpingRecords DEF EndDumping
  <2>2. Filed' = Filed
    BY <2>1 DEF Filed
  <2>3. SortedFiles'
    BY <1>0, <2>1 DEF OrderInv, SortedFiles
  <2> QED BY <1>0, <2>1, <2>2, <2>3 DEF OrderInv, Before
<1>2. CASE ~ EndDumping /\ ~ InsertRecord
  <2>1. ssts' = ssts /\ (dpc = "end" <=> dpc' = "end")
    BY <1>2 DEF DumperStep, TakeJob, MergeRound, MergeDone, DumpKeys, DumpFreedKeys, DumpAccess,
       DumpAppendRelease, DumpEndAccess, DumpHash, NextRecord, InsertEmpty, Undefined, dumperVars
  <2> QED BY <1>0, <2>1, OrderFrame
<1> QED BY <1>1, <1>2, InsertOrder

-----------------------------------------------------------------------------
(* No step is undefined, when the merge finds every key                    *)

\* A set of numbers that is not empty has a least one, and a greatest if it is
\* bounded.
LEMMA LeastNumber ==
  ASSUME NEW S \in SUBSET Nat, S # {}
  PROVE  \E x \in S : \A y \in S : x <= y
<1> DEFINE less == OpToRel(<, Nat)
<1>1. \E x \in S : \A y \in S : <<y, x>> \notin less
  <2> HIDE DEF less
  <2>1. IsWellFoundedOn(less, Nat)
    BY NatLessThanWellFounded DEF less
  <2> QED BY <2>1, WFMin
<1>2. \A x, y \in Nat : <<y, x>> \in less <=> y < x
  BY DEF OpToRel
<1> HIDE DEF less
<1>3. PICK x \in S : \A y \in S : <<y, x>> \notin less
  BY <1>1
<1>4. \A y \in S : ~ (y < x)
  BY <1>2, <1>3, Zenon
<1>5. x \in Nat /\ \A y \in S : y \in Nat
  OBVIOUS
<1>6. \A y \in S : x <= y
  BY <1>4, <1>5
<1> QED BY <1>6

LEMMA GreatestNumber ==
  ASSUME NEW n \in Nat, NEW S \in SUBSET (0 .. n), S # {}
  PROVE  Max(S) \in S /\ \A y \in S : y <= Max(S)
<1> DEFINE T == {n - y : y \in S}
<1>1. T \in SUBSET Nat /\ T # {}
  <2>1. \A y \in S : n - y \in Nat
    <3> SUFFICES ASSUME NEW y \in S PROVE n - y \in Nat
      OBVIOUS
    <3>1. y \in 0 .. n
      OBVIOUS
    <3> QED BY <3>1
  <2> QED BY <2>1
<1>2. PICK x \in S : \A y \in S : n - x <= n - y
  <2> HIDE DEF T
  <2>1. PICK z \in T : \A t \in T : z <= t
    BY <1>1, LeastNumber
  <2>2. PICK x \in S : z = n - x
    BY <2>1 DEF T
  <2>3. \A y \in S : n - y \in T
    BY DEF T
  <2> QED BY <2>1, <2>2, <2>3
<1>3. \A y \in S : x >= y
  <2> SUFFICES ASSUME NEW y \in S PROVE x >= y
    OBVIOUS
  <2>1. n - x <= n - y /\ x \in 0 .. n /\ y \in 0 .. n
    BY <1>2
  <2> QED BY <2>1
<1>4. Max(S) \in S /\ \A y \in S : Max(S) >= y
  BY <1>3 DEF Max
<1>5. \A y \in S : y \in Nat
  OBVIOUS
<1> QED BY <1>4, <1>5

\* The merge ends when the list is empty: while it holds a key, one of its keys
\* is the smallest there is.
LEMMA MergeEnds ==
  ASSUME KeysAreSearched, TypeInv, CourseInv, JobInv, MergeDone
  PROVE  DOMAIN Submitted = {}
<1> SUFFICES ASSUME DOMAIN Submitted # {} PROVE FALSE
  OBVIOUS
<1>0. /\ dpc = "merge" /\ \A i \in Positions, k \in Keys : ~ Smallest(i, k)
      /\ curr_writing.tables \in Seq(Tables) /\ Positions = 1 .. Len(curr_writing.tables)
      /\ Len(curr_writing.tables) \in Nat
  BY LenProperties DEF MergeDone, TypeInv, DumperOK, Positions
<1>1. DOMAIN Submitted \subseteq Keys
  BY <1>0, SubmittedLists DEF Waiting, Lists
<1>2. PICK k \in DOMAIN Submitted : \A x \in DOMAIN Submitted : k <= x
  BY <1>1, LeastNumber, DBSystemAssumption
<1> DEFINE P == {j \in Positions : curr_writing.tables[j] = 1}
<1>3. P \in SUBSET Nat /\ P # {}
  BY <1>0 DEF JobInv, Positions
<1>4. PICK i \in P : \A j \in P : i <= j
  <2> HIDE DEF P
  <2> QED BY <1>3, LeastNumber
<1>5. JobList(i) = Submitted
  <2>1. curr_writing.gen + 1 = gen /\ curr_writing.gen \in Gens
    BY <1>0 DEF CourseInv, TypeInv, DumperOK
  <2>2. curr_writing.gen = gen - 1
    BY <2>1 DEF Gens
  <2> QED BY <1>4, <2>2 DEF JobList, Submitted
<1>6. \A j \in Positions : \A x \in DOMAIN JobList(j) : k < x \/ (k = x /\ i <= j)
  <2> SUFFICES ASSUME NEW j \in Positions, NEW x \in DOMAIN JobList(j)
               PROVE  k < x \/ (k = x /\ i <= j)
    OBVIOUS
  <2>1. curr_writing.tables[j] = 1 /\ JobList(j) = Submitted
    BY <1>0, MergedList
  <2>2. i <= j /\ k <= x /\ k \in Nat /\ x \in Nat
    BY <1>1, <1>2, <1>4, <2>1, DBSystemAssumption
  <2> QED BY <2>2
<1>7. Smallest(i, k)
  BY <1>1, <1>5, <1>6 DEF Smallest, KeysAreSearched
<1> QED BY <1>0, <1>1, <1>7

LEMMA WriterJob ==
  ASSUME OneWriter, TypeInv, DumpGate, CourseInv, MergeInv, JobInv, NEW w \in Writers,
         StartWrite(w) \/ WriterStep(w) \/ SpuriousWakeup(w)
  PROVE  JobInv'
<1>0. /\ pc \in [Writers -> WriterLabels] /\ \A v \in Writers : v = w
      /\ UNCHANGED <<dpc, kvs, curr_writing>>
  BY WriterKeepsSubmitted DEF TypeInv, WriterOK, OneWriter, dumperVars
<1>1. ub' = ub
  BY NoContention
  DEF StartWrite, LogAppend, WriterStep, RequestBuff, WriteAccess, Copy, WriteHash, GetMemtable,
      ProbeFree, ListInsert, Count, SwitchLog, SwitchLogAgain, SpuriousWakeup, SubmitDump, PushDump
<1>q. ASSUME /\ pc'[w] \in {"switch", "asleep", "submit"} => DOMAIN lists'[gen'][1] # {}
             /\ pc'[w] = "push" \/ wait_for_dump' # << >> => DOMAIN Submitted' # {}
             /\ dpc = "merge" => Submitted' = Submitted
      PROVE  JobInv'
  BY <1>0, <1>1, <1>q DEF JobInv
<1>2. CASE Count(w)
  <2>1. /\ UNCHANGED <<lists, gen, wait_for_dump>> /\ pc[w] = "count"
        /\ pc'[w] = "idle" \/ (pc'[w] = "switch" /\ IsFull)
    BY <1>0, <1>2 DEF Count, Ack, Goto, memVars
  <2>2. IsFull => DOMAIN lists[gen][1] # {}
    <3>1. SUFFICES ASSUME IsFull PROVE DOMAIN lists[gen][1] # {}
      OBVIOUS
    <3> DEFINE items == {tk \in Tables \X Keys : tk[2] \in DOMAIN lists[gen][tk[1]]}
    <3>2. items # {}
      <4>1. Cardinality(items) >= RECORD_BUFF_SIZE
        BY <3>1 DEF IsFull, TotalItems
      <4>2. ~ 0 >= RECORD_BUFF_SIZE
        BY BuffSizeAssumption
      <4> HIDE DEF items
      <4> QED BY <4>1, <4>2, FS_EmptySet
    <3>3. PICK t \in Tables, k \in Keys : k \in DOMAIN lists[gen][t]
      BY <3>2
    <3>4. t = 1
      BY <3>3 DEF CourseInv, TypeInv, MemOK
    <3> QED BY <3>3, <3>4
  <2>3. Submitted' = Submitted
    BY <2>1 DEF Submitted
  <2> QED BY <1>0, <1>q, <2>1, <2>2, <2>3 DEF JobInv
<1>3. CASE SubmitDump(w)
  <2>1. /\ pc[w] = "submit" /\ pc'[w] = "push" /\ wait_for_dump' = wait_for_dump
    BY <1>0, <1>3 DEF SubmitDump, Goto
  <2>2. Submitted' = lists[gen][1] /\ DOMAIN lists[gen][1] # {}
    BY <1>3, <2>1, SubmitRecords DEF JobInv
  <2>3. dpc = "idle"
    BY <2>1, WriterKeepsSubmitted DEF WriterStep
  <2> QED BY <1>q, <2>1, <2>2, <2>3
<1>4. CASE PushDump(w)
  <2>1. /\ pc[w] = "push" /\ pc'[w] = "idle" /\ UNCHANGED <<lists, gen>>
    BY <1>0, <1>4 DEF PushDump, Ack, Goto
  <2>2. Submitted' = Submitted
    BY <2>1 DEF Submitted
  <2> QED BY <1>q, <2>1, <2>2 DEF JobInv
<1>5. CASE ListInsert(w)
  <2>1. pc[w] = "update" /\ pc'[w] = "count" /\ wait_for_dump' = wait_for_dump
    BY <1>0, <1>5 DEF ListInsert, Goto
  <2>2. Waiting => Submitted' = Submitted
    BY <2>1, WriterKeepsSubmitted
  <2> QED BY <1>0, <1>q, <2>1, <2>2 DEF JobInv, Waiting
<1>6. CASE SwitchLog(w) \/ SwitchLogAgain(w) \/ SpuriousWakeup(w)
  <2>1. /\ UNCHANGED <<lists, gen, wait_for_dump>>
        /\ pc'[w] # "push" \/ pc'[w] = pc[w]
        /\ pc[w] \in {"switch", "asleep"} \/ pc'[w] = pc[w]
    BY <1>0, <1>6 DEF SwitchLog, SwitchLogAgain, SpuriousWakeup, Goto, memVars, writerVars
  <2>2. Submitted' = Submitted
    BY <2>1 DEF Submitted
  <2> QED BY <1>0, <1>q, <2>1, <2>2 DEF JobInv
<1>7. CASE \/ StartWrite(w) \/ RequestBuff(w) \/ WriteAccess(w) \/ Copy(w) \/ WriteHash(w)
           \/ GetMemtable(w) \/ ProbeFree(w)
  <2>1. /\ UNCHANGED <<lists, gen, wait_for_dump>>
        /\ pc'[w] \notin {"switch", "asleep", "submit", "push"}
    BY <1>0, <1>7 DEF StartWrite, LogAppend, RequestBuff, WriteAccess, Copy, WriteHash,
       GetMemtable, ProbeFree, Goto, memVars
  <2>2. Submitted' = Submitted
    BY <2>1 DEF Submitted
  <2> QED BY <1>0, <1>q, <2>1, <2>2 DEF JobInv
<1> QED BY <1>2, <1>3, <1>4, <1>5, <1>6, <1>7, NoContention DEF WriterStep

\* Deleting an element keeps the others.
LEMMA RemoveAtKeeps ==
  ASSUME NEW S, NEW q \in Seq(S), NEW i \in 1 .. Len(q), NEW p \in 1 .. Len(q), i # p
  PROVE  \E j \in DOMAIN RemoveAt(q, i) : RemoveAt(q, i)[j] = q[p]
<1> DEFINE a == SubSeq(q, 1, i - 1)
           b == SubSeq(q, i + 1, Len(q))
<1>0. Len(q) \in Nat /\ \A j \in 1 .. Len(q) : q[j] \in S
  BY LenProperties, ElementOfSeq
<1>1. /\ a \in Seq(S) /\ Len(a) = i - 1 /\ \A j \in 1 .. i - 1 : a[j] = q[j]
  <2>1. \A j \in 1 .. i - 1 : q[j] \in S
    BY <1>0
  <2>2. i - 1 \in Nat
    BY <1>0
  <2> QED BY <1>0, <2>1, <2>2, SubSeqProperties
<1>2. /\ b \in Seq(S) /\ Len(b) = Len(q) - i
      /\ \A j \in 1 .. Len(q) - i : b[j] = q[i + j]
  <2>1. \A j \in i + 1 .. Len(q) : q[j] \in S
    BY <1>0
  <2> QED BY <1>0, <2>1, SubSeqProperties
<1> HIDE DEF a, b
<1>3. CASE p < i
  <2>1. p \in 1 .. i - 1 /\ p \in 1 .. Len(a)
    BY <1>0, <1>1, <1>3
  <2>2. p \in DOMAIN (a \o b) /\ (a \o b)[p] = a[p]
    BY <1>0, <1>1, <1>2, <2>1
  <2> QED BY <1>1, <2>1, <2>2 DEF RemoveAt, a, b
<1>4. CASE p > i
  <2>1. p - i \in 1 .. Len(b) /\ p - 1 = Len(a) + (p - i) /\ i + (p - i) = p
    BY <1>0, <1>1, <1>2, <1>4
  <2>2. p - 1 \in DOMAIN (a \o b) /\ (a \o b)[p - 1] = b[p - i]
    BY <1>0, <1>1, <1>2, <2>1
  <2>3. b[p - i] = q[p]
    BY <1>2, <2>1
  <2> QED BY <2>2, <2>3 DEF RemoveAt, a, b
<1> QED BY <1>0, <1>3, <1>4

LEMMA DumperJob ==
  ASSUME KeysAreSearched, TypeInv, DumpGate, CourseInv, MergeInv, JobInv, DumperStep
  PROVE  JobInv'
<1>0. /\ UNCHANGED <<gen, pc>> /\ lists \in [Gens -> [Tables -> Lists]] /\ gen \in Gens
      /\ Len(kvs) \in Nat /\ DOMAIN kvs = 1 .. Len(kvs) /\ kvs \in Seq(Kvs)
      /\ curr_writing \in [gen : Gens, tables : Seq(Tables)]
      /\ wait_for_dump \in Seq(Gens)
  BY DumperKeepsCurrent, LenProperties DEF TypeInv, MemOK, DumperOK, writerVars
<1>u. ~ DumpFreedKeys /\ ~ InsertEmpty
  <2>1. ASSUME DumpFreedKeys PROVE FALSE
    <3>1. dpc = "keys" /\ PointsToFreedNode
      BY <2>1 DEF DumpFreedKeys
    <3>2. PICK i \in DOMAIN kvs : ~ Contains(curr_writing.tables, kvs[i].from)
      BY <3>1 DEF PointsToFreedNode
    <3>3. kvs[i].from = 1 /\ \E j \in DOMAIN curr_writing.tables : curr_writing.tables[j] = 1
      BY <3>1 DEF JobInv
    <3>4. DOMAIN curr_writing.tables = 1 .. Len(curr_writing.tables)
      BY <1>0, LenProperties
    <3> QED BY <3>2, <3>3, <3>4 DEF Contains
  <2> QED BY <2>1 DEF InsertEmpty, JobInv
<1>1. CASE TakeJob
  <2>1. /\ wait_for_dump # << >> /\ dpc = "idle" /\ dpc' = "merge" /\ UNCHANGED <<lists, kvs, ub>>
        /\ curr_writing'.tables = [i \in 1 .. MEMTABLE_CO_WRITE_NUM |-> i]
    BY <1>1 DEF TakeJob
  <2>2. wait_for_dump' = << >> /\ \A v \in Writers : pc[v] # "push"
    <3>1. Len(wait_for_dump) = 1 /\ \A v \in Writers : pc[v] # "push"
      BY <2>1 DEF DumpGate, HasJob
    <3> QED BY <1>0, <1>1, <3>1, HeadTailProperties, EmptySeq DEF TakeJob
  <2>3. 1 \in 1 .. MEMTABLE_CO_WRITE_NUM
    BY DBSystemAssumption
  <2>4. \E i \in DOMAIN curr_writing'.tables : curr_writing'.tables[i] = 1
    BY <2>1, <2>3
  <2>5. Submitted' = Submitted /\ DOMAIN Submitted # {}
    BY <1>0, <2>1 DEF Submitted, JobInv
  <2> QED BY <1>0, <2>1, <2>2, <2>4, <2>5 DEF JobInv
<1>2. CASE MergeRound
  <2>1. PICK k \in Keys :
           /\ k \in DOMAIN Submitted
           /\ kvs' = Append(kvs, [key |-> k, slot |-> Submitted[k], from |-> 1])
           /\ lists' = [lists EXCEPT ![gen - 1][1] = ListPop(@, k)]
    BY <1>2, MergeRoundIs
  <2>2. /\ dpc = "merge" /\ dpc' = "merge" /\ UNCHANGED <<ub, wait_for_dump>>
    BY <1>2 DEF MergeRound
  <2>3. wait_for_dump = << >> /\ \A v \in Writers : pc[v] # "push"
    BY <2>2, NoneWaits
  <2>4. kvs' # << >> /\ \A i \in DOMAIN kvs' : kvs'[i].from = 1
    <3> DEFINE kv == [key |-> k, slot |-> Submitted[k], from |-> 1]
    <3>1. kv.from = 1 /\ kvs' = Append(kvs, kv)
      BY <2>1
    <3> HIDE DEF kv
    <3>2. /\ Len(kvs') = Len(kvs) + 1 /\ kvs'[Len(kvs) + 1] = kv
          /\ \A i \in 1 .. Len(kvs) : kvs'[i] = kvs[i]
          /\ DOMAIN kvs' = 1 .. Len(kvs) + 1
      BY <1>0, <3>1
    <3>3. \A i \in 1 .. Len(kvs) + 1 : i = Len(kvs) + 1 \/ i \in 1 .. Len(kvs)
      BY <1>0
    <3>4. \A i \in DOMAIN kvs' : kvs'[i].from = 1
      BY <1>0, <3>1, <3>2, <3>3 DEF JobInv
    <3>5. kvs' # << >>
      BY <1>0, <3>2
    <3> QED BY <3>4, <3>5
  <2>5. \E i \in DOMAIN curr_writing'.tables : curr_writing'.tables[i] = 1
    <3> DEFINE q == curr_writing.tables
    <3>0. q \in Seq(Tables) /\ Len(q) \in Nat /\ DOMAIN q = 1 .. Len(q)
      BY <1>0, LenProperties
    <3>1. PICK p \in DOMAIN q : q[p] = 1
      BY <2>2 DEF JobInv
    <3>2. JobList(p) = Submitted
      <4>1. curr_writing.gen + 1 = gen /\ curr_writing.gen \in Gens
        BY <1>0, <2>2 DEF CourseInv
      <4>2. curr_writing.gen = gen - 1
        BY <4>1 DEF Gens
      <4> QED BY <3>1, <4>2 DEF JobList, Submitted
    <3>3. CASE curr_writing' = curr_writing
      BY <3>1, <3>3
    <3>4. ASSUME NEW i \in Positions, LastEmpty(i),
                 curr_writing' = [curr_writing EXCEPT !.tables = RemoveAt(@, i)]
          PROVE  \E j \in DOMAIN curr_writing'.tables : curr_writing'.tables[j] = 1
      <4>1. i # p
        BY <2>1, <3>2, <3>4 DEF LastEmpty
      <4>2. curr_writing'.tables = RemoveAt(q, i)
        BY <1>0, <3>4
      <4>3. i \in 1 .. Len(q) /\ p \in 1 .. Len(q)
        BY <3>0, <3>1 DEF Positions
      <4> HIDE DEF q
      <4>4. \E j \in DOMAIN RemoveAt(q, i) : RemoveAt(q, i)[j] = q[p]
        BY <3>0, <4>1, <4>3, RemoveAtKeeps
      <4> QED BY <3>1, <4>2, <4>4
    <3> QED BY <1>2, <3>3, <3>4 DEF MergeRound
  <2>6. lists'[gen][1] = lists[gen][1]
    <3>1. gen - 1 # gen /\ 1 \in Tables
      BY <1>0, DBSystemAssumption DEF Gens, Tables
    <3> QED BY <1>0, <2>1, <3>1
  <2> QED BY <1>0, <2>2, <2>3, <2>4, <2>5, <2>6 DEF JobInv
<1>3. CASE MergeDone
  <2>1. /\ dpc = "merge" /\ dpc' = "keys" /\ UNCHANGED <<lists, kvs, curr_writing, wait_for_dump, ub>>
    BY <1>3 DEF MergeDone, memVars
  <2>2. kvs # << >>
    BY <1>3, <2>1, MergeEnds DEF JobInv
  <2>3. Submitted' = Submitted
    BY <1>0, <2>1 DEF Submitted
  <2> QED BY <1>0, <2>1, <2>2, <2>3 DEF JobInv
<1>4. CASE DumpKeys \/ DumpAccess \/ DumpAppendRelease \/ DumpEndAccess \/ DumpHash \/ InsertRecord
  <2>1. /\ UNCHANGED <<lists, kvs, curr_writing, wait_for_dump, ub>>
        /\ dpc \notin {"idle", "merge"} /\ dpc' \notin {"idle", "merge"}
    BY <1>4 DEF DumpKeys, DumpAccess, DumpAppendRelease, DumpEndAccess, DumpHash, NextRecord,
       InsertRecord, memVars
  <2>2. Submitted' = Submitted
    BY <1>0, <2>1 DEF Submitted
  <2> QED BY <1>0, <2>1, <2>2 DEF JobInv
<1>5. CASE EndDumping
  <2>1. UNCHANGED <<lists, wait_for_dump, ub>> /\ dpc' = "idle" /\ kvs' = << >>
    BY <1>5 DEF EndDumping, memVars
  <2>2. Submitted' = Submitted
    BY <1>0, <2>1 DEF Submitted
  <2>3. DOMAIN kvs' = {}
    BY <2>1
  <2> QED BY <1>0, <2>1, <2>2, <2>3 DEF JobInv
<1> QED BY <1>u, <1>1, <1>2, <1>3, <1>4, <1>5 DEF DumperStep

-----------------------------------------------------------------------------
(* What is on disk                                                         *)

\* All that is compared is a record.
LEMMA AllAreRecords ==
  ASSUME TypeInv, SourceInv, OrderInv
  PROVE  /\ \A r \in Current \cup JobRecords \cup OnDisk \cup acked : r.val \in Nat
         /\ \A w \in Writers : pc[w] # "idle" => rec[w].val \in Nat
         /\ OnDisk = hot \cup died \cup Filed
<1>1. /\ \A r \in Records : r.val \in Nat
      /\ hot \subseteq Records /\ died \subseteq Records /\ acked \subseteq Records
      /\ \A w \in Writers : pc[w] # "idle" => rec[w] \in Records
  BY DEF Records, TypeInv, LogOK, GhostOK, WriterOK
<1>2. Current \subseteq Records /\ JobRecords \subseteq Records
  BY <1>1 DEF SourceInv, Listed
<1>3. Filed \subseteq acked
  BY DEF OrderInv, SortedFiles, Filed
<1>4. OnDisk = hot \cup died \cup Filed
  BY DEF OnDisk, Filed
<1> QED BY <1>1, <1>2, <1>3, <1>4

LEMMA WriterLog ==
  ASSUME OneWriter, TypeInv, DumpGate, CourseInv, MergeInv, HolderInv, RecordInv,
         WritesInv, SourceInv, OrderInv, LogInv, NEW w \in Writers,
         StartWrite(w) \/ WriterStep(w) \/ SpuriousWakeup(w)
  PROVE  LogInv'
<1>0. /\ pc \in [Writers -> WriterLabels] /\ \A v \in Writers : v = w
      /\ rec \in [Writers -> Records \cup {NoRecord}]
      /\ \A r \in Current \cup JobRecords \cup OnDisk \cup acked : r.val \in Nat
      /\ pc[w] # "idle" => rec[w].val \in Nat
      /\ OnDisk = hot \cup died \cup Filed
  BY AllAreRecords DEF TypeInv, WriterOK, OneWriter
<1>l. /\ ~ died_exists => died = {}
      /\ pc[w] \in {"submit", "push"} => rec[w] \in died
      /\ pc[w] \in Filling \cup {"count", "switch", "asleep"} => rec[w] \in hot
      /\ pc[w] = "submit" => hot = {}
      /\ \A r \in hot : Covers(Current, r) \/ (pc[w] \in Filling /\ r = rec[w])
      /\ \A r \in died :
           \/ Covers(JobRecords, r)
           \/ Covers(Current, r) /\ pc[w] = "submit"
      /\ \A r \in acked : Covers(OnDisk, r)
  BY <1>0 DEF LogInv
<1>d. OnDisk' = hot' \cup died' \cup Filed
  <2>1. ssts' = ssts
    BY NoContention
    DEF StartWrite, LogAppend, WriterStep, RequestBuff, WriteAccess, Copy, WriteHash, GetMemtable,
        ProbeFree, ListInsert, Count, Ack, SwitchLog, SwitchLogAgain, SpuriousWakeup,
        SubmitDump, PushDump
  <2>2. Filed' = Filed /\ OnDisk' = hot' \cup died' \cup Filed'
    BY <2>1 DEF Filed, OnDisk
  <2> QED BY <2>2
<1>q. ASSUME /\ ~ died_exists' => died' = {}
             /\ pc'[w] \in {"submit", "push"} => rec'[w] \in died'
             /\ pc'[w] \in Filling \cup {"count", "switch", "asleep"} => rec'[w] \in hot'
             /\ pc'[w] = "submit" => hot' = {}
             /\ \A r \in hot' : Covers(Current', r) \/ (pc'[w] \in Filling /\ r = rec'[w])
             /\ \A r \in died' :
                  \/ Covers(JobRecords', r)
                  \/ Covers(Current', r) /\ pc'[w] = "submit"
             /\ \A r \in acked' : Covers(OnDisk', r)
      PROVE  LogInv'
  BY <1>0, <1>q DEF LogInv, Covers
<1>1. CASE StartWrite(w)
  <2>1. PICK k \in Keys : LogAppend(w, k)
    BY <1>1 DEF StartWrite
  <2>2. /\ pc[w] = "idle" /\ pc'[w] = "request" /\ hot' = hot \cup {rec'[w]}
        /\ UNCHANGED <<died, died_exists, acked>>
    BY <1>0, <2>1 DEF LogAppend, Goto, CourseInv
  <2>3. JobRecords' = JobRecords /\ Current' = Current
    <3>1. ~ ListInsert(w) /\ ~ SubmitDump(w)
      BY <2>2 DEF ListInsert, SubmitDump
    <3> QED BY <1>1, <3>1, WriterRecords
  <2>4. \A r \in acked : Covers(OnDisk', r)
    BY <1>d, <1>l, <1>0, <2>2 DEF Covers
  <2> QED BY <1>l, <1>q, <2>2, <2>3, <2>4 DEF Filling
<1>2. CASE ListInsert(w)
  <2>1. /\ pc[w] = "update" /\ pc'[w] = "count" /\ UNCHANGED <<rec, acked, logVars>>
    BY <1>0, <1>2 DEF ListInsert, Goto, ghostVars
  <2>2. /\ JobRecords' = JobRecords
        /\ Current' = {r \in Current : r.key # rec[w].key} \cup {rec[w]}
    BY <1>2, InsertRecords
  <2>3. ASSUME NEW r \in hot PROVE Covers(Current', r)
    <3>1. CASE r = rec[w]
      BY <1>0, <2>1, <2>2, <3>1 DEF Covers
    <3>2. CASE Covers(Current, r)
      <4>1. PICK d \in Current : d.key = r.key /\ d.val >= r.val
        BY <3>2 DEF Covers
      <4>2. CASE d.key # rec[w].key
        BY <2>2, <4>1, <4>2 DEF Covers
      <4>3. CASE d.key = rec[w].key
        <5>1. d \in acked
          BY <1>0, <2>1 DEF SourceInv, Listed
        <5>2. d.val < rec[w].val
          BY <2>1, <5>1 DEF WritesInv, Filling
        <5>3. r.val \in Nat /\ d.val \in Nat /\ rec[w].val \in Nat
          BY <1>0, <2>1
        <5>4. rec[w].val >= r.val
          BY <4>1, <5>2, <5>3
        <5> QED BY <2>2, <4>1, <4>3, <5>4 DEF Covers
      <4> QED BY <4>2, <4>3
    <3> QED BY <1>l, <3>1, <3>2
  <2>4. OnDisk' = OnDisk
    BY <1>0, <1>d, <2>1 DEF logVars
  <2> QED BY <1>l, <1>q, <2>1, <2>2, <2>3, <2>4 DEF logVars, Filling
<1>3. ASSUME RenameLog, ~ died_exists, pc[w] \in {"switch", "asleep"}, pc'[w] = "submit",
             UNCHANGED <<rec, acked>>, JobRecords' = JobRecords, Current' = Current
      PROVE  LogInv'
  <2>1. died = {} /\ died' = hot /\ hot' = {} /\ died_exists'
    BY <1>l, <1>3 DEF RenameLog
  <2>2. OnDisk' = OnDisk
    BY <1>0, <1>d, <2>1
  <2>3. \A r \in died' : Covers(Current', r)
    BY <1>l, <1>3, <2>1 DEF Filling
  <2>4. rec'[w] \in died'
    BY <1>l, <1>3, <2>1
  <2>5. \A r \in acked' : Covers(OnDisk', r)
    BY <1>l, <1>3, <2>2
  <2> QED BY <1>q, <1>3, <2>1, <2>3, <2>4, <2>5 DEF Filling
<1>f. ASSUME UNCHANGED <<rec, hot, died, died_exists, acked>>,
             JobRecords' = JobRecords, Current' = Current,
             \/ pc'[w] = pc[w]
             \/ pc[w] \in Filling /\ pc'[w] \in Filling
             \/ pc[w] \in {"count", "switch", "asleep"} /\ pc'[w] \in {"switch", "asleep"}
      PROVE  LogInv'
  <2>1. OnDisk' = OnDisk
    BY <1>0, <1>d, <1>f
  <2>2. \A r \in acked' : Covers(OnDisk', r)
    BY <1>l, <1>f, <2>1
  <2> QED BY <1>l, <1>q, <1>f, <2>2 DEF Filling
<1>4. CASE SwitchLog(w) \/ SwitchLogAgain(w)
  <2>1. JobRecords' = JobRecords /\ Current' = Current
    <3>1. ~ ListInsert(w) /\ ~ SubmitDump(w)
      BY <1>4 DEF SwitchLog, SwitchLogAgain, ListInsert, SubmitDump
    <3> QED BY <1>4, <3>1, WriterRecords DEF WriterStep
  <2>2. UNCHANGED <<rec, acked>> /\ pc[w] \in {"switch", "asleep"}
    BY <1>4 DEF SwitchLog, SwitchLogAgain, ghostVars
  <2>3. CASE ~ died_exists
    <3>1. RenameLog /\ pc'[w] = "submit"
      BY <1>0, <1>4, <2>3 DEF SwitchLog, SwitchLogAgain, Goto
    <3> QED BY <1>3, <2>1, <2>2, <2>3, <3>1
  <2>4. CASE died_exists
    <3>1. UNCHANGED <<hot, died, died_exists>> /\ pc'[w] = "asleep"
      BY <1>0, <1>4, <2>4 DEF SwitchLog, SwitchLogAgain, Goto
    <3> QED BY <1>f, <2>1, <2>2, <3>1
  <2> QED BY <2>3, <2>4
<1>5. CASE SubmitDump(w)
  <2>1. /\ pc[w] = "submit" /\ pc'[w] = "push" /\ UNCHANGED <<rec, acked, logVars>>
    BY <1>0, <1>5 DEF SubmitDump, Goto, ghostVars
  <2>2. JobRecords = {} /\ JobRecords' = Current
    BY <1>5, SubmitRecords
  <2>3. \A r \in died : Covers(JobRecords', r)
    BY <1>l, <2>2 DEF Covers
  <2>4. OnDisk' = OnDisk
    BY <1>0, <1>d, <2>1 DEF logVars
  <2> QED BY <1>l, <1>q, <2>1, <2>3, <2>4 DEF logVars, Filling
<1>6. CASE Count(w) \/ PushDump(w)
  <2>1. JobRecords' = JobRecords /\ Current' = Current
    <3>1. ~ ListInsert(w) /\ ~ SubmitDump(w)
      BY <1>6 DEF Count, PushDump, ListInsert, SubmitDump
    <3> QED BY <1>6, <3>1, WriterRecords DEF WriterStep
  <2>2. /\ UNCHANGED <<hot, died, died_exists>>
        /\ \/ pc[w] \in {"count", "push"} /\ pc'[w] = "idle" /\ acked' = acked \cup {rec[w]}
           \/ pc[w] = "count" /\ pc'[w] = "switch" /\ UNCHANGED <<rec, acked>>
    BY <1>0, <1>6 DEF Count, PushDump, Ack, Goto, logVars
  <2>3. CASE pc[w] = "count" /\ pc'[w] = "switch" /\ UNCHANGED <<rec, acked>>
    BY <1>f, <2>1, <2>2, <2>3
  <2>4. CASE pc[w] \in {"count", "push"} /\ pc'[w] = "idle" /\ acked' = acked \cup {rec[w]}
    <3>1. OnDisk' = OnDisk
      BY <1>0, <1>d, <2>2
    <3>2. Covers(OnDisk, rec[w])
      BY <1>0, <1>l, <2>4 DEF Covers
    <3>3. \A r \in acked' : Covers(OnDisk', r)
      BY <1>l, <2>4, <3>1, <3>2
    <3> QED BY <1>l, <1>q, <2>1, <2>2, <2>4, <3>3 DEF Filling
  <2> QED BY <2>2, <2>3, <2>4
<1>7. CASE \/ RequestBuff(w) \/ WriteAccess(w) \/ Copy(w) \/ WriteHash(w)
           \/ GetMemtable(w) \/ ProbeFree(w) \/ SpuriousWakeup(w)
  <2>1. JobRecords' = JobRecords /\ Current' = Current
    <3>1. ~ ListInsert(w) /\ ~ SubmitDump(w)
      <4>1. CASE SpuriousWakeup(w)
        BY <1>0, <4>1 DEF SpuriousWakeup, writerVars, ListInsert, SubmitDump, Goto
      <4>2. CASE ~ SpuriousWakeup(w)
        BY <1>7, <4>2 DEF RequestBuff, WriteAccess, Copy, WriteHash, GetMemtable, ProbeFree,
           ListInsert, SubmitDump
      <4> QED BY <4>1, <4>2
    <3> QED BY <1>7, <3>1, WriterRecords DEF WriterStep
  <2>2. /\ UNCHANGED <<rec, hot, died, died_exists, acked>>
        /\ pc'[w] = pc[w] \/ (pc[w] \in Filling /\ pc'[w] \in Filling)
    BY <1>0, <1>7 DEF RequestBuff, WriteAccess, Copy, WriteHash, GetMemtable, ProbeFree,
       SpuriousWakeup, Goto, logVars, ghostVars, writerVars, Filling
  <2> QED BY <1>f, <2>1, <2>2
<1> QED BY <1>1, <1>2, <1>4, <1>5, <1>6, <1>7, NoContention DEF WriterStep

LEMMA DumperLog ==
  ASSUME KeysAreSearched, TypeInv, DumpGate, CourseInv, MergeInv, HolderInv, RecordInv,
         SourceInv, OrderInv, JobInv, LogInv, DumperStep
  PROVE  LogInv'
<1>0. /\ Current' = Current /\ UNCHANGED <<pc, rec, acked>>
      /\ \A r \in Current \cup JobRecords \cup OnDisk \cup acked : r.val \in Nat
      /\ OnDisk = hot \cup died \cup Filed
  BY DumperKeepsCurrent, AllAreRecords DEF writerVars, ghostVars
<1>1. CASE EndDumping
  <2>1. /\ dpc = "end" /\ died' = {} /\ died_exists' = FALSE /\ UNCHANGED <<hot, ssts>>
    BY <1>1 DEF EndDumping
  <2>2. \A w \in Writers : pc[w] \notin {"submit", "push"}
    BY <2>1, NoneWaits
  <2>3. OnDisk' = hot \cup Filed
    BY <2>1 DEF OnDisk, Filed
  <2>4. ASSUME NEW r \in acked PROVE Covers(OnDisk', r)
    <3>1. PICK d \in OnDisk : d.key = r.key /\ d.val >= r.val
      BY DEF LogInv, Covers
    <3>2. CASE d \in hot \cup Filed
      BY <2>3, <3>1, <3>2 DEF Covers
    <3>3. CASE d \in died
      <4>1. PICK e \in JobRecords : e.key = d.key /\ e.val >= d.val
        BY <2>2, <3>3 DEF LogInv, Covers
      <4>2. e \in OnDisk'
        BY <2>1, <2>3, <4>1 DEF OrderInv
      <4>3. e.val \in Nat /\ d.val \in Nat /\ r.val \in Nat
        BY <1>0
      <4>4. e.val >= r.val
        BY <3>1, <4>1, <4>3
      <4> QED BY <3>1, <4>1, <4>2, <4>4 DEF Covers
    <3> QED BY <1>0, <3>1, <3>2, <3>3
  <2> QED BY <1>0, <2>1, <2>2, <2>4 DEF LogInv
<1>2. CASE ~ EndDumping
  <2>1. JobRecords' = JobRecords
    BY <1>2, DumperRecords, MergeDoneRecords, MergeEnds
  <2>2. UNCHANGED <<hot, died, died_exists>>
    BY <1>2 DEF DumperStep, TakeJob, MergeRound, MergeDone, DumpKeys, DumpFreedKeys, DumpAccess,
       DumpAppendRelease, DumpEndAccess, DumpHash, InsertRecord, InsertEmpty, Undefined, logVars
  <2>3. Filed \subseteq Filed'
    <3>1. CASE InsertRecord
      BY <3>1, FiledRecords DEF Filed
    <3>2. CASE ~ InsertRecord
      <4>1. ssts' = ssts
        BY <1>2, <3>2 DEF DumperStep, TakeJob, MergeRound, MergeDone, DumpKeys, DumpFreedKeys,
           DumpAccess, DumpAppendRelease, DumpEndAccess, DumpHash, InsertEmpty, Undefined
      <4> QED BY <4>1 DEF Filed
    <3> QED BY <3>1, <3>2
  <2>4. OnDisk \subseteq OnDisk'
    BY <1>0, <2>2, <2>3 DEF OnDisk, Filed
  <2>5. \A r \in acked : Covers(OnDisk', r)
    BY <2>4 DEF LogInv, Covers
  <2> QED BY <1>0, <2>1, <2>2, <2>5 DEF LogInv
<1> QED BY <1>1, <1>2

-----------------------------------------------------------------------------
(* What the index of a key leads to                                        *)

\* Steps that set no index.
LEMMA FoundFrame ==
  ASSUME FoundInv, UNCHANGED hash, Settled' \subseteq Settled,
         \A k \in Keys, s \in Slots :
           /\ Turning(k, s) => Turning(k, s)'
           /\ Kept(k, s) => (Kept(k, s)' \/ Turning(k, s)') /\ data'[s] = data[s]
  PROVE  FoundInv'
<1> SUFFICES ASSUME NEW k \in Keys, NEW s \in Slots, hash'[k] = BufferIndex(s), ~ Turning(k, s)'
             PROVE  /\ Kept(k, s)'
                    /\ \A a \in Settled' : a.key = k => a.val <= data'[s].val
  BY DEF FoundInv
<1>1. ~ Turning(k, s) /\ hash[k] = BufferIndex(s)
  OBVIOUS
<1>2. Kept(k, s) /\ \A a \in Settled : a.key = k => a.val <= data[s].val
  BY <1>1 DEF FoundInv
<1> QED BY <1>2

\* An index leads to one slot, and not into a file.
LEMMA IndexesDiffer ==
  /\ \A s, t \in Slots : BufferIndex(s) = BufferIndex(t) => s = t
  /\ \A s \in Slots : BufferIndex(s) # NoIndex
  /\ \A f, i : FileIndex(f, i).in_file
<1>1. \A s : BufferIndex(s).idx = s
  BY DEF BufferIndex
<1>2. \A s \in Slots : BufferIndex(s) # NoIndex
  <2>1. NoIndex.idx = -1
    BY DEF NoIndex, NoSlot
  <2>2. \A s \in Slots : s # -1
    BY BuffSizeAssumption DEF Slots
  <2> QED BY <1>1, <2>1, <2>2
<1>3. \A f, i : FileIndex(f, i).in_file
  BY DEF FileIndex
<1> QED BY <1>1, <1>2, <1>3

\* What is settled while a write goes on.
LEMMA SettledIs ==
  ASSUME OneWriter, NEW w \in Writers
  PROVE  Settled = acked \cup (IF pc[w] \in {"idle", "request", "access", "inside", "hash"}
                               THEN {} ELSE {rec[w]})
BY DEF Settled, OneWriter

LEMMA WriterSettled ==
  ASSUME OneWriter, TypeInv, DumpGate, CourseInv, NEW w \in Writers,
         StartWrite(w) \/ WriterStep(w) \/ SpuriousWakeup(w), ~ WriteHash(w)
  PROVE  Settled' \subseteq Settled
<1>0. /\ pc \in [Writers -> WriterLabels] /\ rec \in [Writers -> Records \cup {NoRecord}]
  BY DEF TypeInv, WriterOK
<1> DEFINE early == {"idle", "request", "access", "inside", "hash"}
<1>1. Settled = acked \cup (IF pc[w] \in early THEN {} ELSE {rec[w]})
  BY SettledIs
<1>2. Settled' = acked' \cup (IF pc'[w] \in early THEN {} ELSE {rec'[w]})
  BY DEF Settled, OneWriter
<1>3. CASE StartWrite(w) \/ RequestBuff(w) \/ WriteAccess(w) \/ Copy(w)
  <2>1. pc'[w] \in early /\ acked' = acked
    BY <1>0, <1>3 DEF StartWrite, LogAppend, RequestBuff, WriteAccess, Copy, Goto, ghostVars
  <2> QED BY <1>1, <1>2, <2>1
<1>4. CASE Count(w) \/ PushDump(w)
  <2>1. pc[w] \notin early
    BY <1>4 DEF Count, PushDump
  <2>2. \/ pc'[w] = "idle" /\ acked' = acked \cup {rec[w]}
        \/ UNCHANGED <<acked, rec>>
    BY <1>0, <1>4 DEF Count, PushDump, Ack, Goto
  <2> QED BY <1>1, <1>2, <2>1, <2>2
<1>5. CASE \/ GetMemtable(w) \/ ProbeFree(w) \/ ListInsert(w) \/ SwitchLog(w)
           \/ SwitchLogAgain(w) \/ SubmitDump(w)
  <2>1. pc[w] \notin early /\ UNCHANGED <<acked, rec>>
    BY <1>5 DEF GetMemtable, ProbeFree, ListInsert, SwitchLog, SwitchLogAgain, SubmitDump, ghostVars
  <2> QED BY <1>1, <1>2, <2>1
<1>6. CASE SpuriousWakeup(w)
  <2>1. UNCHANGED <<pc, rec, acked>>
    BY <1>6 DEF SpuriousWakeup, writerVars, ghostVars
  <2> QED BY <1>1, <1>2, <2>1
<1> QED BY <1>3, <1>4, <1>5, <1>6, NoContention DEF WriterStep

\* The index of the key is set to the slot that the write has filled.
LEMMA WriteHashFound ==
  ASSUME OneWriter, TypeInv, RecordInv, WritesInv, FoundInv, NEW w \in Writers, WriteHash(w)
  PROVE  FoundInv'
<1>0. /\ pc \in [Writers -> WriterLabels] /\ hash \in [Keys -> Indexes \cup {NoIndex}]
      /\ pc[w] = "hash" /\ rec[w] \in Records /\ rec[w].key \in Keys /\ rec[w].val \in Nat
      /\ idx[w] \in Slots /\ \A a \in acked : a.val \in Nat
  BY DEF TypeInv, WriterOK, HashOK, GhostOK, WriteHash, Owns, Records
<1>1. /\ hash' = [hash EXCEPT ![rec[w].key] = BufferIndex(idx[w])] /\ pc'[w] = "get"
      /\ UNCHANGED <<data, lists, rec, idx, dumperVars, acked>>
  BY <1>0 DEF WriteHash, Goto, cacheVars, memVars, ghostVars
<1>2. Settled = acked /\ Settled' = acked \cup {rec[w]}
  <2>1. Settled' = acked' \cup (IF pc'[w] \in {"idle", "request", "access", "inside", "hash"}
                               THEN {} ELSE {rec'[w]})
    BY DEF Settled, OneWriter
  <2> QED BY <1>0, <1>1, <2>1, SettledIs
<1>3. ASSUME NEW k \in Keys
      PROVE  hash'[k] = NoIndex \/ hash'[k].in_file \/ \E s \in Slots : hash'[k] = BufferIndex(s)
  BY <1>0, <1>1 DEF FoundInv
<1>4. ASSUME NEW k \in Keys, NEW s \in Slots, hash'[k] = BufferIndex(s), ~ Turning(k, s)'
      PROVE  /\ Kept(k, s)'
             /\ \A a \in Settled' : a.key = k => a.val <= data'[s].val
  <2>1. CASE k = rec[w].key
    <3>1. s = idx[w]
      BY <1>0, <1>1, <1>4, <2>1, IndexesDiffer
    <3>2. Kept(k, s)'
      BY <1>1, <2>1, <3>1 DEF Kept
    <3>3. data'[s] = rec[w]
      BY <1>0, <1>1, <3>1 DEF RecordInv, CopiedRecord
    <3>4. \A a \in acked : a.val < rec[w].val
      BY <1>0 DEF WritesInv, Filling
    <3> QED BY <1>0, <1>2, <3>2, <3>3, <3>4
  <2>2. CASE k # rec[w].key
    <3>1. hash[k] = BufferIndex(s)
      BY <1>0, <1>1, <1>4, <2>2
    <3>2. ~ Turning(k, s)
      BY <1>1, <1>4 DEF Turning, LastKv, dumperVars
    <3>3. Kept(k, s) /\ \A a \in acked : a.key = k => a.val <= data[s].val
      BY <1>2, <3>1, <3>2 DEF FoundInv
    <3>4. Kept(k, s)'
      <4>1. Pending' = Pending
        BY <1>1 DEF Pending, dumperVars
      <4>2. kvs' = kvs
        BY <1>1 DEF dumperVars
      <4>3. \A v \in Writers : ~ (pc[v] \in {"get", "probe", "update"})
        BY <1>0 DEF OneWriter
      <4> QED BY <1>1, <3>3, <4>1, <4>2, <4>3 DEF Kept
    <3> QED BY <1>1, <1>2, <2>2, <3>3, <3>4
  <2> QED BY <2>1, <2>2
<1> QED BY <1>3, <1>4 DEF FoundInv

\* The list takes over from the writer; an entry that it replaces was not the
\* one that the index leads to.
LEMMA ListInsertFound ==
  ASSUME OneWriter, TypeInv, CourseInv, RecordInv, WritesInv, SourceInv, FoundInv,
         NEW w \in Writers, ListInsert(w)
  PROVE  FoundInv'
<1>0. /\ pc \in [Writers -> WriterLabels] /\ lists \in [Gens -> [Tables -> Lists]]
      /\ gen \in Gens /\ 1 \in Tables /\ rec[w].val \in Nat
      /\ pc[w] = "update" /\ table[w] = <<gen, 1>> /\ \A v \in Writers : v = w
  BY DBSystemAssumption
  DEF TypeInv, WriterOK, MemOK, Tables, ListInsert, CourseInv, OneWriter, Records
<1>1. UNCHANGED <<hash, data, dumperVars, acked, rec>> /\ pc'[w] = "count"
  BY <1>0 DEF ListInsert, Goto, cacheVars, ghostVars
<1>2. lists' = [lists EXCEPT ![gen][1] = ListUpdate(@, rec[w].key, idx[w])]
  <2>1. table[w][1] = gen /\ table[w][2] = 1
    BY <1>0
  <2> QED BY <2>1 DEF ListInsert
<1>3. Settled = acked \cup {rec[w]} /\ Settled' = acked \cup {rec[w]}
  <2>1. Settled' = acked' \cup (IF pc'[w] \in {"idle", "request", "access", "inside", "hash"}
                               THEN {} ELSE {rec'[w]})
    BY DEF Settled, OneWriter
  <2> QED BY <1>0, <1>1, <2>1, SettledIs
<1> DEFINE l == lists[gen][1]
<1>4. /\ lists'[gen][1] = ListUpdate(l, rec[w].key, idx[w])
      /\ \A g \in Gens : g # gen => lists'[g] = lists[g]
  BY <1>0, <1>2
<1> HIDE DEF l
<1>5. /\ DOMAIN lists'[gen][1] = DOMAIN l \cup {rec[w].key}
      /\ \A k \in DOMAIN l \cup {rec[w].key} :
           lists'[gen][1][k] = IF k = rec[w].key THEN idx[w] ELSE l[k]
  BY <1>4 DEF ListUpdate
<1>6. ASSUME NEW k \in Keys, NEW s \in Slots, hash'[k] = BufferIndex(s), ~ Turning(k, s)'
      PROVE  /\ Kept(k, s)'
             /\ \A a \in Settled' : a.key = k => a.val <= data'[s].val
  <2>1. ~ Turning(k, s) /\ hash[k] = BufferIndex(s)
    BY <1>1, <1>6 DEF Turning, LastKv, dumperVars
  <2>2. Kept(k, s) /\ \A a \in Settled : a.key = k => a.val <= data[s].val
    BY <2>1 DEF FoundInv
  <2>3. CASE rec[w].key = k /\ idx[w] = s
    <3>1. k \in DOMAIN lists'[gen][1] /\ lists'[gen][1][k] = s
      BY <1>5, <2>3
    <3> QED BY <1>0, <1>1, <1>3, <2>2, <3>1 DEF Kept
  <2>4. ASSUME NEW g \in Gens, k \in DOMAIN lists[g][1], lists[g][1][k] = s PROVE Kept(k, s)'
    <3>1. CASE g # gen
      BY <1>4, <2>4, <3>1 DEF Kept
    <3>2. CASE g = gen /\ k # rec[w].key
      <4>1. k \in DOMAIN lists'[gen][1] /\ lists'[gen][1][k] = s
        BY <1>5, <2>4, <3>2 DEF l
      <4> QED BY <1>0, <4>1 DEF Kept
    <3>3. CASE g = gen /\ k = rec[w].key
      <4>1. rec[w].val <= data[s].val
        BY <1>3, <2>2, <3>3
      <4>2. data[s] \in Current
        BY <2>4, <3>3 DEF Current
      <4>3. data[s] \in acked
        BY <1>0, <4>2 DEF SourceInv, Listed
      <4>4. data[s].val < rec[w].val /\ data[s].val \in Nat
        BY <1>0, <4>3 DEF WritesInv, Filling, TypeInv, GhostOK, Records
      <4> QED BY <1>0, <4>1, <4>4
    <3> QED BY <3>1, <3>2, <3>3
  <2>5. ASSUME NEW i \in Pending, kvs[i].key = k, kvs[i].slot = s PROVE Kept(k, s)'
    <3>1. Pending' = Pending /\ kvs' = kvs
      BY <1>1 DEF Pending, dumperVars
    <3> QED BY <2>5, <3>1 DEF Kept
  <2>6. Kept(k, s)'
    BY <1>0, <2>2, <2>3, <2>4, <2>5 DEF Kept
  <2> QED BY <1>1, <1>3, <2>2, <2>6
<1>7. \A k \in Keys :
        hash'[k] = NoIndex \/ hash'[k].in_file \/ \E s \in Slots : hash'[k] = BufferIndex(s)
  BY <1>1 DEF FoundInv
<1> QED BY <1>6, <1>7 DEF FoundInv

LEMMA WriterFound ==
  ASSUME OneWriter, TypeInv, DumpGate, CourseInv, HolderInv, RecordInv, WritesInv, SourceInv,
         FoundInv, NEW w \in Writers,
         StartWrite(w) \/ WriterStep(w) \/ SpuriousWakeup(w)
  PROVE  FoundInv'
<1>0. /\ pc \in [Writers -> WriterLabels] /\ \A v \in Writers : v = w
      /\ data \in [Slots -> Records \cup {NoRecord}] /\ lists \in [Gens -> [Tables -> Lists]]
      /\ 1 \in Tables /\ UNCHANGED dumperVars
  BY DBSystemAssumption, WriterKeepsSubmitted
  DEF TypeInv, WriterOK, CacheOK, MemOK, Tables, OneWriter
<1>1. CASE ~ WriteHash(w) /\ ~ ListInsert(w)
  <2>1. Settled' \subseteq Settled
    BY <1>1, WriterSettled
  <2>2. UNCHANGED <<hash, lists, kvs, file, dpc>>
    BY <1>0, <1>1, NoContention
    DEF StartWrite, LogAppend, WriterStep, RequestBuff, WriteAccess, Copy, GetMemtable, ProbeFree,
        Count, SwitchLog, SwitchLogAgain, SpuriousWakeup, SubmitDump, PushDump, memVars, dumperVars
  <2>3. pc[w] \in {"get", "probe", "update"} =>
          pc'[w] \in {"get", "probe", "update"} /\ UNCHANGED <<rec, idx>>
    <3>1. CASE StartWrite(w) \/ RequestBuff(w) \/ WriteAccess(w) \/ Copy(w)
      BY <3>1 DEF StartWrite, LogAppend, RequestBuff, WriteAccess, Copy
    <3>2. CASE GetMemtable(w) \/ ProbeFree(w)
      BY <1>0, <3>2 DEF GetMemtable, ProbeFree, Goto
    <3>3. CASE Count(w) \/ SwitchLog(w) \/ SwitchLogAgain(w) \/ SubmitDump(w) \/ PushDump(w)
      BY <3>3 DEF Count, SwitchLog, SwitchLogAgain, SubmitDump, PushDump
    <3>4. CASE SpuriousWakeup(w)
      BY <3>4 DEF SpuriousWakeup, writerVars
    <3> QED BY <1>1, <3>1, <3>2, <3>3, <3>4, NoContention DEF WriterStep
  <2>4. data' = data \/ (pc[w] = "inside" /\ data' = [data EXCEPT ![idx[w]] = rec[w]])
    BY <1>1, NoContention
    DEF StartWrite, LogAppend, WriterStep, RequestBuff, WriteAccess, Copy, GetMemtable, ProbeFree,
        Count, SwitchLog, SwitchLogAgain, SpuriousWakeup, SubmitDump, PushDump, cacheVars
  <2>5. Pending' = Pending
    BY <2>2 DEF Pending
  <2>6. ASSUME NEW k \in Keys, NEW s \in Slots
        PROVE  /\ Turning(k, s) => Turning(k, s)'
               /\ Kept(k, s) => Kept(k, s)' /\ data'[s] = data[s]
    <3>1. Turning(k, s) => Turning(k, s)'
      BY <2>2 DEF Turning, LastKv
    <3>2. Kept(k, s) => Kept(k, s)'
      BY <1>0, <2>2, <2>3, <2>5 DEF Kept
    <3>3. Kept(k, s) /\ pc[w] = "inside" => s # idx[w]
      <4>1. pc[w] = "inside" => Owns(w) /\ pc[w] \notin {"get", "probe", "update"}
        BY DEF Owns
      <4> QED BY <1>0, <4>1 DEF Kept, HolderInv, EntriesApart, PendingApart
    <3> QED BY <1>0, <2>4, <3>1, <3>2, <3>3
  <2> QED BY <2>1, <2>2, <2>6, FoundFrame
<1> QED BY <1>1, WriteHashFound, ListInsertFound

\* A record that goes from the list to the dumper is kept for its key.
LEMMA MergeFound ==
  ASSUME TypeInv, CourseInv, HolderInv, FoundInv, MergeRound
  PROVE  FoundInv'
<1>0. /\ lists \in [Gens -> [Tables -> Lists]] /\ gen \in Gens /\ gen - 1 \in Gens /\ 1 \in Tables
      /\ dpc = "merge" /\ file.vals = << >> /\ Len(kvs) \in Nat /\ kvs \in Seq(Kvs)
  BY DBSystemAssumption, SubmittedLists, LenProperties
  DEF TypeInv, MemOK, DumperOK, Tables, Waiting, MergeRound, HolderInv, FileIsNew
<1>1. UNCHANGED <<hash, data, dpc, file, writerVars, ghostVars>>
  BY DEF MergeRound, cacheVars
<1>2. PICK q \in Keys :
         /\ kvs' = Append(kvs, [key |-> q, slot |-> Submitted[q], from |-> 1])
         /\ lists' = [lists EXCEPT ![gen - 1][1] = ListPop(@, q)]
  BY MergeRoundIs
<1> DEFINE kv == [key |-> q, slot |-> Submitted[q], from |-> 1]
<1>3. kv.key = q /\ kv.slot = Submitted[q] /\ kvs' = Append(kvs, kv)
  BY <1>2
<1> HIDE DEF kv
<1>4. /\ Len(kvs') = Len(kvs) + 1 /\ kvs'[Len(kvs) + 1] = kv
      /\ \A i \in 1 .. Len(kvs) : kvs'[i] = kvs[i]
  BY <1>0, <1>3
<1>5. /\ Pending = 1 .. Len(kvs) /\ Pending' = 1 .. Len(kvs) + 1
      /\ Len(kvs) + 1 \in Pending' /\ \A i \in Pending : i \in Pending'
  BY <1>0, <1>1, <1>4 DEF Pending
<1>6. /\ \A g \in Gens : g # gen - 1 => lists'[g][1] = lists[g][1]
      /\ lists'[gen - 1][1] = ListPop(Submitted, q)
  BY <1>0, <1>2 DEF Submitted
<1>7. ASSUME NEW k \in Keys, NEW s \in Slots
      PROVE  /\ Turning(k, s) => Turning(k, s)'
             /\ Kept(k, s) => Kept(k, s)' /\ data'[s] = data[s]
  <2>1. ~ Turning(k, s)
    BY <1>0 DEF Turning
  <2>2. ASSUME NEW g \in Gens, k \in DOMAIN lists[g][1], lists[g][1][k] = s PROVE Kept(k, s)'
    <3>1. CASE g # gen - 1
      BY <1>6, <2>2, <3>1 DEF Kept
    <3>2. CASE g = gen - 1 /\ k # q
      <4>1. k \in DOMAIN ListPop(Submitted, q) /\ ListPop(Submitted, q)[k] = s
        BY <2>2, <3>2 DEF ListPop, Submitted
      <4> QED BY <1>0, <1>6, <4>1 DEF Kept
    <3>3. CASE g = gen - 1 /\ k = q
      <4>1. kv.key = k /\ kv.slot = s
        BY <1>3, <2>2, <3>3 DEF Submitted
      <4> QED BY <1>4, <1>5, <4>1 DEF Kept
    <3> QED BY <3>1, <3>2, <3>3
  <2>3. ASSUME NEW i \in Pending, kvs[i].key = k, kvs[i].slot = s PROVE Kept(k, s)'
    <3>1. i \in Pending' /\ kvs'[i] = kvs[i]
      BY <1>4, <1>5
    <3> QED BY <2>3, <3>1 DEF Kept
  <2>4. Kept(k, s) => Kept(k, s)'
    BY <1>1, <2>2, <2>3 DEF Kept, writerVars
  <2> QED BY <1>1, <2>1, <2>4
<1>8. Settled' \subseteq Settled
  BY <1>1 DEF Settled, writerVars, ghostVars
<1> QED BY <1>1, <1>7, <1>8, FoundFrame

\* The dumper appends the record and gives its slot back; it will turn the
\* index.
LEMMA AppendFound ==
  ASSUME TypeInv, FoundInv, DumpAppendRelease
  PROVE  FoundInv'
<1>n. PICK n \in Nat : n = Len(file.vals)
  BY LenProperties DEF TypeInv, DumperOK, Files
<1>0. /\ Len(kvs) \in Nat /\ file.vals \in Seq(0 .. MaxWrites) /\ file \in Files
      /\ dpc = "inside" /\ n < Len(kvs)
  BY <1>n, LenProperties DEF TypeInv, DumperOK, Files, DumpAppendRelease
<1>1. /\ UNCHANGED <<hash, data, lists, kvs, writerVars, ghostVars>> /\ dpc' = "ending"
      /\ file'.vals = Append(file.vals, data[NextKv.slot].val)
  BY <1>0 DEF DumpAppendRelease, Files, memVars
<1>2. Len(file'.vals) = n + 1
  BY <1>n, <1>0, <1>1
<1>3. LastKv' = kvs[n + 1] /\ Pending = n + 1 .. Len(kvs) /\ Pending' = n + 2 .. Len(kvs)
  BY <1>n, <1>0, <1>1, <1>2 DEF LastKv, Pending
<1>4. \A i \in Pending : i = n + 1 \/ i \in Pending'
  BY <1>0, <1>3
<1>5. ASSUME NEW k \in Keys, NEW s \in Slots
      PROVE  /\ Turning(k, s) => Turning(k, s)'
             /\ Kept(k, s) => (Kept(k, s)' \/ Turning(k, s)') /\ data'[s] = data[s]
  <2>1. ~ Turning(k, s)
    BY <1>0 DEF Turning
  <2>2. ASSUME NEW i \in Pending, kvs[i].key = k, kvs[i].slot = s
        PROVE  Kept(k, s)' \/ Turning(k, s)'
    <3>1. CASE i = n + 1
      BY <1>1, <1>3, <2>2, <3>1 DEF Turning
    <3>2. CASE i \in Pending'
      BY <1>1, <2>2, <3>2 DEF Kept
    <3> QED BY <1>4, <3>1, <3>2
  <2>3. Kept(k, s) => Kept(k, s)' \/ Turning(k, s)'
    BY <1>1, <2>2 DEF Kept, writerVars
  <2> QED BY <1>1, <2>1, <2>3
<1>6. Settled' \subseteq Settled
  BY <1>1 DEF Settled, writerVars, ghostVars
<1> QED BY <1>1, <1>5, <1>6, FoundFrame

\* The index of the key becomes that of its row.
LEMMA DumpHashFound ==
  ASSUME TypeInv, FoundInv, DumpHash
  PROVE  FoundInv'
<1>0. hash \in [Keys -> Indexes \cup {NoIndex}]
  BY DEF TypeInv, HashOK
<1>1. /\ hash' = [hash EXCEPT ![LastKv.key] = FileIndex(Len(ssts), Len(file.vals) - 1)]
      /\ UNCHANGED <<data, lists, kvs, file, writerVars, ghostVars>> /\ dpc = "hash"
  BY DEF DumpHash, cacheVars, memVars
<1>2. \A f, i, s : FileIndex(f, i) # BufferIndex(s)
  BY DEF FileIndex, BufferIndex
<1>3. ASSUME NEW k \in Keys
      PROVE  hash'[k] = NoIndex \/ hash'[k].in_file \/ \E s \in Slots : hash'[k] = BufferIndex(s)
  BY <1>0, <1>1, IndexesDiffer DEF FoundInv
<1>4. ASSUME NEW k \in Keys, NEW s \in Slots, hash'[k] = BufferIndex(s)
      PROVE  /\ Kept(k, s)'
             /\ \A a \in Settled' : a.key = k => a.val <= data'[s].val
  <2>1. LastKv.key # k
    BY <1>0, <1>1, <1>2, <1>4
  <2>2. hash[k] = BufferIndex(s) /\ ~ Turning(k, s)
    BY <1>0, <1>1, <1>4, <2>1 DEF Turning
  <2>3. Kept(k, s) /\ \A a \in Settled : a.key = k => a.val <= data[s].val
    BY <2>2 DEF FoundInv
  <2>4. Pending' = Pending
    BY <1>1 DEF Pending
  <2>5. Kept(k, s)' /\ Settled' = Settled
    BY <1>1, <2>3, <2>4 DEF Kept, Settled, writerVars, ghostVars
  <2> QED BY <1>1, <2>3, <2>5
<1> QED BY <1>3, <1>4 DEF FoundInv

LEMMA DumperFound ==
  ASSUME TypeInv, CourseInv, MergeInv, HolderInv, FoundInv, DumperStep
  PROVE  FoundInv'
<1>0. UNCHANGED <<data, writerVars, ghostVars>>
  BY DumperKeepsCurrent
<1>1. ASSUME ~ MergeRound, ~ DumpAppendRelease, ~ DumpHash PROVE FoundInv'
  <2>1. UNCHANGED <<hash, lists>>
    BY <1>1 DEF DumperStep, TakeJob, MergeDone, DumpKeys, DumpFreedKeys, DumpAccess, DumpEndAccess,
       InsertRecord, InsertEmpty, EndDumping, Undefined, memVars
  <2>2. (kvs' = kvs /\ Pending' = Pending) \/ Pending = {}
    <3>1. CASE EndDumping
      <4>1. Len(file.vals) = Len(kvs) /\ Len(kvs) \in Nat
        BY <3>1, LenProperties DEF EndDumping, MergeInv, TypeInv, DumperOK
      <4> QED BY <4>1 DEF Pending
    <3>2. CASE DumpKeys
      <4>1. kvs' = kvs /\ file'.vals = file.vals
        BY <3>2 DEF DumpKeys, HolderInv, FileIsNew
      <4> QED BY <4>1 DEF Pending
    <3>3. CASE ~ EndDumping /\ ~ DumpKeys
      <4>1. kvs' = kvs /\ file' = file
        BY <1>1, <3>3 DEF DumperStep, TakeJob, MergeDone, DumpFreedKeys, DumpAccess, DumpEndAccess,
           InsertRecord, InsertEmpty, Undefined, dumperVars
      <4> QED BY <4>1 DEF Pending
    <3> QED BY <3>1, <3>2, <3>3
  <2>3. dpc \in {"ending", "hash"} => dpc' \in {"ending", "hash"} /\ UNCHANGED <<kvs, file>>
    BY <1>1 DEF DumperStep, TakeJob, MergeDone, DumpKeys, DumpFreedKeys, DumpAccess, DumpEndAccess,
       InsertRecord, InsertEmpty, EndDumping, Undefined, dumperVars
  <2>4. ASSUME NEW k \in Keys, NEW s \in Slots
        PROVE  /\ Turning(k, s) => Turning(k, s)'
               /\ Kept(k, s) => Kept(k, s)' /\ data'[s] = data[s]
    <3>1. Turning(k, s) => Turning(k, s)'
      BY <2>3 DEF Turning, LastKv
    <3>2. Kept(k, s) => Kept(k, s)'
      BY <1>0, <2>1, <2>2 DEF Kept, writerVars
    <3> QED BY <1>0, <3>1, <3>2
  <2>5. Settled' \subseteq Settled
    BY <1>0 DEF Settled, writerVars, ghostVars
  <2> QED BY <2>1, <2>4, <2>5, FoundFrame
<1> QED BY <1>1, MergeFound, AppendFound, DumpHashFound

-----------------------------------------------------------------------------
(* The theorems                                                            *)

\* What holds whether or not the merge finds every key, and what takes that.
EngineInv == CourseInv /\ MergeInv /\ WritesInv /\ SourceInv /\ OrderInv /\ FoundInv

DurableInv == LogInv /\ JobInv

LEMMA InitEngine == Init => EngineInv /\ DurableInv
<1> SUFFICES ASSUME Init PROVE EngineInv /\ DurableInv
  OBVIOUS
<1>0. /\ \A w \in Writers : pc[w] = "idle"
      /\ \A g \in Gens, t \in Tables : lists[g][t] = EmptyList
      /\ \A k \in Keys : hash[k] = NoIndex
      /\ gen = 0 /\ 0 \in Gens /\ 1 \in Tables /\ wait_for_dump = << >> /\ dpc = "idle"
      /\ kvs = << >> /\ file.vals = << >> /\ ssts = << >> /\ acked = {} /\ log_open
      /\ hot = {} /\ died = {} /\ ub = "none"
  BY DBSystemAssumption DEF Init, Gens, Tables, NoFile
<1>1. DOMAIN EmptyList = {}
  BY DEF EmptyList
<1>2. /\ ~ Waiting /\ Pending = {} /\ 1 .. Len(file.vals) = {} /\ DOMAIN kvs = {}
      /\ DOMAIN ssts = {} /\ 1 .. Len(kvs) = {}
  BY <1>0 DEF Waiting, Pending
<1>3. JobRecords = {} /\ Current = {} /\ Filed = {}
  BY <1>0, <1>1, <1>2 DEF JobRecords, Current, Filed
<1>4. CourseInv
  BY <1>0, <1>1 DEF CourseInv
<1>5. MergeInv
  BY <1>0, <1>2 DEF MergeInv
<1>6. WritesInv
  BY <1>0 DEF WritesInv, Filling
<1>7. SourceInv
  BY <1>3 DEF SourceInv
<1>8. OrderInv
  <2>1. SortedFiles
    BY <1>2 DEF SortedFiles
  <2> QED BY <1>0, <1>3, <2>1 DEF OrderInv, Before
<1>9. FoundInv
  BY <1>0, IndexesDiffer DEF FoundInv
<1>10. LogInv
  BY <1>0 DEF LogInv, Filling
<1>11. JobInv
  BY <1>0, <1>2 DEF JobInv
<1> QED BY <1>4, <1>5, <1>6, <1>7, <1>8, <1>9, <1>10, <1>11 DEF EngineInv, DurableInv

LEMMA DumperWrites ==
  ASSUME TypeInv, CourseInv, WritesInv, DumperStep
  PROVE  WritesInv'
BY DumperKeepsCurrent DEF WritesInv, writerVars, ghostVars

\* A step of nobody.
LEMMA EngineStutters ==
  ASSUME EngineInv, UNCHANGED vars PROVE EngineInv'
<1>0. /\ UNCHANGED <<data, hash, lists, gen, wait_for_dump, log_open, ssts>>
      /\ UNCHANGED <<pc, rec, idx, table, dpc, curr_writing, kvs, file, writes, acked>>
  BY DEF vars, cacheVars, memVars, logVars, writerVars, dumperVars, ghostVars
<1>1. Submitted' = Submitted /\ Pending' = Pending
  BY <1>0 DEF Submitted, Pending
<1>2. JobRecords' = JobRecords /\ Current' = Current
  BY <1>0, <1>1 DEF JobRecords, Current, Waiting, Row
<1>3. CourseInv'
  BY <1>0 DEF EngineInv, CourseInv
<1>4. MergeInv'
  BY <1>0, <1>1 DEF EngineInv, MergeInv
<1>5. WritesInv'
  BY <1>0 DEF EngineInv, WritesInv
<1>6. SourceInv'
  BY <1>0, <1>2 DEF EngineInv, SourceInv
<1>7. OrderInv'
  BY <1>0, <1>2, OrderFrame DEF EngineInv
<1>8. FoundInv'
  BY <1>0, <1>1, FoundFrame DEF EngineInv, Settled, Kept, Turning, LastKv
<1> QED BY <1>3, <1>4, <1>5, <1>6, <1>7, <1>8 DEF EngineInv

LEMMA DurableStutters ==
  ASSUME DurableInv, UNCHANGED vars PROVE DurableInv'
<1>0. /\ UNCHANGED <<data, lists, gen, wait_for_dump, hot, died, died_exists, ssts, ub>>
      /\ UNCHANGED <<pc, rec, dpc, curr_writing, kvs, file, acked>>
  BY DEF vars, cacheVars, memVars, logVars, writerVars, dumperVars, ghostVars
<1>1. Submitted' = Submitted /\ Pending' = Pending
  BY <1>0 DEF Submitted, Pending
<1>2. JobRecords' = JobRecords /\ Current' = Current /\ OnDisk' = OnDisk
  BY <1>0, <1>1 DEF JobRecords, Current, OnDisk, Waiting, Row
<1>3. LogInv'
  BY <1>0, <1>2 DEF DurableInv, LogInv
<1>4. JobInv'
  BY <1>0, <1>1 DEF DurableInv, JobInv
<1> QED BY <1>3, <1>4 DEF DurableInv

\* Who takes a step when one thread writes.
LEMMA StepIs ==
  ASSUME OneWriter, TypeInv, CourseInv, [Next]_vars
  PROVE  \/ \E w \in Writers : StartWrite(w) \/ WriterStep(w) \/ SpuriousWakeup(w)
         \/ DumperStep
         \/ UNCHANGED vars
BY NoContention DEF Next

LEMMA EngineStep ==
  OneWriter /\ TypeInv /\ DumpGate /\ HolderInv /\ RecordInv /\ EngineInv /\ [Next]_vars
    => EngineInv'
<1> SUFFICES ASSUME OneWriter, TypeInv, DumpGate, HolderInv, RecordInv, EngineInv, [Next]_vars
             PROVE  EngineInv'
  OBVIOUS
<1>0. CourseInv /\ MergeInv /\ WritesInv /\ SourceInv /\ OrderInv /\ FoundInv /\ FileIsNew
  BY DEF EngineInv, HolderInv
<1>1. ASSUME NEW w \in Writers, StartWrite(w) \/ WriterStep(w) \/ SpuriousWakeup(w)
      PROVE  EngineInv'
  <2>1. CourseInv' /\ MergeInv' /\ WritesInv'
    BY <1>0, <1>1, WriterCourse, WriterMerge, WriterWrites
  <2>2. SourceInv' /\ OrderInv'
    BY <1>0, <1>1, WriterSource, WriterOrder
  <2>3. FoundInv'
    BY <1>0, <1>1, WriterFound
  <2> QED BY <2>1, <2>2, <2>3 DEF EngineInv
<1>2. CASE DumperStep
  <2>1. CourseInv' /\ MergeInv' /\ WritesInv'
    BY <1>0, <1>2, DumperCourse, DumperMerge, DumperWrites
  <2>2. SourceInv' /\ OrderInv'
    BY <1>0, <1>2, DumperSource, DumperOrder
  <2>3. FoundInv'
    BY <1>0, <1>2, DumperFound
  <2> QED BY <2>1, <2>2, <2>3 DEF EngineInv
<1>3. CASE UNCHANGED vars
  BY <1>3, EngineStutters
<1> QED BY <1>0, <1>1, <1>2, <1>3, StepIs

LEMMA DurableStep ==
  OneWriter /\ KeysAreSearched /\ TypeInv /\ DumpGate /\ HolderInv /\ RecordInv /\ EngineInv
    /\ DurableInv /\ [Next]_vars => DurableInv'
<1> SUFFICES ASSUME OneWriter, KeysAreSearched, TypeInv, DumpGate, HolderInv, RecordInv,
                    EngineInv, DurableInv, [Next]_vars
             PROVE  DurableInv'
  OBVIOUS
<1>0. CourseInv /\ MergeInv /\ WritesInv /\ SourceInv /\ OrderInv /\ LogInv /\ JobInv
  BY DEF EngineInv, DurableInv
<1>1. ASSUME NEW w \in Writers, StartWrite(w) \/ WriterStep(w) \/ SpuriousWakeup(w)
      PROVE  DurableInv'
  BY <1>0, <1>1, WriterLog, WriterJob DEF DurableInv
<1>2. CASE DumperStep
  BY <1>0, <1>2, DumperLog, DumperJob DEF DurableInv
<1>3. CASE UNCHANGED vars
  BY <1>3, DurableStutters
<1> QED BY <1>0, <1>1, <1>2, <1>3, StepIs

LEMMA EngineInvariant == OneWriter /\ Spec => [](TypeInv /\ RecordInv /\ EngineInv)
<1> SUFFICES ASSUME OneWriter PROVE Spec => [](TypeInv /\ RecordInv /\ EngineInv)
  OBVIOUS
<1>1. TypeInv /\ DumpGate /\ HolderInv /\ RecordInv /\ EngineInv /\ [Next]_vars => EngineInv'
  BY EngineStep
<1> QED BY InitEngine, <1>1, TypesAndHolders, OneDumpAtATime, PTL DEF Spec

LEMMA DurableInvariant == OneWriter /\ KeysAreSearched /\ Spec => []DurableInv
<1> SUFFICES ASSUME OneWriter, KeysAreSearched PROVE Spec => []DurableInv
  OBVIOUS
<1>1. TypeInv /\ DumpGate /\ HolderInv /\ RecordInv /\ EngineInv /\ DurableInv /\ [Next]_vars
        => DurableInv'
  BY DurableStep
<1>2. Spec => []EngineInv
  BY EngineInvariant, PTL
<1> QED BY InitEngine, <1>1, <1>2, TypesAndHolders, OneDumpAtATime, PTL DEF Spec

\* While one thread writes, whatever key the merge misses, the files that the
\* manifest lists have their keys in strictly ascending order and hold records
\* of writes that returned, and of two files the later has a key's later write.
THEOREM FilesAreSorted == OneWriter /\ Spec => []SortedFiles
<1>1. EngineInv => SortedFiles
  BY DEF EngineInv, OrderInv
<1> QED BY <1>1, EngineInvariant, PTL

\* While one thread writes, every write that returned is in a log or in a file
\* that the manifest lists, or a later write of its key is, in every state: when
\* the logs are switched, while the job is written, when the died log goes.
THEOREM AckedIsOnDisk == OneWriter /\ KeysAreSearched /\ Spec => []AckedOnDisk
<1>1. DurableInv => AckedOnDisk
  BY DEF DurableInv, LogInv, Covers, AckedOnDisk
<1> QED BY <1>1, DurableInvariant, PTL

\* While one thread writes keys below INT64_MAX, no list is updated that the
\* dumper has, no pointer leads into a list that the merge deleted, no job is
\* empty and no write goes to a closed log.
THEOREM NothingIsUndefined == OneWriter /\ KeysAreSearched /\ Spec => []NoUndefinedBehaviour
<1>1. DurableInv => NoUndefinedBehaviour
  BY DEF DurableInv, JobInv, NoUndefinedBehaviour
<1> QED BY <1>1, DurableInvariant, PTL

\* An index into the cache leads to a record that somebody answers for.
LEMMA FoundIsFresh == TypeInv /\ RecordInv /\ EngineInv => CachedIndexIsFresh
<1> SUFFICES ASSUME TypeInv, RecordInv, EngineInv, NEW k \in Keys,
                    hash[k] # NoIndex, ~ hash[k].in_file, ~ BeingTurned(k)
             PROVE  data[hash[k].idx].key = k /\ data[hash[k].idx].val >= LastAcked(k)
  BY DEF CachedIndexIsFresh
<1>1. PICK s \in Slots : hash[k] = BufferIndex(s)
  BY DEF EngineInv, FoundInv
<1>2. hash[k].idx = s
  BY <1>1 DEF BufferIndex
<1>3. ~ Turning(k, s)
  BY <1>2 DEF Turning, BeingTurned
<1>4. Kept(k, s) /\ \A a \in Settled : a.key = k => a.val <= data[s].val
  BY <1>1, <1>3 DEF EngineInv, FoundInv
<1>5. data[s].key = k
  <2>1. 1 \in Tables
    BY DBSystemAssumption DEF Tables
  <2> QED BY <1>4, <2>1 DEF Kept, RecordInv, CopiedRecord, EntryPointsToItsRecord, Pending
<1>6. data[s].val \in Nat
  BY DBSystemAssumption DEF TypeInv, CacheOK, Records, NoRecord
<1> DEFINE vals == {0} \cup {r.val : r \in {a \in acked : a.key = k}}
<1>7. LastAcked(k) \in vals
  <2>1. vals \in SUBSET (0 .. MaxWrites) /\ vals # {} /\ MaxWrites \in Nat
    BY DBSystemAssumption DEF TypeInv, GhostOK, Records
  <2>2. Max(vals) \in vals
    <3> HIDE DEF vals
    <3> QED BY <2>1, GreatestNumber
  <2> QED BY <2>2 DEF LastAcked
<1>8. \A v \in vals : v \in Nat /\ v <= data[s].val
  BY <1>4, <1>6 DEF Settled, TypeInv, GhostOK, Records
<1> HIDE DEF vals
<1>9. data[s].val >= LastAcked(k)
  BY <1>6, <1>7, <1>8
<1> QED BY <1>2, <1>5, <1>9

\* While one thread writes, an index that leads into the cache leads to a record
\* of its key that is no older than the last write of the key that returned, but
\* for the key whose index the dumper is turning.
THEOREM IndexIsFresh == OneWriter /\ Spec => []CachedIndexIsFresh
BY FoundIsFresh, EngineInvariant, PTL
=============================================================================
