---------------------------- MODULE CacheReaders ----------------------------
(***************************************************************************)
(* DBSystem::read beside the other clients of the record cache, down to    *)
(* the condition variables.  A read looks its index up twice: once for the *)
(* slot to enter, and once more for the slot to leave.  In between, the    *)
(* index may have become that of another slot, or of a row of a file, and  *)
(* nothing asks which of the two it is.                                    *)
(*                                                                         *)
(* Writers and dumper are those of BufferClients, with what carries a slot *)
(* from one to the other: the hash table, the memtables, and the job that  *)
(* is dumped.  How lists are chosen, counted and merged is in DBSystem.    *)
(***************************************************************************)
EXTENDS Buffer, FiniteSets

CONSTANTS
  Writers, Loader, Dumper,  \* the threads of BufferClients
  Readers,                  \* threads that call DBSystem::read
  Keys,                     \* keys they use, after get_key
  MaxWrites                 \* bound: number of calls of write

ASSUME CacheReadersAssumption ==
  /\ Loader \notin Writers /\ Dumper \notin Writers \cup {Loader}
  /\ Readers \cap (Writers \cup {Loader, Dumper}) = {}
  /\ Keys \subseteq Nat
  /\ MaxWrites \in Nat

VARIABLES
  idx_waiter, slot_waiter, pc, idx, published,  \* of BufferClients
  data,             \* the record each slot holds
  hash,             \* the index of each key
  rec, hashed,      \* the record of each writer; writers that have set its index
  memtable,         \* the lists that take inserts: key -> slot
  job, turning,     \* the records the dumper has yet to append: key -> slot; the
                    \* key whose record it is at
  row,              \* rows of the file it writes
  rpc, rd,          \* of each reader
  writes, acked,    \* number of writes; the last of each key that is done
  ub                \* the program's behaviour is no longer defined

clientVars == <<bufferVars, idx_waiter, slot_waiter, pc, idx, published>>
jobVars    == <<memtable, job, turning, row>>
readerVars == <<rpc, rd>>
writeVars  == <<rec, hashed, writes, acked>>
vars == <<clientVars, data, hash, jobVars, readerVars, writeVars, ub>>

Clients == INSTANCE BufferClients

NoKey    == -1
NoRecord == [key |-> NoKey, val |-> 0]
NoIndex  == [in_file |-> FALSE, idx |-> -1]
NoRead   == [key |-> NoKey, idx |-> -1, floor |-> 0, kept |-> FALSE]
Empty    == [k \in {} |-> -1]

\* Nothing was in the logs.
Init ==
  /\ Clients!Init /\ pc[Loader] = "done"
  /\ data = [s \in Slots |-> NoRecord]
  /\ hash = [k \in Keys |-> NoIndex]
  /\ rec = [w \in Writers |-> NoRecord] /\ hashed = {}
  /\ memtable = Empty /\ job = Empty /\ turning = NoKey /\ row = 0
  /\ rpc = [r \in Readers |-> "idle"] /\ rd = [r \in Readers |-> NoRead]
  /\ writes = 0 /\ acked = [k \in Keys |-> 0] /\ ub = FALSE

-----------------------------------------------------------------------------
(* Writers *)

IsFull == Cardinality(DOMAIN memtable) >= RECORD_BUFF_SIZE

\* When the lists are full no slot is free, and a write would get no further.
StartWrite(w, k) ==
  /\ writes < MaxWrites /\ ~ IsFull
  /\ Clients!StartWrite(w)
  /\ writes' = writes + 1
  /\ rec' = [rec EXCEPT ![w] = [key |-> k, val |-> writes + 1]]
  /\ UNCHANGED <<data, hash, jobVars, readerVars, hashed, acked, ub>>

RequestBuff(w) ==
  /\ Clients!SleepForSlot(w) \/ Clients!Request(w)
  /\ UNCHANGED <<data, hash, jobVars, readerVars, writeVars, ub>>

WaitForAccess(t) ==
  /\ Clients!SleepForAccess(t) \/ Clients!Access(t)
  /\ UNCHANGED <<data, hash, jobVars, readerVars, writeVars, ub>>

Copy(w) ==
  /\ Clients!EndFill(w)
  /\ data' = [data EXCEPT ![idx[w]] = rec[w]]
  /\ UNCHANGED <<hash, jobVars, readerVars, writeVars, ub>>

\* Mutant: the index is set before the record is in the slot.
WriteHashBeforeCopy(w) ==
  /\ pc[w] = "access" /\ w \notin hashed
  /\ hash' = [hash EXCEPT ![rec[w].key] = [in_file |-> FALSE, idx |-> idx[w]]]
  /\ hashed' = hashed \cup {w}
  /\ UNCHANGED <<clientVars, data, jobVars, readerVars, rec, writes, acked, ub>>

\* Indexer::update
WriteHash(w) ==
  /\ pc[w] = "publish" /\ w \notin hashed
  /\ hash' = [hash EXCEPT ![rec[w].key] = [in_file |-> FALSE, idx |-> idx[w]]]
  /\ hashed' = hashed \cup {w}
  /\ UNCHANGED <<clientVars, data, jobVars, readerVars, rec, writes, acked, ub>>

\* The record enters a list.  One of the same key that was there has lost its
\* slot: no list leads to it any more.
ListInsert(w) ==
  /\ w \in hashed
  /\ Clients!Publish(w)
  /\ LET k == rec[w].key
     IN  /\ memtable' = [x \in DOMAIN memtable \cup {k} |->
                           IF x = k THEN idx[w] ELSE memtable[x]]
         /\ acked' = [acked EXCEPT ![k] = rec[w].val]
  /\ hashed' = hashed \ {w} /\ rec' = [rec EXCEPT ![w] = NoRecord]
  /\ UNCHANGED <<data, hash, job, turning, row, readerVars, writes, ub>>

\* switch_log lets no job begin before the last has ended.
SubmitDump ==
  /\ IsFull
  /\ job = Empty /\ turning = NoKey /\ row = 0
  /\ job' = memtable /\ memtable' = Empty
  /\ UNCHANGED <<clientVars, data, hash, turning, row, readerVars, writeVars, ub>>

-----------------------------------------------------------------------------
(* The dumper, for one record after another *)

NextRecord(k) ==
  /\ turning = NoKey
  /\ k \in DOMAIN job /\ \A x \in DOMAIN job : k <= x
  /\ Clients!StartDump(job[k])
  /\ turning' = k
  /\ job' = [x \in DOMAIN job \ {k} |-> job[x]]
  /\ UNCHANGED <<data, hash, memtable, row, readerVars, writeVars, ub>>

\* A slot that is given back is no longer that of the readers that looked it up.
ReleaseBuff ==
  /\ Clients!DumpRelease
  /\ rd' = [r \in Readers |->
              IF rd[r].idx = idx[Dumper] THEN [rd[r] EXCEPT !.kept = FALSE] ELSE rd[r]]
  /\ UNCHANGED <<data, hash, jobVars, rpc, writeVars, ub>>

EndAccess ==
  /\ Clients!DumpEnd
  /\ UNCHANGED <<data, hash, jobVars, readerVars, writeVars, ub>>

\* Mutant: rows are counted from one.
DumpHashFromOne ==
  /\ turning # NoKey /\ pc[Dumper] = "idle"
  /\ hash' = [hash EXCEPT ![turning] = [in_file |-> TRUE, idx |-> row + 1]]
  /\ turning' = NoKey /\ row' = row + 1
  /\ UNCHANGED <<clientVars, data, memtable, job, readerVars, writeVars, ub>>

\* The key's index becomes that of its row, whatever it was by then.
DumpHash ==
  /\ turning # NoKey /\ pc[Dumper] = "idle"
  /\ hash' = [hash EXCEPT ![turning] = [in_file |-> TRUE, idx |-> row]]
  /\ turning' = NoKey /\ row' = row + 1
  /\ UNCHANGED <<clientVars, data, memtable, job, readerVars, writeVars, ub>>

EndDumping ==
  /\ row > 0 /\ job = Empty /\ turning = NoKey
  /\ row' = 0
  /\ UNCHANGED <<clientVars, data, hash, memtable, job, turning, readerVars, writeVars, ub>>

-----------------------------------------------------------------------------
(* Readers *)

\* The dumper has given the slot of the key's record back, or is about to say
\* that it has.
Released(k) == turning = k /\ pc[Dumper] \in {"ending", "idle"}

Lookup(r, k) ==
  /\ rpc[r] = "idle"
  /\ hash[k] # NoIndex
  /\ rpc' = [rpc EXCEPT ![r] = "access"]
  /\ rd' = [rd EXCEPT ![r] = [key |-> k, idx |-> hash[k].idx, floor |-> acked[k],
                              kept |-> ~ hash[k].in_file /\ ~ Released(k)]]
  /\ UNCHANGED <<clientVars, data, hash, jobVars, writeVars, ub>>

\* A key nobody has written: a null pointer is dereferenced.
LookupMissing(r, k) ==
  /\ rpc[r] = "idle"
  /\ hash[k] = NoIndex
  /\ ub' = TRUE
  /\ UNCHANGED <<clientVars, data, hash, jobVars, readerVars, writeVars>>

ReadSleep(r) ==
  /\ rpc[r] = "access" /\ r \notin slot_waiter
  /\ ~ Accessible(rd[r].idx)
  /\ slot_waiter' = slot_waiter \cup {r}
  /\ UNCHANGED <<bufferVars, idx_waiter, pc, idx, published, data, hash, jobVars,
                 readerVars, writeVars, ub>>

ReadAccess(r) ==
  /\ rpc[r] = "access" /\ r \notin slot_waiter
  /\ Accessible(rd[r].idx)
  /\ LockSlot(rd[r].idx)
  /\ rpc' = [rpc EXCEPT ![r] = "inside"]
  /\ UNCHANGED <<idxes_empty, idxes_wrote, idx_waiter, slot_waiter, pc, idx, published,
                 data, hash, jobVars, rd, writeVars, ub>>

\* Mutant: nobody is notified.
ReadEndWithoutNotify(r) ==
  /\ rpc[r] = "inside"
  /\ UnlockSlot(hash[rd[r].key].idx)
  /\ rpc' = [rpc EXCEPT ![r] = "idle"] /\ rd' = [rd EXCEPT ![r] = NoRead]
  /\ UNCHANGED <<idxes_empty, idxes_wrote, idx_waiter, slot_waiter, pc, idx, published,
                 data, hash, jobVars, writeVars, ub>>

\* get_value; then the access is ended of the slot the index has by now.  A
\* reader and a writer in one slot race for its value, of which nothing is
\* claimed then.
ReadEnd(r) ==
  /\ rpc[r] = "inside"
  /\ UnlockSlot(hash[rd[r].key].idx)
  /\ Clients!NotifyOne(slot_waiter, slot_waiter')
  /\ rpc' = [rpc EXCEPT ![r] = "idle"] /\ rd' = [rd EXCEPT ![r] = NoRead]
  /\ UNCHANGED <<idxes_empty, idxes_wrote, idx_waiter, pc, idx, published, data, hash,
                 jobVars, writeVars, ub>>

\* A condition variable may wake a thread nobody notified.
SpuriousWakeup(t) ==
  /\ \/ t \in idx_waiter /\ idx_waiter' = idx_waiter \ {t} /\ UNCHANGED slot_waiter
     \/ t \in slot_waiter /\ slot_waiter' = slot_waiter \ {t} /\ UNCHANGED idx_waiter
  /\ UNCHANGED <<bufferVars, pc, idx, published, data, hash, jobVars, readerVars,
                 writeVars, ub>>

-----------------------------------------------------------------------------
WriterStep(w) ==
  RequestBuff(w) \/ WaitForAccess(w) \/ Copy(w) \/ WriteHash(w) \/ ListInsert(w)

DumperStep ==
  \/ \E k \in Keys : NextRecord(k)
  \/ WaitForAccess(Dumper) \/ ReleaseBuff \/ EndAccess \/ DumpHash \/ EndDumping

ReaderStep(r) == ReadSleep(r) \/ ReadAccess(r) \/ ReadEnd(r)

Next ==
  /\ ~ ub
  /\ \/ \E w \in Writers : WriterStep(w) \/ \E k \in Keys : StartWrite(w, k)
     \/ SubmitDump \/ DumperStep
     \/ \E r \in Readers :
          ReaderStep(r) \/ \E k \in Keys : Lookup(r, k) \/ LookupMissing(r, k)
     \/ \E t \in Writers \cup {Dumper} \cup Readers : SpuriousWakeup(t)

Spec == Init /\ [][Next]_vars

-----------------------------------------------------------------------------
Indexes == [in_file : BOOLEAN, idx : Slots]
Records == [key : Keys, val : 1 .. MaxWrites]
Lists   == UNION {[ks -> Slots] : ks \in SUBSET Keys}
Reads   == [key : Keys, idx : Slots, floor : 0 .. MaxWrites, kept : BOOLEAN]

Accessors == Writers \cup {Dumper} \cup Readers

\* Types.  A row that is taken for a slot is at least the number of one: a file
\* has no more rows than there are slots.
TypeOK ==
  /\ BufferTypeOK
  /\ idx_waiter \subseteq Writers /\ slot_waiter \subseteq Accessors
  /\ data \in [Slots -> Records \cup {NoRecord}]
  /\ hash \in [Keys -> Indexes \cup {NoIndex}]
  /\ rec \in [Writers -> Records \cup {NoRecord}] /\ hashed \subseteq Writers
  /\ memtable \in Lists /\ job \in Lists /\ turning \in Keys \cup {NoKey}
  /\ row \in 0 .. RECORD_BUFF_SIZE
  /\ rpc \in [Readers -> {"idle", "access", "inside"}]
  /\ rd \in [Readers -> Reads \cup {NoRead}]
  /\ writes \in 0 .. MaxWrites /\ acked \in [Keys -> 0 .. MaxWrites]
  /\ ub \in BOOLEAN

Asking(t)   == IF t \in Readers THEN rpc[t] = "access" ELSE pc[t] = "access"
InAccess(t) == IF t \in Readers THEN rpc[t] = "inside" ELSE pc[t] \in {"inside", "ending"}
SlotOf(t)   == IF t \in Readers THEN rd[t].idx ELSE idx[t]

\* The flags that nobody who is inside will clear: a read that found the index
\* changed at its second look has ended another access than the one it began.
Stuck == {s \in Slots : accessing[s] = 1 /\ ~ \E t \in Accessors : InAccess(t) /\ SlotOf(t) = s}

\* One condition variable and notify_one for all slots, with readers that wait
\* for different ones: while threads sleep, another is awake that is inside a
\* slot or about to enter one, and will notify again.  It is only behind a
\* stuck flag that all may sleep: a read during which its key was overwritten
\* or dumped can stop the dumper, and the writers with it.
NobodyStranded ==
  slot_waiter # {} /\ Stuck = {} =>
    \E t \in Accessors \ slot_waiter : InAccess(t) \/ Asking(t)

\* A read returns a record of the key it was asked for.
ReadsOwnKey == [][\A r \in Readers : ReadEnd(r) => data[rd[r].idx].key = rd[r].key]_vars

\* A read whose slot was not given back since it looked the key up returns a
\* record of its key, no older than the last write that was done by then, and
\* no writer is inside the slot with it, whatever flags other reads have
\* cleared.
ReadsFresh ==
  [][\A r \in Readers : ReadEnd(r) /\ rd[r].kept =>
       LET found == data[rd[r].idx]
       IN  /\ found.key = rd[r].key /\ found.val >= rd[r].floor
           /\ \A w \in Writers : pc[w] = "inside" => idx[w] # rd[r].idx]_vars
=============================================================================
