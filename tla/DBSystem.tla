------------------------------ MODULE DBSystem ------------------------------
(***************************************************************************)
(* The engine at work: DBSystem::write, the memtables, the thread that     *)
(* dumps full memtables into sorted files (MemTables), and the two log     *)
(* files (DiskManager), over the record cache of Buffer.  DBSystem::read,  *)
(* which changes nothing but the flags of the cache, is in CacheReaders.   *)
(*                                                                         *)
(* One action is one critical section, or one stretch of code that touches *)
(* only what its thread owns.  A program counter says which locks a writer *)
(* holds: current_memtable_list_mutex at "probe", the data_mutex of        *)
(* the list it chose at "update".                                          *)
(*                                                                         *)
(* A step the language leaves undefined sets the variable ub to its reason *)
(* and stops the model: nothing is claimed of what follows it.             *)
(***************************************************************************)
EXTENDS Buffer, FiniteSets

CONSTANTS
  Writers,                \* threads that call DBSystem::write
  Keys,                   \* keys they use, after get_key
  MEMTABLE_CO_WRITE_NUM,  \* lists that take inserts at a time
  INT64_MAX,              \* the key where the merge starts its minimum
  MaxWrites               \* bound: number of writes started

ASSUME DBSystemAssumption ==
  /\ Keys \subseteq Nat
  /\ MEMTABLE_CO_WRITE_NUM \in Nat \ {0}
  /\ INT64_MAX \in Nat
  /\ MaxWrites \in Nat

Tables == 1 .. MEMTABLE_CO_WRITE_NUM
Gens   == 0 .. MaxWrites   \* at most one submit_dump per write
DUMP_QUEUE_CAPACITY == 10

VARIABLES
  data,             \* the record each slot holds
  hash,             \* hashTable: the index of each key
  lists,            \* lists[g][t]: key -> slot of list t of generation g
  gen,              \* generation of current_memtables
  wait_for_dump,    \* queue of the generations submitted and not yet taken
  hot, log_open,    \* records in the hot log; curr_log_fd is open
  died, died_exists,\* records in the died log; the file exists
  wait_switch_log,  \* writers asleep in switch_log
  ssts,             \* the manifest's records, each with the file's rows
  writes,           \* number of writes started
  acked,            \* records whose write returned
  ub,               \* why the behaviour is undefined, or "none"
  pc, rec, idx, table,          \* of each writer
  dpc, curr_writing, kvs, file  \* of the dumper

cacheVars  == <<bufferVars, data>>
memVars    == <<lists, gen, wait_for_dump>>
logVars    == <<hot, log_open, died, died_exists, wait_switch_log>>
writerVars == <<pc, rec, idx, table>>
dumperVars == <<dpc, curr_writing, kvs, file>>
ghostVars  == <<writes, acked>>
vars == <<cacheVars, hash, memVars, logVars, ssts, ub,
          writerVars, dumperVars, ghostVars>>

NoSlot   == -1
NoRecord == [key |-> -1, val |-> 0]
NoIndex  == [in_file |-> FALSE, fid |-> -1, idx |-> NoSlot]
NoTable  == <<0, 0>>
NoFile   == [keys |-> << >>, vals |-> << >>]
NoJob    == [gen |-> 0, tables |-> << >>]

EmptyList == [k \in {} |-> NoSlot]

\* The index of a record in the cache, and of row i (from 0) of file fid.
BufferIndex(s)  == [in_file |-> FALSE, fid |-> 0, idx |-> s]
FileIndex(f, i) == [in_file |-> TRUE, fid |-> f, idx |-> i]

\* Mutant: a node with a smaller key counts as found.
ListUpdateFindsLess(l, k, s) ==
  LET found == {x \in DOMAIN l : x <= k}
  IN  [x \in DOMAIN l \cup (IF found = {} THEN {k} ELSE {}) |-> IF x <= k THEN s ELSE l[x]]

\* SkipList::update: one node per key.
ListUpdate(l, k, s) == [x \in DOMAIN l \cup {k} |-> IF x = k THEN s ELSE l[x]]
ListPop(l, k)       == [x \in DOMAIN l \ {k} |-> l[x]]

Init ==
  /\ BufferInit
  /\ data = [s \in Slots |-> NoRecord]
  /\ hash = [k \in Keys |-> NoIndex]
  /\ lists = [g \in Gens |-> [t \in Tables |-> EmptyList]]
  /\ gen = 0
  /\ wait_for_dump = << >>
  /\ hot = {} /\ log_open = TRUE
  /\ died = {} /\ died_exists = FALSE
  /\ wait_switch_log = {}
  /\ ssts = << >>
  /\ writes = 0 /\ acked = {} /\ ub = "none"
  /\ pc = [w \in Writers |-> "idle"]
  /\ rec = [w \in Writers |-> NoRecord]
  /\ idx = [w \in Writers |-> NoSlot]
  /\ table = [w \in Writers |-> NoTable]
  /\ dpc = "idle" /\ curr_writing = NoJob /\ kvs = << >> /\ file = NoFile

Goto(w, label) == pc' = [pc EXCEPT ![w] = label]

Undefined(reason) ==
  /\ ub' = reason
  /\ UNCHANGED <<cacheVars, hash, memVars, logVars, ssts,
                 writerVars, dumperVars, ghostVars>>

\* notify_one: some sleeper wakes, if there is one.
NotifyOne(sleepers, sleepersNext) ==
  \/ sleepers = {} /\ sleepersNext = {}
  \/ \E t \in sleepers : sleepersNext = sleepers \ {t}

-----------------------------------------------------------------------------
(* DBSystem::write *)

\* write_to_log.  While another writer sleeps in switch_log the descriptor is
\* closed: the write fails unnoticed, or reaches a file that was opened since.
LogAppend(w, k) ==
  /\ pc[w] = "idle" /\ writes < MaxWrites
  /\ LET r == [key |-> k, val |-> writes + 1]
     IN  /\ rec' = [rec EXCEPT ![w] = r]
         /\ hot' = IF log_open THEN hot \cup {r} ELSE hot
  /\ writes' = writes + 1
  /\ Goto(w, "request")
  /\ UNCHANGED <<cacheVars, hash, memVars, log_open, died, died_exists, wait_switch_log,
                 ssts, ub, idx, table, dumperVars, acked>>

LogAppendClosed(w) ==
  /\ pc[w] = "idle" /\ writes < MaxWrites
  /\ ~ log_open
  /\ Undefined("log_fd_closed")

\* request_record_buff
RequestBuff(w) ==
  /\ pc[w] = "request"
  /\ \E s \in Slots :
       /\ RequestSlot(s)
       /\ idx' = [idx EXCEPT ![w] = s]
  /\ Goto(w, "access")
  /\ UNCHANGED <<accessing, data, hash, memVars, logVars, ssts, ub, rec, table,
                 dumperVars, ghostVars>>

\* Mutant: the writer enters a slot the dumper has released and not left.
WriteAccessWithoutWait(w) ==
  /\ pc[w] = "access"
  /\ LockSlot(idx[w])
  /\ Goto(w, "inside")
  /\ UNCHANGED <<idxes_empty, idxes_wrote, data, hash, memVars, logVars, ssts, ub,
                 rec, idx, table, dumperVars, ghostVars>>

\* wait_for_access
WriteAccess(w) ==
  /\ pc[w] = "access"
  /\ Accessible(idx[w])
  /\ LockSlot(idx[w])
  /\ Goto(w, "inside")
  /\ UNCHANGED <<idxes_empty, idxes_wrote, data, hash, memVars, logVars, ssts, ub,
                 rec, idx, table, dumperVars, ghostVars>>

\* memcpy and end_access
Copy(w) ==
  /\ pc[w] = "inside"
  /\ data' = [data EXCEPT ![idx[w]] = rec[w]]
  /\ UnlockSlot(idx[w])
  /\ Goto(w, "hash")
  /\ UNCHANGED <<idxes_empty, idxes_wrote, hash, memVars, logVars, ssts, ub,
                 rec, idx, table, dumperVars, ghostVars>>

\* Mutant: a key that has an index keeps it.
WriteHashInsertsOnly(w) ==
  /\ pc[w] = "hash"
  /\ hash' = IF hash[rec[w].key] = NoIndex
             THEN [hash EXCEPT ![rec[w].key] = BufferIndex(idx[w])] ELSE hash
  /\ Goto(w, "get")
  /\ UNCHANGED <<cacheVars, memVars, logVars, ssts, ub, rec, idx, table,
                 dumperVars, ghostVars>>

\* The index of the key, old or new, becomes that of the slot.
WriteHash(w) ==
  /\ pc[w] = "hash"
  /\ hash' = [hash EXCEPT ![rec[w].key] = BufferIndex(idx[w])]
  /\ Goto(w, "get")
  /\ UNCHANGED <<cacheVars, memVars, logVars, ssts, ub, rec, idx, table,
                 dumperVars, ghostVars>>

\* current_memtable_list_mutex is free.
ListMutexFree == \A w \in Writers : pc[w] # "probe"

\* A writer holds the data_mutex of list t of generation g.
Locked(g, t) == \E w \in Writers : pc[w] = "update" /\ table[w] = <<g, t>>

\* get_memtable takes the list mutex and keeps it while it goes round the
\* lists until one's try_lock succeeds.
GetMemtable(w) ==
  /\ pc[w] = "get"
  /\ ListMutexFree
  /\ table' = [table EXCEPT ![w] = <<gen, 1>>]
  /\ Goto(w, "probe")
  /\ UNCHANGED <<cacheVars, hash, memVars, logVars, ssts, ub, rec, idx,
                 dumperVars, ghostVars>>

ProbeLocked(w) ==
  /\ pc[w] = "probe"
  /\ Locked(table[w][1], table[w][2])
  /\ table' = [table EXCEPT ![w][2] = IF @ = MEMTABLE_CO_WRITE_NUM THEN 1 ELSE @ + 1]
  /\ UNCHANGED <<cacheVars, hash, memVars, logVars, ssts, ub, pc, rec, idx,
                 dumperVars, ghostVars>>

ProbeFree(w) ==
  /\ pc[w] = "probe"
  /\ ~ Locked(table[w][1], table[w][2])
  /\ Goto(w, "update")
  /\ UNCHANGED <<cacheVars, hash, memVars, logVars, ssts, ub, rec, idx, table,
                 dumperVars, ghostVars>>

\* The dumper reads, or has freed, the lists of generation g.
WithDumper(g) ==
  /\ g # gen
  /\ \A i \in DOMAIN wait_for_dump : wait_for_dump[i] # g
  /\ \A w \in Writers : ~ (pc[w] = "push" /\ table[w][1] = g)

\* update and un_lock.  submit_dump does not take data_mutex, and the dumper
\* takes no lock at all: the list may have been taken from under the writer.
ListInsert(w) ==
  /\ pc[w] = "update"
  /\ ~ WithDumper(table[w][1])
  /\ LET g == table[w][1]
         t == table[w][2]
     IN  lists' = [lists EXCEPT ![g][t] = ListUpdate(@, rec[w].key, idx[w])]
  /\ idx' = [idx EXCEPT ![w] = NoSlot]
  /\ table' = [table EXCEPT ![w] = NoTable]
  /\ Goto(w, "count")
  /\ UNCHANGED <<cacheVars, hash, gen, wait_for_dump, logVars, ssts, ub, rec,
                 dumperVars, ghostVars>>

ListInsertRacing(w) ==
  /\ pc[w] = "update"
  /\ WithDumper(table[w][1])
  /\ Undefined("racing_update")

\* get_total_items counts under the list mutex, each list under its data_mutex:
\* no list is locked when the last one has been counted.
TotalItems ==
  Cardinality({tk \in Tables \X Keys : tk[2] \in DOMAIN lists[gen][tk[1]]})

CanCount == ListMutexFree /\ \A t \in Tables : ~ Locked(gen, t)

IsFull == TotalItems >= RECORD_BUFF_SIZE

Ack(w) ==
  /\ acked' = acked \cup {rec[w]}
  /\ rec' = [rec EXCEPT ![w] = NoRecord]
  /\ Goto(w, "idle")

Count(w) ==
  /\ pc[w] = "count"
  /\ CanCount
  /\ \/ ~ IsFull /\ Ack(w)
     \/ IsFull /\ Goto(w, "switch") /\ UNCHANGED <<rec, acked>>
  /\ UNCHANGED <<cacheVars, hash, memVars, logVars, ssts, ub, idx, table,
                 dumperVars, writes>>

\* The end of switch_log, when no died log is there: rename the log, open a
\* new one.
RenameLog ==
  /\ died' = hot /\ died_exists' = TRUE
  /\ hot' = {} /\ log_open' = TRUE

\* Mutant: no wait for the died log to go.
SwitchLogWithoutWait(w) ==
  /\ pc[w] = "switch"
  /\ RenameLog
  /\ Goto(w, "submit")
  /\ UNCHANGED <<cacheVars, hash, memVars, wait_switch_log, ssts, ub, rec, idx, table,
                 dumperVars, ghostVars>>

\* switch_log closes the log before it looks for the died log, and sleeps while
\* that one exists.
SwitchLog(w) ==
  /\ pc[w] = "switch"
  /\ \/ /\ ~ died_exists
        /\ RenameLog
        /\ Goto(w, "submit")
        /\ UNCHANGED wait_switch_log
     \/ /\ died_exists
        /\ log_open' = FALSE
        /\ wait_switch_log' = wait_switch_log \cup {w}
        /\ Goto(w, "asleep")
        /\ UNCHANGED <<hot, died, died_exists>>
  /\ UNCHANGED <<cacheVars, hash, memVars, ssts, ub, rec, idx, table,
                 dumperVars, ghostVars>>

\* switch_log closes a descriptor that is closed already, and by now perhaps
\* another file's.
SwitchLogClosed(w) ==
  /\ pc[w] = "switch"
  /\ ~ log_open
  /\ Undefined("log_fd_closed")

\* A writer that was woken looks again.
SwitchLogAgain(w) ==
  /\ pc[w] = "asleep" /\ w \notin wait_switch_log
  /\ \/ /\ ~ died_exists
        /\ RenameLog
        /\ Goto(w, "submit")
        /\ UNCHANGED wait_switch_log
     \/ /\ died_exists
        /\ wait_switch_log' = wait_switch_log \cup {w}
        /\ UNCHANGED <<pc, hot, log_open, died, died_exists>>
  /\ UNCHANGED <<cacheVars, hash, memVars, ssts, ub, rec, idx, table,
                 dumperVars, ghostVars>>

SpuriousWakeup(w) ==
  /\ w \in wait_switch_log
  /\ wait_switch_log' = wait_switch_log \ {w}
  /\ UNCHANGED <<cacheVars, hash, memVars, hot, log_open, died, died_exists, ssts, ub,
                 writerVars, dumperVars, ghostVars>>

\* submit_dump takes the current lists, locked or not, and installs new ones,
\* which the creator thread always has ready; then it queues what it took.
SubmitDump(w) ==
  /\ pc[w] = "submit"
  /\ ListMutexFree
  /\ gen < MaxWrites
  /\ table' = [table EXCEPT ![w] = <<gen, 0>>]
  /\ gen' = gen + 1
  /\ Goto(w, "push")
  /\ UNCHANGED <<cacheVars, hash, lists, wait_for_dump, logVars, ssts, ub, rec, idx,
                 dumperVars, ghostVars>>

PushDump(w) ==
  /\ pc[w] = "push"
  /\ Len(wait_for_dump) < DUMP_QUEUE_CAPACITY
  /\ wait_for_dump' = Append(wait_for_dump, table[w][1])
  /\ table' = [table EXCEPT ![w] = NoTable]
  /\ Ack(w)
  /\ UNCHANGED <<cacheVars, hash, lists, gen, logVars, ssts, ub, idx,
                 dumperVars, writes>>

-----------------------------------------------------------------------------
(* MemTables::buffers_dumper and dump_all *)

TakeJob ==
  /\ dpc = "idle"
  /\ wait_for_dump # << >>
  /\ curr_writing' = [gen |-> Head(wait_for_dump),
                      tables |-> [i \in 1 .. MEMTABLE_CO_WRITE_NUM |-> i]]
  /\ wait_for_dump' = Tail(wait_for_dump)
  /\ dpc' = "merge"
  /\ UNCHANGED <<cacheVars, hash, lists, gen, logVars, ssts, ub, kvs, file,
                 writerVars, ghostVars>>

\* The list at position i of curr_writing.
Positions  == DOMAIN curr_writing.tables
JobList(i) == lists[curr_writing.gen][curr_writing.tables[i]]

\* Mutant: the comparison is turned round.
SmallestIsLargest(i, k) ==
  /\ k \in DOMAIN JobList(i) /\ k < INT64_MAX
  /\ \A j \in Positions : \A x \in DOMAIN JobList(j) : k > x \/ (k = x /\ i <= j)

\* The key the merge looks for: the smallest first key of a list, below the
\* value its search starts from; among equals the first list wins.
Smallest(i, k) ==
  /\ k \in DOMAIN JobList(i) /\ k < INT64_MAX
  /\ \A j \in Positions : \A x \in DOMAIN JobList(j) : k < x \/ (k = x /\ i <= j)

\* Mutant: the round deletes the last list, empty or not.
LastEmptyOrNot(i) == \A j \in Positions : j <= i

\* The last of the lists that are empty.
LastEmpty(i) ==
  /\ DOMAIN JobList(i) = {}
  /\ \A j \in Positions : DOMAIN JobList(j) = {} => j <= i

\* One round of the merge: pop the smallest record, then delete the last of
\* the lists this round found empty.
MergeRound ==
  /\ dpc = "merge"
  /\ \E i \in Positions, k \in Keys :
       LET t == curr_writing.tables[i]
       IN  /\ Smallest(i, k)
           /\ kvs' = Append(kvs, [key |-> k, slot |-> JobList(i)[k], from |-> t])
           /\ lists' = [lists EXCEPT ![curr_writing.gen][t] = ListPop(@, k)]
  /\ \/ /\ \A i \in Positions : ~ LastEmpty(i)
        /\ UNCHANGED curr_writing
     \/ \E i \in Positions :
          /\ LastEmpty(i)
          /\ curr_writing' = [curr_writing EXCEPT !.tables = RemoveAt(@, i)]
  /\ UNCHANGED <<cacheVars, hash, gen, wait_for_dump, logVars, ssts, ub, dpc, file,
                 writerVars, ghostVars>>

MergeDone ==
  /\ dpc = "merge"
  /\ \A i \in Positions, k \in Keys : ~ Smallest(i, k)
  /\ dpc' = "keys"
  /\ UNCHANGED <<cacheVars, hash, memVars, logVars, ssts, ub, curr_writing, kvs, file,
                 writerVars, ghostVars>>

\* kvs points into the nodes of the lists it was popped from.
PointsToFreedNode ==
  \E i \in DOMAIN kvs : ~ Contains(curr_writing.tables, kvs[i].from)

\* The record after the last one that was appended to the file, and that one.
NextKv == kvs[Len(file.vals) + 1]
LastKv == kvs[Len(file.vals)]

NextRecord(f) == dpc' = IF Len(f.vals) < Len(kvs) THEN "access" ELSE "insert"

\* dumpint_keys opens the file and writes all the keys.
DumpKeys ==
  /\ dpc = "keys" /\ ~ PointsToFreedNode
  /\ file' = [keys |-> [i \in 1 .. Len(kvs) |-> kvs[i].key], vals |-> << >>]
  /\ NextRecord(file')
  /\ UNCHANGED <<cacheVars, hash, memVars, logVars, ssts, ub, curr_writing, kvs,
                 writerVars, ghostVars>>

DumpFreedKeys ==
  /\ dpc = "keys" /\ PointsToFreedNode
  /\ Undefined("freed_node")

\* The loop of dump_all: wait_for_access; append_dumping, release_buff;
\* end_access; then the key's index becomes that of its row.
DumpAccess ==
  /\ dpc = "access"
  /\ Accessible(NextKv.slot)
  /\ LockSlot(NextKv.slot)
  /\ dpc' = "inside"
  /\ UNCHANGED <<idxes_empty, idxes_wrote, data, hash, memVars, logVars, ssts, ub,
                 curr_writing, kvs, file, writerVars, ghostVars>>

DumpAppendRelease ==
  /\ dpc = "inside"
  /\ file' = [file EXCEPT !.vals = Append(@, data[NextKv.slot].val)]
  /\ ReleaseSlot(NextKv.slot)
  /\ dpc' = "ending"
  /\ UNCHANGED <<accessing, data, hash, memVars, logVars, ssts, ub, curr_writing, kvs,
                 writerVars, ghostVars>>

DumpEndAccess ==
  /\ dpc = "ending"
  /\ UnlockSlot(LastKv.slot)
  /\ dpc' = "hash"
  /\ UNCHANGED <<idxes_empty, idxes_wrote, data, hash, memVars, logVars, ssts, ub,
                 curr_writing, kvs, file, writerVars, ghostVars>>

\* Mutant: the row is counted one too low.
DumpHashRowBefore ==
  /\ dpc = "hash"
  /\ hash' = [hash EXCEPT ![LastKv.key] = FileIndex(Len(ssts), Len(file.vals) - 2)]
  /\ NextRecord(file)
  /\ UNCHANGED <<cacheVars, memVars, logVars, ssts, ub, curr_writing, kvs, file,
                 writerVars, ghostVars>>

\* The index of the key becomes that of the row just written.
DumpHash ==
  /\ dpc = "hash"
  /\ hash' = [hash EXCEPT ![LastKv.key] = FileIndex(Len(ssts), Len(file.vals) - 1)]
  /\ NextRecord(file)
  /\ UNCHANGED <<cacheVars, memVars, logVars, ssts, ub, curr_writing, kvs, file,
                 writerVars, ghostVars>>

\* insert_record, on disk and in memory.  front() of an empty vector is
\* undefined.
InsertRecord ==
  /\ dpc = "insert" /\ kvs # << >>
  /\ ssts' = Append(ssts, [kstart |-> kvs[1].key, kend |-> Last(kvs).key,
                           nrecord |-> Len(kvs), rows |-> file])
  /\ dpc' = "end"
  /\ UNCHANGED <<cacheVars, hash, memVars, logVars, ub, curr_writing, kvs, file,
                 writerVars, ghostVars>>

InsertEmpty ==
  /\ dpc = "insert" /\ kvs = << >>
  /\ Undefined("empty_front")

\* Mutants: nobody is notified; the died log stays.
EndDumpingWithoutNotify ==
  /\ dpc = "end"
  /\ died' = {} /\ died_exists' = FALSE
  /\ UNCHANGED wait_switch_log
  /\ curr_writing' = NoJob /\ kvs' = << >> /\ file' = NoFile
  /\ dpc' = "idle"
  /\ UNCHANGED <<cacheVars, hash, memVars, hot, log_open, ssts, ub,
                 writerVars, ghostVars>>

EndDumpingKeepsLog ==
  /\ dpc = "end"
  /\ NotifyOne(wait_switch_log, wait_switch_log')
  /\ curr_writing' = NoJob /\ kvs' = << >> /\ file' = NoFile
  /\ dpc' = "idle"
  /\ UNCHANGED <<cacheVars, hash, memVars, hot, log_open, died, died_exists, ssts, ub,
                 writerVars, ghostVars>>

\* end_dumping removes the died log and notifies; the job is deleted.
EndDumping ==
  /\ dpc = "end"
  /\ died' = {} /\ died_exists' = FALSE
  /\ NotifyOne(wait_switch_log, wait_switch_log')
  /\ curr_writing' = NoJob /\ kvs' = << >> /\ file' = NoFile
  /\ dpc' = "idle"
  /\ UNCHANGED <<cacheVars, hash, memVars, hot, log_open, ssts, ub,
                 writerVars, ghostVars>>

-----------------------------------------------------------------------------
StartWrite(w) == \E k \in Keys : LogAppend(w, k)

ClosedLogUsed(w) == LogAppendClosed(w) \/ SwitchLogClosed(w)

WriterStep(w) ==
  \/ RequestBuff(w) \/ WriteAccess(w) \/ Copy(w) \/ WriteHash(w)
  \/ GetMemtable(w) \/ ProbeLocked(w) \/ ProbeFree(w)
  \/ ListInsert(w) \/ ListInsertRacing(w)
  \/ Count(w) \/ SwitchLog(w) \/ SwitchLogAgain(w)
  \/ SubmitDump(w) \/ PushDump(w)

DumperStep ==
  \/ TakeJob \/ MergeRound \/ MergeDone
  \/ DumpKeys \/ DumpFreedKeys
  \/ DumpAccess \/ DumpAppendRelease \/ DumpEndAccess \/ DumpHash
  \/ InsertRecord \/ InsertEmpty \/ EndDumping

Next ==
  /\ ub = "none"
  /\ \/ \E w \in Writers :
          StartWrite(w) \/ ClosedLogUsed(w) \/ WriterStep(w) \/ SpuriousWakeup(w)
     \/ DumperStep

\* Threads are scheduled: one that can go on does.  Nobody has to start a write,
\* and nobody counts on a spurious wakeup.
Fairness ==
  /\ \A w \in Writers : WF_vars(ub = "none" /\ WriterStep(w))
  /\ WF_vars(ub = "none" /\ DumperStep)

Spec == Init /\ [][Next]_vars /\ Fairness

-----------------------------------------------------------------------------
WriterLabels == {"idle", "request", "access", "inside", "hash", "get", "probe", "update",
                 "count", "switch", "asleep", "submit", "push"}
DumperLabels == {"idle", "merge", "keys", "access", "inside", "ending", "hash", "insert", "end"}

Records == [key : Keys, val : 1 .. MaxWrites]
Indexes == [in_file : BOOLEAN, fid : Nat, idx : Nat]
Lists   == UNION {[D -> Slots] : D \in SUBSET Keys}
Kvs     == [key : Keys, slot : Slots, from : Tables]
Files   == [keys : Seq(Keys), vals : Seq(0 .. MaxWrites)]
SstRecords == [kstart : Keys, kend : Keys, nrecord : Nat, rows : Files]

TypeOK ==
  /\ BufferTypeOK
  /\ data \in [Slots -> Records \cup {NoRecord}]
  /\ hash \in [Keys -> Indexes \cup {NoIndex}]
  /\ lists \in [Gens -> [Tables -> Lists]]
  /\ gen \in Gens
  /\ wait_for_dump \in Seq(Gens)
  /\ hot \subseteq Records /\ died \subseteq Records /\ acked \subseteq Records
  /\ log_open \in BOOLEAN /\ died_exists \in BOOLEAN
  /\ wait_switch_log \subseteq Writers
  /\ writes \in 0 .. MaxWrites
  /\ pc \in [Writers -> WriterLabels]
  /\ rec \in [Writers -> Records \cup {NoRecord}]
  /\ idx \in [Writers -> Slots \cup {NoSlot}]
  /\ table \in [Writers -> Gens \X (Tables \cup {0})]
  /\ dpc \in DumperLabels
  /\ curr_writing \in [gen : Gens, tables : Seq(Tables)]
  /\ kvs \in Seq(Kvs)
  /\ file \in Files
  /\ ssts \in Seq(SstRecords)

\* Who will still use slot s: a writer that fills it, an entry of a list that
\* is alive, or a record the dumper has yet to append.
Owns(w) == pc[w] \in {"access", "inside", "hash", "get", "probe", "update"}

Holders(s) ==
  {<<"writer", w>> : w \in {v \in Writers : Owns(v) /\ idx[v] = s}}
    \cup {<<"list", e>> : e \in {e \in Gens \X Tables \X Keys :
            /\ e[3] \in DOMAIN lists[e[1]][e[2]]
            /\ lists[e[1]][e[2]][e[3]] = s}}
    \cup {<<"kvs", i>> : i \in {i \in Len(file.vals) + 1 .. Len(kvs) : kvs[i].slot = s}}

Leaked == {s \in idxes_wrote : Holders(s) = {}}

\* A slot has at most one holder, and none once it is free: no two records
\* share one, and the dumper never gives one back twice.
SingleHolder ==
  \A s \in Slots :
    /\ Cardinality(Holders(s)) <= 1
    /\ Holders(s) # {} => s \in idxes_wrote

\* write fills a slot before it publishes the index, and nobody else writes the
\* slot until its record is in a file: what a list or the dumper points at is a
\* record of that key.
EntryPointsToItsRecord ==
  /\ \A g \in Gens, t \in Tables : \A k \in DOMAIN lists[g][t] :
       data[lists[g][t][k]].key = k
  /\ \A i \in Len(file.vals) + 1 .. Len(kvs) : data[kvs[i].slot].key = kvs[i].key

\* The died log is the ticket for a dump: it exists exactly while one writer
\* is in submit_dump, or one job is queued, or the dumper works, and those
\* exclude one another.  So switch_log bounds the dumps to one at a time, and
\* the queue of DUMP_QUEUE_CAPACITY never holds more than one.
HasJob(w) == pc[w] \in {"submit", "push"}

DumpGate ==
  /\ died_exists <=>
       (\E w \in Writers : HasJob(w)) \/ wait_for_dump # << >> \/ dpc # "idle"
  /\ \A w, v \in Writers : HasJob(w) /\ HasJob(v) => w = v
  /\ (\E w \in Writers : HasJob(w)) => wait_for_dump = << >> /\ dpc = "idle"
  /\ wait_for_dump # << >> => Len(wait_for_dump) = 1 /\ dpc = "idle"

\* end_dumping wakes one sleeper of switch_log although several may sleep:
\* whenever the died log is gone and some still sleep, one is awake to go on.
NoLostSwitchWakeup ==
  wait_switch_log # {} /\ ~ died_exists =>
    \E w \in Writers \ wait_switch_log : pc[w] = "asleep"

\* What a restart would find: the rows of the files the manifest lists, and the
\* records of the log files.
Rows(f)  == {[key |-> f.rows.keys[i], val |-> f.rows.vals[i]] : i \in DOMAIN f.rows.keys}
OnDisk   == hot \cup died \cup UNION {Rows(ssts[n]) : n \in DOMAIN ssts}

\* A write that returned is on disk, as itself or as a later write of its key,
\* through the switch of the logs, the dump and the removal of the died log.
AckedOnDisk ==
  \A r \in acked : \E d \in OnDisk : d.key = r.key /\ d.val >= r.val

\* The highest value of a write of k that has returned.
LastAcked(k) == Max({0} \cup {r.val : r \in {a \in acked : a.key = k}})

\* The dumper has given the slot of the key back and not yet turned its index.
BeingTurned(k) ==
  dpc \in {"ending", "hash"} /\ LastKv.key = k /\ hash[k].idx = LastKv.slot

\* dump_all turns the index of a key to its row whatever it was by then, so that
\* an index to a file may be older than a write that returned; one to the cache
\* never is, nor does it show the record of another key, but for the key the
\* dumper is turning.
CachedIndexIsFresh ==
  \A k \in Keys : hash[k] # NoIndex /\ ~ hash[k].in_file =>
    LET r == data[hash[k].idx]
    IN  (r.key = k /\ r.val >= LastAcked(k)) \/ BeingTurned(k)

\* A file the manifest lists has its keys in strictly ascending order between
\* kstart and kend, one value for each, which is that of a write of that key;
\* and a later file has the later value.
SortedFiles ==
  /\ \A n \in DOMAIN ssts :
       LET f == ssts[n]
           ks == f.rows.keys
       IN  /\ Len(ks) = f.nrecord /\ Len(f.rows.vals) = f.nrecord
           /\ \A i, j \in 1 .. f.nrecord : i < j => ks[i] < ks[j]
           /\ f.kstart = ks[1] /\ f.kend = ks[f.nrecord]
           /\ Rows(f) \subseteq acked
  /\ \A m, n \in DOMAIN ssts : m < n =>
       \A a \in Rows(ssts[m]), b \in Rows(ssts[n]) : a.key = b.key => a.val < b.val

\* No step is undefined: no list updated behind the dumper's
\* back, no pointer into a deleted list, no front() of nothing, no write to a
\* closed log.
NoUndefinedBehaviour == ub = "none"

\* Every write returns, unless overwrites have used slots up.
WriteReturns ==
  \A w \in Writers : pc[w] # "idle" ~> pc[w] = "idle" \/ Leaked # {}

\* Every dump comes to its end and removes the died log.
DumpFinishes == died_exists ~> ~ died_exists
=============================================================================
