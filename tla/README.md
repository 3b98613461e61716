# A TLA+ model of the engines in `engine_race/DBSystem` and `engine_example`

This directory specifies the storage engine of the repository and the example
engine beside it, model-checks them with TLC on small instances, and proves nearly
all of the safety properties that TLC checks, with TLAPS, for every size. File names below are
relative to `src/`; `DBSystem/` stands for `src/engine_race/DBSystem/`.

## 1. The system

The repository is an unfinished key-value engine for a write-heavy contest (its
README lists what is missing), a small example engine, and the interfaces both
were meant to have. A write goes to a log, into a cache of records, into a hash
table and into one of several skip lists. When the lists together hold as many
keys as the cache has slots, the log is renamed and the lists are handed to a
thread that merges them into a sorted file and gives the slots back.

| Part | Source | State | Operations | Hard part |
|---|---|---|---|---|
| `Buffer` | `DBSystem/DBSystem.cpp:164-214` | free list, slots handed out, `accessing` flags, two condition variables | request, release, wait for access, end access | one `notify_one` for all slots; a slot is released before it is left |
| `MemTables` | `DBSystem.cpp:227-395` | current lists, queue of lists to dump, creator and dumper threads | choose a list, count, submit, merge, dump, start, stop | writers hold a list's lock while another writer submits the list; shutdown |
| `DBSystem` | `DBSystem.cpp:21-117` | owns the above and the hash table | `init`, `write_recover`, `write`, `read` | six shared structures, no lock over them all |
| `DiskManager` | `DBSystem/io.cpp` | hot log, died log, the file being written | log a record, switch logs, write a file, end a dump, replay a log | sleeping with the log closed; crashes between any two steps |
| `Manifester` | `DBSystem.cpp:118-151` | the list of sorted files | insert, read at start | rewritten in place |
| `SkipList` | `DBSystem/SkipList.cpp` | levels of nodes with free lists inside them | update, get, pop, count | indices into vectors that grow; pointers into them |
| `Index`, `IndexHashMap`, `Indexer` | `DBSystem/Index.h`, `Index.cpp` | a 32-bit word per key, an open-addressed table | update, get, bit accessors | masks; probing |
| `WaitQueue` | `DBSystem/WaitQueue.h` | bounded queue, two condition variables | blocking push and pop | lost wakeups |
| `utils` | `DBSystem/utils.cpp` | - | `get_key`, paths | sign extension |
| example engine | `engine_example/` | data files, a mapped table of locations, a file lock | open, write, read, range | partial appends; crash between data and location |
| `engine_race.cc`, `engine_java` | | - | stubs | - |

How they interact. A writer thread calls, in this order, `write_to_log`,
`request_record_buff`, `wait_for_access`, `end_access`, `Indexer::update`,
`get_memtable` / `update` / `un_lock`, `get_total_items` and, when the lists are
full, `switch_log` and `submit_dump`. The dumper thread pops what was submitted,
merges it, and for each record calls `wait_for_access`, `append_dumping`,
`release_buff`, `end_access` and `Indexer::update`; then `insert_record` and
`end_dumping`, which removes the died log and wakes a writer in `switch_log`.
Two cycles close through files and condition variables: slots (writer to lists
to dumper to free list) and the died log (the writer that renames the log lets
the dumper run, and the dumper lets the next writer rename).

What makes the parts correct:

* `Buffer`: a slot is free once or has one owner; one thread at a time inside a
  slot; whoever waits gets served.
* `MemTables` and `DiskManager`: one dump at a time; the died log covers exactly
  what is being dumped; nothing acknowledged leaves the disk; nobody sleeps for
  ever in `switch_log`; a file is sorted, complete and newer than those before.
* `DBSystem`: an index leads to a record of its key, no older than the last
  acknowledged one.
* `SkipList`, `IndexHashMap`, `Index`, `get_key`: together they are the map from
  names to places that the others take them for; `WaitQueue` is a bounded queue
  that loses no wakeup.
* recovery: what was acknowledged before a crash is still on disk, where `init`
  finds it, and `init` ends.
* example engine: a key has one item; what returned `kSucc` is found again by
  reads and ranges, after failures, deaths and reopenings.

## 2. Modules

| Module | Models | Uses |
|---|---|---|
| `Buffer` | the data of class `Buffer`; one operator per critical section | |
| `BufferClients` | the threads that use it, with the wait sets of its condition variables: what `Buffer` promises | extends `Buffer` |
| `BufferLemmas` | what taking and giving back a slot does to the books of `Buffer` | extends `Buffer` |
| `BufferProofs` | theorems about `BufferClients` | extends it and `BufferLemmas` |
| `CacheReaders` | `read` beside writers and dumper, with the wait sets | extends `Buffer`, instantiates `BufferClients` |
| `CacheReadersProofs` | theorems about `CacheReaders` | extends it and `BufferLemmas` |
| `MCCacheReaders` | a symmetry, for TLC | extends `CacheReaders` |
| `DBSystem` | `write`, memtables, merge, dump, logs, manifest | extends `Buffer` |
| `DBSystemRefinement` | `DBSystem` implements `BufferClients` | extends `DBSystem`, instantiates `BufferClients` |
| `DBSystemProofs` | theorems about `DBSystem`: with any number of writers, with one, and the refinement | extends `DBSystemRefinement`, `BufferLemmas` |
| `WaitQueue` | the bounded queue, one operator per critical section | |
| `MemTables` | the lists from constructor to destructor: creator, dumper, submissions, `stop_working` | extends `WaitQueue` |
| `MemTablesProofs` | theorems about `MemTables` | extends it |
| `Index` | the 32-bit word of an index: accessors and masks | |
| `IndexHashMap` | the table of class `IndexHashMap`, probed | extends `Index` |
| `SkipList` | a memtable: levels, nodes, free nodes, growth, search, insert, pop | extends `Index` |
| `KeyIndex` | `get_key`, table, lists and words as a writer and the dumper use them | extends `Buffer`, `SkipList`, `IndexHashMap`; instantiates `KeyMap` |
| `KeyIndexProofs` | theorems about the keys, the lists, the table and the words of `KeyIndex`, and that it implements `KeyMap` | extends it |
| `KeyMap` | what `KeyIndex` promises: names, places, and the order of a dump | |
| `MCKeyIndex` | names and a hash with collisions, for TLC | extends `KeyIndex` |
| `DBRecovery` | crashes between any two steps, `init`, the replay of both logs, the manifest | |
| `DBRecoveryProofs` | theorems about `DBRecovery` | extends it |
| `DataStore` | data files of the example engine | |
| `DoorPlate` | its table of locations | extends `DataStore` |
| `EngineExample` | its processes: open, write, failures, deaths | extends `DoorPlate` |
| `EngineExampleProofs` | theorems about `EngineExample` | extends it |
| `MCEngineExample` | a hash with collisions and a symmetry, for TLC | extends `EngineExample` |

Constants keep the names of `config.h`. `Keys` are keys after `get_key`.

### Buffer and BufferClients

`idxes_empty` is the free list in its order (slots leave at the back and come
back at the front; the comment at `DBSystem.h:61` says otherwise, which changes
nothing that is checked). `idxes_wrote` stands for the list of that name and for
`wrote_mapping`, which are changed together under one lock. `idx_waiter` and
`slot_waiter` are the sets of threads asleep on the condition variables;
`notify_one` removes some member, a spurious wakeup any member, and a thread
outside the set runs the `while` test again under the lock. One action is one
critical section.

The clients are writers, the thread that replays a log (`init` ends before the
first write), and the dumper. `published` abstracts the way of a slot from its
writer through hash table, skip list and queue to the dumper.

### CacheReaders

`read` looks its index up twice: for the slot to enter, and for the slot to leave. It
does not ask whether the index is one of a file, and the index may be another at the
second look. So a reader is no client that `BufferClients` knows; `CacheReaders` puts
readers beside that module's writers and dumper, whose actions it uses through
INSTANCE, and adds what leads readers to slots: hash table, memtables, the job that is
dumped, and the rows of its file.

| Code | Action |
|---|---|
| `read`: `get` | `Lookup`, `LookupMissing` |
| `read`: `wait_for_access` | `ReadSleep`, `ReadAccess` |
| `read`: `get_value`, `end_access` | `ReadEnd` |
| `write` | `StartWrite`, `RequestBuff`, `WaitForAccess`, `Copy`, `WriteHash`, `ListInsert`, `SubmitDump` |
| `dump_all` | `NextRecord`, `WaitForAccess`, `ReleaseBuff`, `EndAccess`, `DumpHash`, `EndDumping` |

The field `kept` of a read is history: its slot was that of its key when it looked it
up and has not been given back since. A read that is not kept returns whatever the
slot holds, perhaps while a writer fills it, and nothing is claimed of it.
`ReadEnd` takes the value, looks the key up again and ends the access in one step.
While a read is kept nobody changes its slot, so that it returns the same if the
second look comes later; and the slot whose flag it clears is chosen by that look.

### DBSystem

An action is one critical section, or code that touches only what its thread
owns. The correspondence, in program order:

| Code | Action |
|---|---|
| `write_to_log` | `LogAppend`, `LogAppendClosed` |
| `request_record_buff`, `wait_for_access` | `RequestBuff`, `WriteAccess` |
| `memcpy`, `end_access` | `Copy` |
| `hashTable.update` | `WriteHash` |
| `get_memtable` | `GetMemtable`, `ProbeLocked`, `ProbeFree` |
| `update`, `un_lock` | `ListInsert`, `ListInsertRacing` |
| `get_total_items`, the test | `Count` |
| `switch_log` | `SwitchLog`, `SwitchLogAgain`, `SwitchLogClosed`, `SpuriousWakeup` |
| `submit_dump` | `SubmitDump`, `PushDump` |
| `buffers_dumper` | `TakeJob`, `MergeRound`, `MergeDone` |
| `dump_all` | `DumpKeys`, `DumpFreedKeys`, `DumpAccess`, `DumpAppendRelease`, `DumpEndAccess`, `DumpHash`, `InsertRecord`, `InsertEmpty` |
| `end_dumping` | `EndDumping` |

Abstractions and why they lose nothing here:

* A record is a key and the number of the write that made it.
* A skip list is a function from keys to slots; a generation of lists is what
  `current_memtables` held between two `submit_dump`s.
* The hash table is a function; `Indexer::update` and `get` run under its mutex.
* `read` changes only flags of the cache; it is in `CacheReaders`.
* A wait on a `Buffer` condition variable is a guard: `BufferClients` shows that
  no wakeup is lost, and `DBSystemRefinement` that the engine is such a client.
  The wait set of `switch_log` is kept, because there a wakeup could be lost.
* `get_total_items` counts in one step: while it holds the list mutex nobody can
  take a list, so a list that was counted does not change before the last one.
* `submit_dump` replaces the lists in one step: it holds the list mutex, and
  the creator thread always has or makes a list, so its waits end.
* The manifest is the list of its records, each with the rows of its file.
* `try_lock` may return false because a list is being dumped and then leaves
  the list locked; no list in `current_memtables` is being dumped while the list
  mutex is held, so this does not happen, and it is not modelled.

Undefined behaviour. Some steps have no defined outcome: a list is changed while the dumper merges it without a lock, kvs
points into a list the merge has deleted, `front()` is taken of an empty vector,
a closed descriptor, which may have been reused, is written to or closed again.
Such a step sets `ub` to its reason and ends the behaviour: properties are
claimed up to that point, and `NoUndefinedBehaviour` says when it is not
reached. The write to a closed descriptor has two outcomes: the call fails and
nobody looks (`LogAppend` with the log closed), or it reaches another file
(`LogAppendClosed`); so has the second `close` of two writers that both found the
cache full (`SwitchLog`, `SwitchLogClosed`).

### WaitQueue and MemTables

A queue is a record of its contents and of the threads asleep on its two
condition variables; `Popped` and `Pushed` yield every queue that may result,
one for each thread `notify_one` may wake. `MemTables` has two such queues and
three kinds of threads:

| Code | Action |
|---|---|
| constructor, `start_working` | `StartWorking`, `Fill` |
| `buffers_creater` | `TestWorking`, `PushList` |
| `buffers_dumper` | `TestWorking`, `TakeJob`, `Dump` |
| `switch_log`, `submit_dump` | `SwitchLog`, `TakeLists`, `Refill`, `Submit` |
| `stop_working` | `BeginStop`, `Drain`, `Join`, `PushNull` |
| a wait in a queue | `SleepOnLists`, `SleepOnJobs`, `SpuriousWakeup` |

Here a list is its number in the order of creation, and a dump is one step:
what happens inside is in `DBSystem`, which in turn takes `submit_dump` in one
step, as `ListsForWriters` allows. `switch_log` is reduced to its gate, that the
died log is absent. A push of a job does not sleep:
`JobQueueIsNeverFull` proves that there is room whenever one is about to be made.
The destructor runs when no writer is in a call: a writer in a call of an object
under destruction has no meaning.

### Index, IndexHashMap, SkipList and KeyIndex

`DBSystem` takes the hash table and a skip list as functions on keys, and an index
as a record; these modules are what those functions stand for. They are about the
data structures, so that a write, and a row of a dump, is one step, and there is
one writer; `submit_dump` waits for the dump before, as `DumpGate` has it.

| Code | Definition or action |
|---|---|
| `get_key` | `SignExtended`, `get_key` |
| `Index::set_*`, `get_*`, `if_*` | `SetFid`, `SetIdx`, `SetInFile`, `SetInHash`, `GetFid`, `GetIdx`, `IfInFile`, `IfValid` |
| `IndexHashMap::update`, `get` | `Probe`, `Stops`, `HasEntry`, `Entry`, `UpdateTable`, `InTable`, `IndexOf` |
| `SkipList::update`, `get` | `UpdateList`, `Insert`, `Trace`, `Find` |
| `insert_after`, `check_and_resize`, `pop_lvl_0`, `cnt_ns` | `Inserted`, `Resized`, `PopLvl0`, `CntNs` |
| `DBSystem::write` | `Write`, `TableFull`, `SubmitDump` |
| `buffers_dumper` | `MergeRound`, `MergeDone` |
| `dump_all` | `DumpRow`, `EndDumping` |

* A word is the set of its bits, so that an `or` is a union and a mask a
  difference. `clear_idx` leaves bits 30 and 31, and `set_fid` ors its argument in
  whole; both are in the model as they are in the code.
* A list is its levels, and a level a function from node numbers to nodes, with
  the two chains the code keeps in it: records from the `next` of node 0, free
  nodes from its `bottom`. A popped node keeps its record, and `kvs` points at it.
* The height of a new node, which the code draws, is any.
* `hash_key` (a CRC and a mixing) is a constant, any function from keys to numbers.
* The table asserts when a search comes to no free entry. `TableFull` is that
  death; it is reached with free entries left, since the steps of a search add up
  to triangular numbers, and those do not reach every entry of every table.

`KeyMap` says what all this is to do, by names and without keys, nodes, words or
entries: a name is nowhere, in a slot, or in a row of a file; its last write or
dump says where; a dump takes the names in their order. `RefinesKeyMap` is that
`KeyIndex` implements it, under a mapping that asks the table and both lists by
their own searches. `NamedFiles` is 256: a word holds eight bits of a file number,
and where there are more files it names one modulo 256.

### DBRecovery

One main thread, which runs `init` and then writes, and the dumper. The cache is
the number of its free slots and the memtables are the set of their records;
who shares what, and how, is in `DBSystem`.

| Code | Action |
|---|---|
| `init`: manifest | `Boot` |
| `init_log_file_and_fetch_data` | `OpenLog`, `ReadRecord`, `ReadEnd`, `OpenAppend` |
| `write_recover`, `if_full` | `Recover`, then `SubmitDump` or the steps of `switch_log` |
| `write` | `LogRecord`, `Cache` |
| `switch_log` | `CloseLog`, `RenameLog`, `ReopenLog` |
| `submit_dump` | `SubmitDump` |
| `dump_all` | `DumpKeys`, `DumpRecord`, `TruncateManifist`, `WriteManifist` |
| `end_dumping` | `EndDumping` |
| a failed assertion in `init` | `Abort` |
| the end of the process | `Crash` |

`manifist` is the number of records, since record n names file n. What the
program loses at a crash is its memory: a `write` or `writev` that was issued is
in its file whole. The engine calls no `fsync`, so nothing can be claimed about
a loss of power, and a record torn by one is not modelled. The hash table is not
in the model: the claim is about what is on disk, for reading it back is wrong
even without a crash (`read_of_dumped_key`).

Four variables only record history: `acked` and `written`, `unread` (records of a
log that was renamed before a replay had read them), `died_jobs`, and `damaged`,
which collects the records that four known losses take, when they do:

1. the process dies after the manifest was truncated and before it was written
   again (`io.cpp:54`): the records of all files;
2. the replay of the hot log fills the cache, renames the log it is reading, and
   the dump that follows removes it (`io.cpp:94`): the records that were not read;
3. the replay of a died log submitted more than one job: the end of the second
   removes the next died log, while the job for that one is still to come
   (`io.cpp:138`);
4. there are more files than `IOV_MAX`: the one `writev` that writes the manifest
   anew fails, nobody looks, and the manifest stays empty (`io.cpp:55`): the
   records of all files. The died log is removed all the same.

### The example engine

A data file is a sequence of cells, so that a partial append, an append at
another place than the writer thinks, and a read of half of one value and half of
another are different outcomes. A location is three words: a process may die when
some are stored. The table is in a file mapped by every process; keys are numbers
in the order of their names; `StrHash` is any function, in TLC one with
collisions. `Read` and `Range` change nothing and are operators (`Found`,
`LocationOf`, `ReadValue`; `RangeKeys`, `RangeLocation`, `RangeVisits`), evaluated
by the properties in every state.

| Code | Action |
|---|---|
| `DoorPlate::Init` | `OpenMeta`, `CreateMeta`, `Allocate`, `ClearItem`, `ClearRacing` |
| `DataStore::Init` | `OpenStore` |
| `LockFile`, `UnlockFile` | in `TakeLock` (which may fail), `Close` and every death |
| `Write`: `Append` | `AppendValue`, `AppendValueFails` |
| `Write`: `AddOrUpdate` | `Refuse`, `Place`, `Use`, `Locate`, `BusError` |
| `Read`, `Range` | `ReadValue`, `RangeVisits` |
| `~EngineExample` | `Close` |
| the end of a process | `CrashBetween`, `CrashInClear`, `CrashInPlace`, `CrashInLocate`, `CrashInAppend` |

`Open` takes the lock last, so several processes may be inside it together. META is
created without `O_EXCL`, so that two may each find none, and each clear it. The
`memset` takes the items of the table one by one, in any order (`uncleared`), while
another process, or one that opened META before, uses the table: whole writes fall
between two items, and the process may die with a part of the table cleared
(`CrashBetween`) or in the middle of an item (`CrashInClear`, which leaves any
mixture of old and cleared fields). If the item that is cleared is at that moment
being changed, or searched, by another process, the outcome of the two unsynchronised
accesses is not defined: besides the clearing before or after, there is a step in
which the behaviour ends (`ClearRacing`, `meta = "raced"`), of which nothing more is
claimed.

`AddOrUpdate` copies the name (`door_plate.cc:121`) and then stores its length. A
process that dies in between leaves, in an item that an earlier death has left, some
bytes of one name under the length of another (`CrashInPlace`, `TearKey`), and
`ItemKeyMatch` compares it although it is not in use. What such an item spells is
the constant `Torn`: any set of names in the proofs; in TLC the names are `a`, `ab`
and `b` with `a` the byte 0, so that the name of one key under another's length, or
half cleared, is a third key.

Two variables name the keys such events have reached. `damaged`: keys whose item, or
an item on the way to it, was cleared; whose item was being changed when a process
died; which a torn name spells; and which a process wrote that does not know where
its file ends (`blind`, after a partial append or an append of another process). A
key leaves it when it is written again with success. `stray`: keys that may have an
item beyond one that was cleared, to which their search does not come; their next
write gives them a second one. Each exception is needed: without any of them the run
finds a counterexample. The empty key is left out: an unused item has it, so that it
is found before it was ever written.

## 3. Properties and runs

Every property below can be broken by a small mutation of the model; the
mutated operators stand before their originals, each marked as a mutant.

| Run | Instance | Shows |
|---|---|---|
| `buffer_clients` | 3 slots, 3 writers, loader, dumper | `SlotAccounting`, `ExclusiveAccess`, `OneSleeperPerDump`, `NoLostSlotWakeup`, `AccessServed` |
| `one_writer` | 2 slots, 2 lists, 3 keys, 5 writes | `SortedFiles`, `AckedOnDisk`, `NoUndefinedBehaviour`, `CachedIndexIsFresh`, `WriteReturns`, `DumpFinishes` |
| `two_writers` | 2 slots, 2 lists, 2 keys, 4 writes | `SingleHolder`, `EntryPointsToItsRecord`, `DumpGate`, `NoLostSwitchWakeup`, `RefinesBufferClients` |
| `cache_readers` | 2 slots, 2 keys, 4 writes, 3 readers | `NobodyStranded`, `ReadsFresh` |
| `memtables_life` | 2 writers, 3 lists at a time, queues of 2, 3 dumps | `ListAccounting`, `ListsForWriters`, `LeftJobHasLog`, `SubmitReturns`, `SubmittedIsDumped`, `StopReturns` |
| `key_index` | 3 slots, lists of height 3 that start with 1 free node, 5 entries, 4 names of 2 bytes, 4 writes, 7425 files before | `ListsWellFormed`, `RefinesKeyMap` |
| `recovery` | 3 slots, 3 keys, 5 writes, 2 crashes, `IOV_MAX` 2 | `ListedAreComplete`, `AckedSurvives`, `InitEnds` |
| `example_engine` | 2 processes, 2 items, files of 3 cells, values of 2, 3 keys, 3 writes, 2 faults (failing calls and deaths) | `EachKeyOnePlace`, `ReadsWhatWasWritten`, `RangeMatchesRead` |
| `acked_write_lost` | 2 writers | `AckedOnDisk` is violated |
| `unsearched_key_lost` | a key equal to `INT64_MAX` | `AckedOnDisk` is violated |
| `read_of_dumped_key` | 1 writer, 1 reader | `ReadsOwnKey` is violated |
| `hot_log_switched_in_replay` | 2 slots, 2 keys, 3 writes, 1 crash | `LogReadBeforeSwitched` is violated |

A `TypeOK` is checked with `buffer_clients`, `cache_readers`, `one_writer`,
`memtables_life`, `key_index`, `recovery` and `example_engine`. Some are more than types: the one of
`EngineExample` says that the lock is held by the one process that has an engine,
the one of `DBRecovery` that the cache has never more free slots than slots, the
one of `KeyIndex` that a level always has the free node that `insert_after` asserts.

Bounds. Two slots fill the cache with two keys, so that 5 writes (`one_writer`)
reach a second dump while the first is under way, with a writer asleep in
`switch_log`; `MaxWrites` is the only bound on a counter, and it also bounds the
generations of lists. Two lists and two writers are the least that lock each
other out, fill two lists, and count a full cache twice. Three writers on three
slots let writers sleep for slots while another sleeps for access.
In `cache_readers` two keys fill the cache and a third record needs a slot that was
given back; a key can be overwritten and dumped while one reader is inside its slot
and others wait; three readers are the least of which two sleep while one is inside.
In `memtables_life` more lists are wanted at a time than a queue holds, as in the
program (40 and 5), so that a submission needs several rounds of the creator;
with three dumps a list can be made, filled and dumped after others were, and the
program can end before, in or after the second. In `recovery` 3 slots and 5 writes
are the least with which a replay renames a log that holds acknowledged records
it has not read, and the second crash may fall into the `init` after the first;
three files are reached, one more than `IOV_MAX`.
In `key_index` a dump needs three of the four names, so that a level grows twice, a
list of three levels is searched, overwritten and popped, and the fourth name is
written while the dump is under way. Two bytes of two bits make the shift of `get_key`
cross a byte; names have their highest bit clear (see Not modelled). Three of the four
keys start at one entry of five, of which a search reaches three: depending on the
order the fourth is stored or dies as `TableFull`. 7425 is 1 + 256 + 1024 + 2048 +
4096: its file number sets the status bits above it and the lowest bit of the row.
In `example_engine` two items are filled by two keys and refuse the third; two keys
start at the same door. A file of 3 cells takes one value of 2, so that a value can be
written in part and every second value needs a new file. With two faults an item can
be left by one death and its name torn by another, or a table cut short in its clearing
be damaged once more; with three writes a key behind a cleared item gets its second item
and is written again. A key that is too long (`LongKeys`) is refused as one that finds
the table full, so none is in the instance.

`CHECK_DEADLOCK FALSE` stands where the last write, undefined behaviour, or the
end of the program (`memtables_life`) ends the behaviour, and where the program
does stop: `init` waiting for a died log, a creator that left.
`buffer_clients` has no such end and is checked for deadlock.

Where a property is checked with less than the whole system, this is what the
rest does to it:

* `one_writer` has one writer because with two the engine loses acknowledged
  writes (`acked_write_lost`) and reaches undefined behaviour (the second
  submission, the race on a list, the freed nodes). `two_writers` checks what
  holds all the same.
* `cache_readers` has one writer, so that the last write of a key is the one with
  the highest number. `ReadsFresh` excepts the reads that are not `kept`, since a read
  of a dumped key is wrong (`read_of_dumped_key`). `NobodyStranded` excepts the states
  with a flag that nobody will clear (`Stuck`): a read whose key was overwritten or
  dumped before its second look leaves one, and whoever wants that slot, the dumper
  too, waits for ever.
* `WriteReturns` excepts overwrites that have used slots up: an overwrite of a key
  that is in a list takes another slot and the list forgets the old one
  (`DBSystem.cpp:82`), which nobody gives back. `Leaked` is the set of those slots.
* `CachedIndexIsFresh` excepts one key at a time, `BeingTurned`: between the release
  of its slot and the update of its index the dumper leaves an index to a slot that
  may by then hold another record.
* `RefinesKeyMap` is for ASCII names and for keys below `INT64_MAX`
  (`unsearched_key_lost`), and names files modulo 256.
* `StopReturns` excepts one state, `CreatorLeftNothing`: the creator sees
  `if_working` false, leaves, and the queue is empty, so that `stop_working`
  waits for a list for ever (`DBSystem.cpp:305`).
* `InitEnds` excepts one state, `DiedLogLeft`: the replay of the died log did not
  fill the cache, so nothing will dump and remove it, and the replay of the hot
  log, or a write, waits for that.
* `AckedSurvives` excepts the four losses above, record by record.
* `ReadsWhatWasWritten` and `RangeMatchesRead` except the keys in `damaged`, and
  `EachKeyOnePlace` and `RangeMatchesRead` those in `stray`.

Fairness. Each thread is scheduled: weak fairness of the steps of each writer
inside a call and of the dumper. Nobody is obliged to start a write, to fill the cache or to end the program; in `recovery`
the engine is started again after a crash, and crashes are bounded. No spurious
wakeup is counted on, and nothing is assumed about which sleeper `notify_one`
picks or which writer gets a mutex.

What the violations show is in `PROJECT.json` under `findings`, with the line of
the repository that says otherwise.

## 4. Theorems

TLAPS checks them for every number of slots, threads, lists, keys, files and
processes and every bound on writes, crashes and faults, under the assumptions
named in the modules. These say no more than the code and its configuration do:
sizes are at least one, a key is made of two or more ASCII bytes where it is made of
bytes, keys are natural numbers, the hash is a function, the
loader, the dumper and the writers are different threads, and the name of no
process is taken for `NoProc`. TLC evaluates them in every run. Four hypotheses
are not assumptions but stand in the theorems that need them:

* `OneWriter`, in the last four theorems of `DBSystemProofs` and in
  `KeptReadsAreFresh`. With two writers
  the properties are false: an acknowledged write is lost (`acked_write_lost`),
  and the write of a key that returned last need not be the one that reached the
  index last.
* `KeysAreSearched`, every key is below `INT64_MAX`, in `AckedIsOnDisk` and
  `NothingIsUndefined`. The merge looks for the least key from `INT64_MAX` down
  and never finds that one (`unsearched_key_lost`).
* `HashIsNumber`, `hash_key` returns a natural number, in `KeyIndexProofs`. The
  code's returns a `uint32_t`; a constant operator has no type of its own.
* `NumbersFit`, in `NamesAreFound`: what a word is given fits its bits. Slots are
  numbers of 18 bits (`RECORD_BUFF_SIZE` is 1024), the id of a list is one of 8 (it
  is 0 in all the program), and the number of a file has no bit 30. A word has 20
  bits for a slot, but `clear_idx` (`Index.h:96`) clears 18 of them, so that a slot
  of 2^18 or more would not be replaced by an overwrite; and `set_fid` or's a whole
  number in, whose bit 30 nothing would clear again.

One assumption is arithmetic: `PowersDouble`, that 2 ^ (b + 1) is 2 * 2 ^ b for the
bits of a key. The provers compute 2 ^ b for small b and have no law of exponents;
with it the theorems hold of keys of any width, the code's 64 bits included.

Hardly an invariant that a run checks is inductive as it stands. What is proved
inductive, and why it has to be that much:

| Module | Theorems | Inductive invariant |
|---|---|---|
| `BufferProofs` | `BufferTypes`, `SlotsAccountedFor`, `AccessIsExclusive`, `NotifyReachesSleeper`, `NoWakeupIsLost` | `IInv` |
| `CacheReadersProofs` | `TypesAreRight`, `SleepersAreWoken`, `KeptReadsAreFresh` | `TypeInv`; `WakeInv`; `FreshInv` |
| `DBSystemProofs` | `DBSystemTypes`, `OneDumpAtATime`, `SwitchWakeupNotLost`, `SlotHasOneHolder`, `EntriesPointRight`, `EngineIsCacheClient` | `TypeInv`; `DumpGate`; `WakeInv`; `HolderInv`; `RecordInv` |
| `DBSystemProofs`, one writer | `FilesAreSorted`, `IndexIsFresh`, `AckedIsOnDisk`, `NothingIsUndefined` | `EngineInv`; `DurableInv` |
| `MemTablesProofs` | `TypesAreRight`, `ListsAreThere`, `DumpHasItsLog`, `JobQueueIsNeverFull`, `ListsAreAccountedFor` | `TypeInv`; `StartedAndJoined`; `DumpInv`; `ListInv` |
| `KeyIndexProofs`, types and lists | `IndexTyped`, `ListsStayWellFormed`; `FindIs`, `UpdateIs` | `IndexInv` |
| `KeyIndexProofs`, table and words | `PointersAreKept`, `KeysStayApart`; `KeysDiffer`, `RowsAreDecoded` | `TableInv` |
| `KeyIndexProofs`, `KeyMap` | `NamesAreFound` | `PromiseInv` |
| `DBRecoveryProofs` | `TypesAreRight`, `ListedFilesAreComplete`, `AckedIsKept` | `TypeInv`, `SlotInv`; `FilesInv`; `AckedInv` |
| `EngineExampleProofs` | `TypesAreRight`, `KeysHaveOnePlace`, `WritesAreRead`, `RangesAreReads` | `TypeInv`; `StoreInv`, `CountInv`, `PlaceInv`; `ValueInv` |

* `BufferProofs`. `IInv` joins the type invariant, the accounting of slots,
  exclusive access and what is known of the wait sets. `OneSleeperPerDump` needs
  the two others: a thread waits for the flag of a slot it owns, the flag is set
  only by a thread inside that slot, and the only thread inside a slot it does not
  own is the dumper between `release_buff` and `end_access`.
* `CacheReadersProofs`. A read may clear a flag that is not its own, so the books
  cannot rest on the flags: `TypeInv` follows who was handed a slot and through
  which list it is published. `TypeOK` needs more than types: that the row a read
  takes for a slot is the number of one holds because rows written, keys to come
  and the key being turned are together no more than the slots (`CountOK`).
  `WakeInv`: while somebody sleeps, somebody awake is inside a slot or on its way,
  or a flag is set. `FreshInv`: an index whose slot has not been released leads to
  whoever answers for it, a writer, a list, the job or the dumper, and the slot
  holds the latest acknowledged write of the key; a kept read holds on to it.
* `DBSystemProofs`. `TypeInv` strengthens `TypeOK` by what the program counters
  imply (a writer past its request has a slot, a writer between `get_memtable` and
  `un_lock` a list, the file has no more values than kvs has records, generations
  number no more than writes). `DumpGate` is inductive on top of that: the died log
  appears in the step in which a writer goes on to submit, and disappears in the
  step that ends the dump. `HolderInv` says of writers, list entries and
  pending records that no two hold one slot, with two writers in one list or the
  dumper popping from a list a writer still holds included. The refinement is then
  a step by step argument: each action maps to one action of `BufferClients` or
  leaves its variables alone. By `EngineIsCacheClient` what `BufferProofs` says of
  clients that never sleep holds of the engine.
* `DBSystemProofs`, with one writer. `CourseInv`: the writer always finds the first list free, and
  what it submits is the generation before the current one. On that rest the order
  of kvs (`MergeInv`), the numbering of writes (`WritesInv`), that what is in lists
  and job was acknowledged or is being written (`SourceInv`), and that each key's
  records are in the order of its writes: files, then job, then current lists
  (`OrderInv`). `FoundInv` says who answers for the slot an index leads to, as in
  `CacheReadersProofs`, with the lists now a generation and the job a merge. For
  durability `LogInv` says that what a log holds the lists, the job or the files
  hold too, or something later, so that the log may go when its job has ended; this
  needs that the merge takes everything, which is where `KeysAreSearched` comes in.
  `JobInv`: no job is empty and the merge keeps the list it works on; nothing
  undefined can then happen.
* `MemTablesProofs`. `DumpInv`: at most one writer submits, or one job waits, or
  the dumper has one, and the died log is there as long; the null job is pushed
  once, by `stop_working`, after which nobody submits. `ListInv` divides the lists
  made so far into six stages, disjoint, with no list twice in a queue.
* `KeyIndexProofs`, recursion. A level's chain, the walk along it, the search down
  the levels and the number of a set of bits are recursive functions. That such a
  function exists is `Recursion`: every call has a lower rank, in a chain the number
  of nodes that follow, in a sum that of the bits left. Where something is then said
  of all ranks, the least rank that contradicts it leads to one below.
* `KeyIndexProofs`, lists. `Shape` says of a level which nodes are records,
  linked by ascending keys, and which are free, linked in some order; it has each
  of its nodes in one of the two chains, once. `WalkEnds`: a walk from any record not beyond a key stops at the
  last one not beyond it; hence, from the top level down, `FindIs`. `InsertedIs`,
  `ExtendedIs` and `PoppedIs` give the shape after `insert_after`,
  `check_and_resize` and `pop_lvl_0`, `UpdateIs` what becomes of the list.
  `IndexInv` is all that, with the counters and the keys those of names: the lists
  of a dump are popped on level 0 only, so that their levels need not nest any more.
* `KeyIndexProofs`, keys. The highest bit in which two numbers differ decides
  (`HigherNumber`), and an earlier byte of a name has the higher bits
  (`PlacesInOrder`): `KeysDiffer`.
* `KeyIndexProofs`, table. `TableInv`: an entry that is not free is where the search for
  its key stops. An update fills only the first entry at which the search of its own
  key stops, so that it lies on no other key's way. `Indexer::get` returns the
  address of that entry's index (`Index.cpp:132`), which `read` uses after the mutex
  was given back: by `PointersAreKept` it still belongs to its key then, whatever
  the word it holds has become. It and
  `KeysStayApart` are action properties of their own, stated beside their proofs;
  in the run they are behind `RefinesKeyMap`. `RowsAreDecoded` is about the masks
  of the word alone.
* `KeyIndexProofs`, the refinement. `PromiseInv` adds to `IndexInv` and `TableInv`
  that no two words of records name the same slot, nor one that is not handed out
  (`SlotsInv`), that the keys in kvs ascend and are below those left in the list
  (`MergeInv`), and that a list has no more records, and the manifest no more files,
  than there are slots and writes (`CountInv`). `PlaceBar`, `ListBar` and `DumpBar`
  say in terms of keys and words what the mapping reads through searches; then each
  action is one of `KeyMap` or a stutter: a write of a name, the submission, the row of the
  least name pending, the end of the dump, while a round of the merge is not seen.
* `DBRecoveryProofs`. `SlotInv` counts the slots of memtables, jobs and file under
  way, through every crash and restart; a dump takes as many steps as its job has
  records, which is a count of a finite set that the proof keeps. `FilesInv`:
  `all_records` is never less than what the manifest lists, so that a dump after
  a restart may truncate a file left by a crash but never a listed one.
  `AckedInv` follows a record from the hot log to a file. A record is promised when
  its write has returned, or has a slot and cannot but return. `KeptInv`: it is in a
  log, or something later of its key is safe (listed or damaged). `HotInv`: what is
  promised in the hot log is still to be replayed or covered by the memtables, so
  that the rename of the log leaves the job with all of it (`JobInv`), and the end
  of that job may remove the died log (`EndKeeps`); `GateInv` says that no other job
  ends first, unless the died log had several. `DiedInv`: the first job of the replay
  of a died log has all that was promised in it, since a died log is replayed into
  an empty cache, and no promised record comes after the first `RECORD_BUFF_SIZE`
  of its log (`FirstInv`). That in turn needs `CountInv`: each record of the hot log
  has taken a slot since the log was opened. All of it rests on the order of the
  writes in logs, memtables and replay (`OrderInv`).
* `EngineExampleProofs`. `PlaceInv` has two parts besides the property. An item may
  spell any name, torn, half cleared or left by a death, but (`NamesAreFound`) a name
  that is not damaged is found, in an item in use for it (`Settled`), wherever it is
  spelt; and (`ItemInHand`) an item that a process is at spells the key of its write
  or a damaged one. The lemmas about the search say that it depends only on where it
  may stop, that an item it passes may change, and that an item it does not come to
  (`Comes`) may become anything, a cleared item included (`SearchEndsBefore`).
  `ValueInv`: the cells at a key's location are those of a write not older than the
  last that returned, which no append of any process changes afterwards. A step that
  changes one item leaves every undamaged key as it was (`OneItem`) if it is not found
  there. Nothing is assumed of `Torn` but that it is a set of names.

Left to TLC:

* the liveness properties: `AccessServed`, `WriteReturns`, `DumpFinishes`,
  `SubmitReturns`, `SubmittedIsDumped`, `StopReturns`, `InitEnds` (out of the
  prover's reach).

## 5. Plan

Done: all modules, checked. Every invariant and action property that a passing run
checks, and both refinements, are proved; of what the passing runs check only
liveness is left to TLC. Next: reads beside the writer in `KeyIndex`, and the
iteration of `DBSystem::init` over the files, once the code has it.

## 6. Not modelled

* `engine_race.cc` (stubs), `engine_java` (declarations), `polar_string.h`,
  makefiles, path handling, output, the mixing function of the hash table, and
  the tests, which were read for how they call the components.
* Names with a byte above 0x7f: where `char` is signed, such a byte sets every bit
  above it (`SignExtended` has it), the key is not below `INT64_MAX` or equals that
  of another name, and what follows is `unsearched_key_lost` or an overwrite.
* The table and the lists under several writers: `Indexer` has its mutex, and what
  happens to a list that two threads hold is undefined behaviour in `DBSystem`.
* Failing system calls in `DBSystem` other than the write to a closed descriptor
  and the `writev` of a manifest with too many parts: the code looks at no result
  there.
* Reads after a restart. `init` loads the list of files but not their keys into the
  table, so a key that is only in a file is not found. A read of such a key is wrong
  before any restart (`read_of_dumped_key`), so that there is no promise left to check.
* A run that asks for every reader to get in. It need not: `notify_one` may always
  pick another sleeper while reads go on, and a stuck flag ends every hope.
* Loss of power, as said under `DBRecovery`.
* Members that are never called: `WaitQueue::try_pop`, `try_push`, `empty`, `size`;
  `DiskManager::seq_worker`, `submit_job`; `SkipList::direct_get`;
  `Indexer::set_if_writing`, `get_if_writing`.
