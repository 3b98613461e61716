----------------------------- MODULE DBRecovery -----------------------------
(***************************************************************************)
(* Crashes and restarts of the engine.  The main thread opens the          *)
(* directory (DBSystem::init), which replays both logs, and then writes;   *)
(* the dumper works beside it; the process may die between any two steps,  *)
(* and what is on disk stays.                                              *)
(*                                                                         *)
(* A record is a key and the number of the write that made it.  The cache  *)
(* is the number of its free slots, the memtables are the set of their     *)
(* records, one for each key, and a dump is a job of such a set.  How the  *)
(* threads share these is the matter of DBSystem and MemTables.            *)
(***************************************************************************)
EXTENDS Integers, Sequences, SequencesExt, FiniteSets

CONSTANTS
  Keys,
  RECORD_BUFF_SIZE,
  IOV_MAX,     \* the most parts a writev takes
  MaxWrites,   \* bound: number of writes
  MaxCrashes   \* bound: number of crashes

ASSUME DBRecoveryAssumption ==
  /\ RECORD_BUFF_SIZE \in Nat \ {0} /\ IOV_MAX \in Nat \ {0}
  /\ MaxWrites \in Nat /\ MaxCrashes \in Nat

VARIABLES
  hot_log, died_log,  \* the logs, or Absent
  manifist,           \* number of records in the manifest; record n is of file n
  files,              \* files[n + 1]: what file n holds
  phase,              \* what the main thread is at: "died" or "hot", the log under
                      \* replay, or "write"
  pc, dumper,         \* where the main thread and the dumper are
  curr_log_fd,        \* "none", "read", "append" or "closed"
  replay,             \* the records of the open log that were not read yet
  gather,             \* the record of the write under way
  slots,              \* number of free slots of the cache
  memtables,          \* the records of the memtables
  jobs, kvs,          \* submitted jobs; the job of the dumper
  all_records,        \* number of records in Manifester::all_records
  acked, written,     \* records whose write returned; number of writes
  unread,             \* records of a log that was renamed before they were read
  died_jobs,          \* number of jobs the replay of the died log has submitted
  damaged,            \* records that are lost, in one of the ways known
  crashes

diskVars == <<hot_log, died_log, manifist, files>>
mainVars == <<phase, pc, curr_log_fd, replay, gather, memtables>>
dumpVars == <<dumper, kvs, all_records>>
ghostVars == <<acked, written, unread, died_jobs, damaged, crashes>>
vars == <<diskVars, mainVars, dumpVars, slots, jobs, ghostVars>>

NoRecord == [key |-> 0, id |-> 0]
Absent   == <<NoRecord>>   \* no such file; no log holds NoRecord

Init ==
  /\ hot_log = Absent /\ died_log = Absent /\ manifist = 0 /\ files = << >>
  /\ phase = "died" /\ pc = "down" /\ curr_log_fd = "none"
  /\ replay = << >> /\ gather = NoRecord
  /\ slots = 0 /\ memtables = {} /\ jobs = << >>
  /\ dumper = "off" /\ kvs = {} /\ all_records = 0
  /\ acked = {} /\ written = 0 /\ unread = {} /\ died_jobs = 0
  /\ damaged = {} /\ crashes = 0

\* SkipList::update: a key has one record, the latest.
Updated(records, r) == {o \in records : o.key # r.key} \cup {r}

-----------------------------------------------------------------------------
(* DBSystem::init: the manifest, the died log, the hot log *)

Boot ==
  /\ pc = "down"
  /\ phase' = "died" /\ pc' = "open" /\ dumper' = "take"
  /\ all_records' = manifist /\ slots' = RECORD_BUFF_SIZE
  /\ UNCHANGED <<diskVars, curr_log_fd, replay, gather, memtables, kvs, jobs, ghostVars>>

\* After the died log comes the hot log, and after that the engine appends to it.
NextLog == IF phase = "died" THEN phase' = "hot" /\ pc' = "open"
                             ELSE phase' = "hot" /\ pc' = "append"

LogToOpen == IF phase = "died" THEN died_log ELSE hot_log

OpenLog ==
  /\ pc = "open"
  /\ IF LogToOpen = Absent
     THEN NextLog /\ UNCHANGED <<replay, curr_log_fd>>
     ELSE /\ pc' = "read" /\ replay' = LogToOpen
          /\ curr_log_fd' = IF phase = "hot" THEN "read" ELSE curr_log_fd
          /\ UNCHANGED phase
  /\ UNCHANGED <<diskVars, gather, memtables, dumpVars, slots, jobs, ghostVars>>

\* The descriptor of the log is still the one it was opened with.
CanRead == pc = "read" /\ slots > 0 /\ (phase = "died" \/ curr_log_fd = "read")

\* Each record is read into a slot.
ReadRecord ==
  /\ CanRead /\ replay # << >>
  /\ slots' = slots - 1
  /\ pc' = "recover"
  /\ UNCHANGED <<diskVars, phase, curr_log_fd, replay, gather, memtables, dumpVars, jobs,
                 ghostVars>>

\* Mutant: a slot is given back that was not requested.
ReadEndReleasing ==
  /\ CanRead /\ replay = << >>
  /\ NextLog
  /\ slots' = slots + 1
  /\ curr_log_fd' = IF phase = "hot" THEN "closed" ELSE curr_log_fd
  /\ UNCHANGED <<diskVars, replay, gather, memtables, dumpVars, jobs, ghostVars>>

\* At the end of the log the slot is given back.
ReadEnd ==
  /\ CanRead /\ replay = << >>
  /\ NextLog
  /\ curr_log_fd' = IF phase = "hot" THEN "closed" ELSE curr_log_fd
  /\ UNCHANGED <<diskVars, replay, gather, memtables, dumpVars, slots, jobs, ghostVars>>

\* write_recover, and the test of if_full.
Recover ==
  /\ pc = "recover"
  /\ memtables' = Updated(memtables, Head(replay))
  /\ replay' = Tail(replay)
  /\ unread' = unread \ {Head(replay)}
  /\ pc' = CASE slots > 0 -> "read"
             [] slots = 0 /\ phase = "hot" -> "close"
             [] OTHER -> "submit"
  /\ UNCHANGED <<diskVars, phase, curr_log_fd, gather, dumpVars, slots, jobs,
                 acked, written, died_jobs, damaged, crashes>>

\* Mutant: the hot log is opened with O_TRUNC.
OpenAppendTruncating ==
  /\ pc = "append"
  /\ hot_log' = << >>
  /\ phase' = "write" /\ pc' = "ready" /\ curr_log_fd' = "append"
  /\ UNCHANGED <<died_log, manifist, files, replay, gather, memtables, dumpVars, slots, jobs,
                 ghostVars>>

OpenAppend ==
  /\ pc = "append"
  /\ hot_log' = IF hot_log = Absent THEN << >> ELSE hot_log
  /\ phase' = "write" /\ pc' = "ready" /\ curr_log_fd' = "append"
  /\ UNCHANGED <<died_log, manifist, files, replay, gather, memtables, dumpVars, slots, jobs,
                 ghostVars>>

-----------------------------------------------------------------------------
(* DBSystem::write *)

LogRecord ==
  /\ pc = "ready" /\ written < MaxWrites
  /\ \E k \in Keys : gather' = [key |-> k, id |-> written + 1]
  /\ hot_log' = Append(hot_log, gather')
  /\ written' = written + 1
  /\ pc' = "cache"
  /\ UNCHANGED <<died_log, manifist, files, phase, curr_log_fd, replay, memtables, dumpVars,
                 slots, jobs, acked, unread, died_jobs, damaged, crashes>>

Return == pc' = "ready" /\ acked' = acked \cup {gather} /\ gather' = NoRecord

\* The record gets a slot and an entry; when the memtables are full, the log is
\* switched.
Cache ==
  /\ pc = "cache" /\ slots > 0
  /\ slots' = slots - 1
  /\ memtables' = Updated(memtables, gather)
  /\ IF Cardinality(memtables') >= RECORD_BUFF_SIZE
     THEN pc' = "close" /\ UNCHANGED <<acked, gather>>
     ELSE Return
  /\ UNCHANGED <<diskVars, phase, curr_log_fd, replay, dumpVars, jobs, written, unread, died_jobs,
                 damaged, crashes>>

-----------------------------------------------------------------------------
(* switch_log and submit_dump, for a write and for the replay of the hot log; *)
(* the replay of the died log only submits.                                   *)

CloseLog ==
  /\ pc = "close"
  /\ curr_log_fd' = "closed"
  /\ pc' = "rename"
  /\ UNCHANGED <<diskVars, phase, replay, gather, memtables, dumpVars, slots, jobs, ghostVars>>

RenameLog ==
  /\ pc = "rename"
  /\ died_log = Absent
  /\ died_log' = hot_log /\ hot_log' = Absent
  /\ unread' = unread \cup ToSet(replay)
  /\ pc' = "reopen"
  /\ UNCHANGED <<manifist, files, phase, curr_log_fd, replay, gather, memtables, dumpVars, slots,
                 jobs, acked, written, died_jobs, damaged, crashes>>

ReopenLog ==
  /\ pc = "reopen"
  /\ hot_log' = << >> /\ curr_log_fd' = "append"
  /\ pc' = "submit"
  /\ UNCHANGED <<died_log, manifist, files, phase, replay, gather, memtables, dumpVars, slots,
                 jobs, ghostVars>>

SubmitDump ==
  /\ pc = "submit"
  /\ jobs' = Append(jobs, memtables) /\ memtables' = {}
  /\ died_jobs' = IF phase = "died" THEN died_jobs + 1 ELSE died_jobs
  /\ IF phase = "write" THEN Return ELSE pc' = "read" /\ UNCHANGED <<acked, gather>>
  /\ UNCHANGED <<diskVars, phase, curr_log_fd, replay, dumpVars, slots, written, unread, damaged,
                 crashes>>

-----------------------------------------------------------------------------
(* The dumper *)

TakeJob ==
  /\ dumper = "take" /\ jobs # << >>
  /\ kvs' = Head(jobs) /\ jobs' = Tail(jobs)
  /\ dumper' = "keys"
  /\ UNCHANGED <<diskVars, mainVars, all_records, slots, ghostVars>>

\* Mutant: the number of the last file.
FileNoLast == IF all_records = 0 THEN 0 ELSE all_records - 1

\* dump_all names the file after the number of records.
FileNo == all_records

\* dumpint_keys truncates a file of that name, and writes the keys.
DumpKeys ==
  /\ dumper = "keys"
  /\ LET new == [kvs |-> kvs, values |-> 0]
     IN  files' = IF FileNo < Len(files) THEN [files EXCEPT ![FileNo + 1] = new]
                                         ELSE Append(files, new)
  /\ dumper' = "append"
  /\ UNCHANGED <<hot_log, died_log, manifist, mainVars, kvs, all_records, slots, jobs, ghostVars>>

\* Mutant: no slot is released.
DumpRecordKeepsSlot ==
  /\ dumper = "append"
  /\ files' = [files EXCEPT ![FileNo + 1].values = @ + 1]
  /\ dumper' = IF files'[FileNo + 1].values = Cardinality(kvs) THEN "truncate" ELSE "append"
  /\ UNCHANGED <<hot_log, died_log, manifist, mainVars, kvs, all_records, slots, jobs, ghostVars>>

\* A value is written and its slot is released.
DumpRecord ==
  /\ dumper = "append"
  /\ files' = [files EXCEPT ![FileNo + 1].values = @ + 1]
  /\ slots' = slots + 1
  /\ dumper' = IF files'[FileNo + 1].values = Cardinality(kvs) THEN "truncate" ELSE "append"
  /\ UNCHANGED <<hot_log, died_log, manifist, mainVars, kvs, all_records, jobs, ghostVars>>

\* insert_record: the manifest is opened with O_TRUNC, and written anew.
TruncateManifist ==
  /\ dumper = "truncate"
  /\ manifist' = 0
  /\ dumper' = "manifest"
  /\ UNCHANGED <<hot_log, died_log, files, mainVars, kvs, all_records, slots, jobs, ghostVars>>

FileRecords(n) == files[n + 1].kvs

\* One writev with a part for each record.  When those are too many it fails,
\* nobody looks, and the manifest on disk stays empty.
WriteManifist ==
  /\ dumper = "manifest"
  /\ all_records' = all_records + 1
  /\ IF all_records' <= IOV_MAX
     THEN manifist' = all_records' /\ UNCHANGED damaged
     ELSE /\ damaged' = damaged \cup UNION {FileRecords(n) : n \in 0 .. all_records}
          /\ UNCHANGED manifist
  /\ dumper' = "end"
  /\ UNCHANGED <<hot_log, died_log, files, mainVars, kvs, slots, jobs,
                 acked, written, unread, died_jobs, crashes>>

\* What end_dumping may take with the died log: records that were not read from
\* it, and, when an earlier died log had more than one job, records whose own
\* job is still to come.
NotYetDumped == unread \cup (IF died_jobs > 1 THEN memtables \cup UNION ToSet(jobs) ELSE {})

\* end_dumping
EndDumping ==
  /\ dumper = "end"
  /\ died_log' = Absent
  /\ damaged' = damaged \cup (NotYetDumped \cap ToSet(died_log))
  /\ kvs' = {} /\ dumper' = "take"
  /\ UNCHANGED <<hot_log, manifist, files, mainVars, all_records, slots, jobs,
                 acked, written, unread, died_jobs, crashes>>

-----------------------------------------------------------------------------
(* The end of the process *)

\* An empty manifest loses the records of all files.
Dies ==
  /\ phase' = "died" /\ pc' = "down" /\ dumper' = "off"
  /\ curr_log_fd' = "none" /\ replay' = << >> /\ gather' = NoRecord
  /\ slots' = 0 /\ memtables' = {} /\ jobs' = << >> /\ kvs' = {} /\ all_records' = 0
  /\ damaged' = damaged \cup
       (IF dumper = "manifest" THEN UNION {FileRecords(n) : n \in 0 .. all_records - 1} ELSE {})
  /\ died_jobs' = 0
  /\ UNCHANGED <<diskVars, acked, written, unread>>

Crash ==
  /\ pc # "down" /\ crashes < MaxCrashes
  /\ crashes' = crashes + 1
  /\ Dies

\* read fails on a descriptor opened for writing, and the assertion on what it
\* returns fails.
Abort ==
  /\ pc = "read" /\ phase = "hot" /\ curr_log_fd = "append" /\ slots > 0
  /\ Dies
  /\ UNCHANGED crashes

-----------------------------------------------------------------------------
InitStep ==
  Boot \/ OpenLog \/ ReadRecord \/ ReadEnd \/ Recover \/ OpenAppend \/ Abort
SwitchStep == CloseLog \/ RenameLog \/ ReopenLog \/ SubmitDump
DumperStep ==
  TakeJob \/ DumpKeys \/ DumpRecord \/ TruncateManifist \/ WriteManifist \/ EndDumping

Next == InitStep \/ LogRecord \/ Cache \/ SwitchStep \/ DumperStep \/ Crash

Spec == Init /\ [][Next]_vars

\* Both threads are scheduled, and the engine is started again.
FairSpec == Spec /\ WF_vars(InitStep \/ Cache \/ SwitchStep) /\ WF_vars(DumperStep)

-----------------------------------------------------------------------------
Records == [key : Keys, id : 1 .. MaxWrites]

Labels ==
  {"down", "open", "read", "recover", "append", "ready", "cache", "close", "rename", "reopen",
   "submit"}

\* Types.  No slot is given back that was not taken.
TypeOK ==
  /\ hot_log \in Seq(Records) \cup {Absent} /\ died_log \in Seq(Records) \cup {Absent}
  /\ manifist \in 0 .. Len(files)
  /\ \A i \in DOMAIN files : files[i].kvs \subseteq Records /\ files[i].values \in Nat
  /\ phase \in {"died", "hot", "write"} /\ pc \in Labels
  /\ dumper \in {"off", "take", "keys", "append", "truncate", "manifest", "end"}
  /\ curr_log_fd \in {"none", "read", "append", "closed"}
  /\ replay \in Seq(Records) /\ gather \in Records \cup {NoRecord}
  /\ memtables \subseteq Records /\ kvs \subseteq Records
  /\ jobs \in Seq(SUBSET Records)
  /\ slots \in 0 .. RECORD_BUFF_SIZE
  /\ all_records \in 0 .. Len(files)
  /\ acked \subseteq Records /\ unread \subseteq Records /\ damaged \subseteq Records

\* A file that the manifest lists is complete, and stays so: a new file is not
\* listed before its last value is written, and never takes the name of a
\* listed one, after whatever crashes.
ListedAreComplete ==
  \A n \in 0 .. manifist - 1 : files[n + 1].values = Cardinality(FileRecords(n))

\* The files that are listed, or about to be again.
Listed == 0 .. (IF dumper = "manifest" THEN all_records ELSE manifist) - 1

OnDisk(r) ==
  \/ r \in ToSet(hot_log) \cup ToSet(died_log)
  \/ \E n \in Listed : r \in FileRecords(n)

\* A record whose write has returned is in a log or in a listed file, or a later
\* record of its key is, at every moment, through crashes and restarts; so a
\* replay finds it.  Four losses are excepted, each with exactly the records it
\* takes: those of all files when the process dies while the manifest is empty,
\* or when they have become too many for the manifest to be written; those of
\* the hot log that a replay had not read when it renamed the log; and
\* those of a log renamed while a second job of the died log before it was on
\* its way, since the end of that job removes the new died log.
AckedSurvives ==
  \A r \in acked :
    \E later \in Records :
      later.key = r.key /\ later.id >= r.id /\ (OnDisk(later) \/ later \in damaged)

\* The main thread waits for the died log to go, and nothing will remove it: its
\* replay did not fill the cache, so that no dump was submitted for it.
DiedLogLeft ==
  /\ pc = "rename" /\ died_log # Absent
  /\ jobs = << >> /\ dumper = "take"

\* init ends: the engine is ready, or the process dies, or waits for a died log
\* that was left.
InitEnds == pc = "open" ~> pc \in {"ready", "down"} \/ DiedLogLeft

\* init fetches all of the hot log before the log is closed and a new one opened
\* to be appended to (io.cpp:79).
LogReadBeforeSwitched == phase = "hot" /\ pc = "submit" => replay = << >>
=============================================================================
