-------------------------- MODULE DBRecoveryProofs --------------------------
(***************************************************************************)
(* What DBRecovery promises for every set of keys, size of the cache,      *)
(* length of the manifest, and number of writes and of crashes.            *)
(***************************************************************************)
EXTENDS DBRecovery, SequenceTheorems, FunctionTheorems, FiniteSetTheorems, TLAPS

-----------------------------------------------------------------------------
(* The inductive invariant, in named parts.                                *)

DiskOK ==
  /\ hot_log \in Seq(Records) \cup {Absent} /\ died_log \in Seq(Records) \cup {Absent}
  /\ files \in Seq([kvs : SUBSET Records, values : Nat])
  /\ manifist \in 0 .. Len(files)

MainOK ==
  /\ phase \in {"died", "hot", "write"} /\ pc \in Labels
  /\ curr_log_fd \in {"none", "read", "append", "closed"}
  /\ replay \in Seq(Records) /\ gather \in Records \cup {NoRecord}
  /\ memtables \subseteq Records /\ jobs \in Seq(SUBSET Records)

DumperOK ==
  /\ dumper \in {"off", "take", "keys", "append", "truncate", "manifest", "end"}
  /\ kvs \subseteq Records /\ all_records \in 0 .. Len(files)
  /\ dumper \in {"append", "truncate", "manifest"} => all_records < Len(files)

GhostOK ==
  /\ acked \subseteq Records /\ unread \subseteq Records /\ damaged \subseteq Records
  /\ written \in 0 .. MaxWrites

\* Where the main thread can be in each phase.
PhaseOK ==
  /\ pc = "down" => phase = "died"
  /\ pc \in {"ready", "cache"} => phase = "write"
  /\ pc \in {"open", "read", "recover"} => phase # "write"
  /\ pc = "append" => phase = "hot"
  /\ pc = "recover" => replay # << >>
  /\ pc = "cache" \/ (phase = "write" /\ pc \in {"close", "rename", "reopen", "submit"})
       => gather \in Records

\* A write finds a log to append to.
LogIsOpen ==
  (phase = "write" /\ pc # "reopen") => hot_log \in Seq(Records)

\* A process that is down holds nothing.
DownOK == pc = "down" <=> dumper = "off"
DownIsEmpty == pc = "down" => jobs = << >> /\ memtables = {} /\ kvs = {}

\* No job is empty.
JobsNotEmpty ==
  /\ pc \in {"close", "rename", "reopen", "submit"} => memtables # {}
  /\ \A j \in DOMAIN jobs : jobs[j] # {}
  /\ dumper \in {"keys", "append"} => kvs # {}

\* The slots that the records on their way to a file hold.
JobRecords == {p \in (DOMAIN jobs) \X Records : p[2] \in jobs[p[1]]}
ToWrite == IF dumper = "keys" THEN Cardinality(kvs)
           ELSE IF dumper = "append" THEN Cardinality(kvs) - files[all_records + 1].values ELSE 0

\* The slots that are free now, or will be when the dumps are done.
FreeToCome == slots + Cardinality(JobRecords) + ToWrite

FiniteOK == IsFiniteSet(memtables) /\ IsFiniteSet(JobRecords) /\ IsFiniteSet(kvs)

SlotsOK ==
  /\ slots \in Nat
  /\ slots + Cardinality(memtables) + Cardinality(JobRecords) + ToWrite
       + (IF pc = "recover" THEN 1 ELSE 0) <= RECORD_BUFF_SIZE

WritingOK ==
  dumper = "append" => /\ files[all_records + 1].kvs = kvs
                       /\ files[all_records + 1].values < Cardinality(kvs)

TypeInv ==
  /\ DiskOK /\ MainOK /\ DumperOK /\ GhostOK
  /\ PhaseOK /\ LogIsOpen /\ DownOK /\ DownIsEmpty /\ JobsNotEmpty

SlotInv == FiniteOK /\ SlotsOK /\ WritingOK

\* Every file but the one that is being written has all its values, whether the
\* manifest lists it now or is about to again.
Complete(n) == files[n + 1].values = Cardinality(files[n + 1].kvs)
FilesInv ==
  /\ \A n \in 0 .. manifist - 1 : Complete(n)
  /\ dumper # "off" => manifist <= all_records /\ \A n \in 0 .. all_records - 1 : Complete(n)
  /\ dumper \in {"truncate", "manifest"} => Complete(all_records)

-----------------------------------------------------------------------------
(* Types                                                                   *)

LEMMA InitTypeInv == Init => TypeInv
<1> SUFFICES ASSUME Init PROVE TypeInv
  OBVIOUS
<1> USE DBRecoveryAssumption DEF Init
<1>1. DiskOK /\ GhostOK /\ DumperOK
  BY EmptySeq DEF DiskOK, GhostOK, DumperOK
<1>2. MainOK
  BY EmptySeq DEF MainOK, Labels
<1>3. PhaseOK /\ LogIsOpen /\ DownOK /\ DownIsEmpty /\ JobsNotEmpty
  BY DEF PhaseOK, LogIsOpen, DownOK, DownIsEmpty, JobsNotEmpty
<1> QED BY <1>1, <1>2, <1>3 DEF TypeInv

LEMMA UpdatedType ==
  ASSUME NEW records \in SUBSET Records, NEW r \in Records
  PROVE  Updated(records, r) \in SUBSET Records /\ Updated(records, r) # {}
BY DEF Updated

\* DBSystem::init.
LEMMA InitStepTypes ==
  ASSUME TypeInv, Boot \/ OpenLog \/ ReadRecord \/ ReadEnd \/ OpenAppend
  PROVE  TypeInv'
<1>0. DiskOK /\ MainOK /\ DumperOK /\ GhostOK /\ PhaseOK /\ LogIsOpen /\ DownOK /\ DownIsEmpty
      /\ JobsNotEmpty
  BY DEF TypeInv
<1> USE DEF diskVars, mainVars, dumpVars, ghostVars
<1>1. CASE Boot
  <2>1. DiskOK' /\ GhostOK' /\ MainOK' /\ DumperOK'
    BY <1>0, <1>1 DEF Boot, DiskOK, GhostOK, MainOK, DumperOK, Labels
  <2>2. PhaseOK' /\ LogIsOpen' /\ DownOK' /\ DownIsEmpty' /\ JobsNotEmpty'
    BY <1>0, <1>1 DEF Boot, PhaseOK, LogIsOpen, DownOK, DownIsEmpty, JobsNotEmpty
  <2> QED BY <2>1, <2>2 DEF TypeInv
<1>2. CASE OpenLog
  <2>1. /\ DiskOK' /\ GhostOK' /\ DumperOK'
    BY <1>0, <1>2 DEF OpenLog, DiskOK, GhostOK, DumperOK
  <2>2. MainOK'
    BY <1>0, <1>2 DEF OpenLog, NextLog, LogToOpen, DiskOK, MainOK, Labels
  <2>3. PhaseOK' /\ LogIsOpen' /\ DownOK' /\ DownIsEmpty' /\ JobsNotEmpty'
    BY <1>0, <1>2 DEF OpenLog, NextLog, MainOK, PhaseOK, LogIsOpen, DownOK, DownIsEmpty, JobsNotEmpty
  <2> QED BY <2>1, <2>2, <2>3 DEF TypeInv
<1>3. CASE ReadRecord \/ ReadEnd
  <2>1. /\ DiskOK' /\ GhostOK' /\ DumperOK'
    BY <1>0, <1>3 DEF ReadRecord, ReadEnd, DiskOK, GhostOK, DumperOK
  <2>2. MainOK'
    BY <1>0, <1>3 DEF ReadRecord, ReadEnd, NextLog, MainOK, Labels
  <2>3. PhaseOK' /\ LogIsOpen' /\ DownOK' /\ DownIsEmpty' /\ JobsNotEmpty'
    BY <1>0, <1>3 DEF ReadRecord, ReadEnd, CanRead, NextLog, MainOK, PhaseOK, LogIsOpen, DownOK,
      DownIsEmpty, JobsNotEmpty
  <2> QED BY <2>1, <2>2, <2>3 DEF TypeInv
<1>4. CASE OpenAppend
  <2>1. hot_log' \in Seq(Records)
    BY <1>0, <1>4, EmptySeq DEF OpenAppend, DiskOK
  <2>2. /\ DiskOK' /\ GhostOK' /\ DumperOK'
    BY <1>0, <1>4, <2>1 DEF OpenAppend, DiskOK, GhostOK, DumperOK
  <2>3. MainOK'
    BY <1>0, <1>4 DEF OpenAppend, MainOK, Labels
  <2>4. PhaseOK' /\ LogIsOpen' /\ DownOK' /\ DownIsEmpty' /\ JobsNotEmpty'
    BY <1>0, <1>4, <2>1 DEF OpenAppend, PhaseOK, LogIsOpen, DownOK, DownIsEmpty, JobsNotEmpty
  <2> QED BY <2>2, <2>3, <2>4 DEF TypeInv
<1> QED BY <1>1, <1>2, <1>3, <1>4

LEMMA RecoverTypes ==
  ASSUME TypeInv, SlotInv, Recover
  PROVE  TypeInv'
<1>0. DiskOK /\ MainOK /\ DumperOK /\ GhostOK /\ PhaseOK /\ LogIsOpen /\ DownOK /\ DownIsEmpty
      /\ JobsNotEmpty
  BY DEF TypeInv
<1> USE DEF diskVars, dumpVars
<1>1. /\ replay \in Seq(Records) /\ replay # << >> /\ pc = "recover" /\ phase # "write"
      /\ slots \in Nat
  BY <1>0 DEF MainOK, PhaseOK, Recover, SlotInv, SlotsOK
<1>2. Head(replay) \in Records /\ Tail(replay) \in Seq(Records)
  BY <1>1, HeadTailProperties
<1>3. memtables' \subseteq Records /\ memtables' # {}
  BY <1>0, <1>2, UpdatedType DEF MainOK, Recover
<1>4. pc' \in {"read", "close", "submit"}
  <2>1. CASE slots > 0
    BY <2>1 DEF Recover
  <2>2. CASE slots = 0 /\ phase = "hot"
    BY <2>2 DEF Recover
  <2>3. CASE slots = 0 /\ phase # "hot"
    BY <2>3 DEF Recover
  <2> QED BY <1>1, <2>1, <2>2, <2>3
<1>5. DiskOK' /\ DumperOK'
  BY <1>0 DEF Recover, DiskOK, DumperOK
<1>6. GhostOK' /\ MainOK'
  BY <1>0, <1>2, <1>3, <1>4 DEF Recover, GhostOK, MainOK, Labels
<1>7. PhaseOK' /\ LogIsOpen' /\ DownOK' /\ DownIsEmpty' /\ JobsNotEmpty'
  BY <1>0, <1>1, <1>3, <1>4
  DEF Recover, PhaseOK, LogIsOpen, DownOK, DownIsEmpty, JobsNotEmpty
<1> QED BY <1>5, <1>6, <1>7 DEF TypeInv

\* DBSystem::write.
LEMMA WriteTypes ==
  ASSUME TypeInv, LogRecord \/ Cache
  PROVE  TypeInv'
<1>0. DiskOK /\ MainOK /\ DumperOK /\ GhostOK /\ PhaseOK /\ LogIsOpen /\ DownOK /\ DownIsEmpty
      /\ JobsNotEmpty
  BY DEF TypeInv
<1> USE DBRecoveryAssumption DEF diskVars, dumpVars
<1>1. CASE LogRecord
  <2>1. phase = "write" /\ hot_log \in Seq(Records) /\ pc = "ready"
    BY <1>0, <1>1 DEF LogRecord, PhaseOK, LogIsOpen
  <2>2. gather' \in Records /\ written' \in 0 .. MaxWrites
    <3>1. PICK k \in Keys : gather' = [key |-> k, id |-> written + 1]
      BY <1>1 DEF LogRecord
    <3>2. written + 1 \in 1 .. MaxWrites
      BY <1>0, <1>1 DEF LogRecord, GhostOK
    <3> QED BY <1>1, <3>1, <3>2 DEF Records, LogRecord
  <2>3. hot_log' \in Seq(Records)
    BY <1>1, <2>1, <2>2 DEF LogRecord
  <2>4. DiskOK' /\ DumperOK'
    BY <1>0, <1>1, <2>3 DEF LogRecord, DiskOK, DumperOK
  <2>5. GhostOK' /\ MainOK'
    BY <1>0, <1>1, <2>2 DEF LogRecord, GhostOK, MainOK, Labels
  <2>6. PhaseOK' /\ LogIsOpen' /\ DownOK' /\ DownIsEmpty' /\ JobsNotEmpty'
    BY <1>0, <1>1, <2>1, <2>2, <2>3
    DEF LogRecord, PhaseOK, LogIsOpen, DownOK, DownIsEmpty, JobsNotEmpty
  <2> QED BY <2>4, <2>5, <2>6 DEF TypeInv
<1>2. CASE Cache
  <2>1. phase = "write" /\ hot_log \in Seq(Records) /\ pc = "cache" /\ gather \in Records
    BY <1>0, <1>2 DEF Cache, PhaseOK, LogIsOpen
  <2>2. memtables' \subseteq Records /\ memtables' # {}
    BY <1>0, <1>2, <2>1, UpdatedType DEF Cache, MainOK
  <2>3. \/ pc' = "close" /\ UNCHANGED <<acked, gather>>
        \/ pc' = "ready" /\ acked' = acked \cup {gather} /\ gather' = NoRecord
    BY <1>2 DEF Cache, Return
  <2>4. DiskOK' /\ DumperOK'
    BY <1>0, <1>2 DEF Cache, DiskOK, DumperOK
  <2>5. GhostOK' /\ MainOK'
    BY <1>0, <1>2, <2>1, <2>2, <2>3 DEF Cache, GhostOK, MainOK, Labels
  <2>6. PhaseOK' /\ LogIsOpen' /\ DownOK' /\ DownIsEmpty' /\ JobsNotEmpty'
    BY <1>0, <1>2, <2>1, <2>2, <2>3
    DEF Cache, PhaseOK, LogIsOpen, DownOK, DownIsEmpty, JobsNotEmpty
  <2> QED BY <2>4, <2>5, <2>6 DEF TypeInv
<1> QED BY <1>1, <1>2

\* switch_log and submit_dump.
LEMMA SwitchTypes ==
  ASSUME TypeInv, SwitchStep
  PROVE  TypeInv'
<1>0. DiskOK /\ MainOK /\ DumperOK /\ GhostOK /\ PhaseOK /\ LogIsOpen /\ DownOK /\ DownIsEmpty
      /\ JobsNotEmpty
  BY DEF TypeInv
<1> USE DEF diskVars, dumpVars, ghostVars
<1>1. CASE CloseLog
  <2>1. DiskOK' /\ DumperOK' /\ GhostOK' /\ MainOK'
    BY <1>0, <1>1 DEF CloseLog, DiskOK, DumperOK, GhostOK, MainOK, Labels
  <2>2. PhaseOK' /\ LogIsOpen' /\ DownOK' /\ DownIsEmpty' /\ JobsNotEmpty'
    BY <1>0, <1>1 DEF CloseLog, PhaseOK, LogIsOpen, DownOK, DownIsEmpty, JobsNotEmpty
  <2> QED BY <2>1, <2>2 DEF TypeInv
<1>2. CASE RenameLog
  <2>1. ToSet(replay) \subseteq Records
    BY <1>0, ElementOfSeq, LenProperties DEF MainOK, ToSet
  <2>2. DiskOK' /\ DumperOK' /\ GhostOK' /\ MainOK'
    BY <1>0, <1>2, <2>1 DEF RenameLog, DiskOK, DumperOK, GhostOK, MainOK, Labels
  <2>3. PhaseOK' /\ LogIsOpen' /\ DownOK' /\ DownIsEmpty' /\ JobsNotEmpty'
    BY <1>0, <1>2 DEF RenameLog, PhaseOK, LogIsOpen, DownOK, DownIsEmpty, JobsNotEmpty
  <2> QED BY <2>2, <2>3 DEF TypeInv
<1>3. CASE ReopenLog
  <2>1. hot_log' \in Seq(Records)
    BY <1>3, EmptySeq DEF ReopenLog
  <2>2. DiskOK' /\ DumperOK' /\ GhostOK' /\ MainOK'
    BY <1>0, <1>3, <2>1 DEF ReopenLog, DiskOK, DumperOK, GhostOK, MainOK, Labels
  <2>3. PhaseOK' /\ LogIsOpen' /\ DownOK' /\ DownIsEmpty' /\ JobsNotEmpty'
    BY <1>0, <1>3, <2>1 DEF ReopenLog, PhaseOK, LogIsOpen, DownOK, DownIsEmpty, JobsNotEmpty
  <2> QED BY <2>2, <2>3 DEF TypeInv
<1>4. CASE SubmitDump
  <2>1. /\ jobs \in Seq(SUBSET Records) /\ memtables \in SUBSET Records /\ memtables # {}
        /\ pc = "submit" /\ jobs' = Append(jobs, memtables) /\ memtables' = {}
    BY <1>0, <1>4 DEF SubmitDump, MainOK, JobsNotEmpty
  <2>2. /\ jobs' \in Seq(SUBSET Records)
        /\ \A j \in DOMAIN jobs' : jobs'[j] # {}
    <3>1. /\ Append(jobs, memtables) \in Seq(SUBSET Records)
          /\ DOMAIN Append(jobs, memtables) = 1 .. Len(jobs) + 1
          /\ DOMAIN jobs = 1 .. Len(jobs) /\ Len(jobs) \in Nat
          /\ \A j \in 1 .. Len(jobs) : Append(jobs, memtables)[j] = jobs[j]
          /\ Append(jobs, memtables)[Len(jobs) + 1] = memtables
      BY <2>1, AppendProperties, LenProperties
    <3> QED BY <1>0, <2>1, <3>1 DEF JobsNotEmpty
  <2>3. \/ phase = "write" /\ pc' = "ready" /\ acked' = acked \cup {gather} /\ gather' = NoRecord
        \/ phase # "write" /\ pc' = "read" /\ UNCHANGED <<acked, gather>>
    BY <1>4 DEF SubmitDump, Return
  <2>4. phase = "write" => gather \in Records
    BY <1>0, <2>1 DEF PhaseOK
  <2>5. UNCHANGED <<diskVars, phase, curr_log_fd, replay, dumpVars, written, unread, damaged>>
    BY <1>4 DEF SubmitDump
  <2>6. DiskOK' /\ DumperOK' /\ GhostOK'
    BY <1>0, <2>3, <2>4, <2>5 DEF DiskOK, DumperOK, GhostOK
  <2>7. MainOK'
    BY <1>0, <2>1, <2>2, <2>3, <2>5 DEF MainOK, Labels
  <2>8. PhaseOK' /\ LogIsOpen'
    BY <1>0, <2>1, <2>3, <2>5 DEF PhaseOK, LogIsOpen
  <2>9. DownOK' /\ DownIsEmpty' /\ JobsNotEmpty'
    BY <1>0, <2>1, <2>2, <2>3, <2>5 DEF DownOK, DownIsEmpty, JobsNotEmpty
  <2> QED BY <2>6, <2>7, <2>8, <2>9 DEF TypeInv
<1> QED BY <1>1, <1>2, <1>3, <1>4 DEF SwitchStep

\* The dumper.
LEMMA TakeJobTypes ==
  ASSUME TypeInv, TakeJob
  PROVE  TypeInv'
<1>0. DiskOK /\ MainOK /\ DumperOK /\ GhostOK /\ PhaseOK /\ LogIsOpen /\ DownOK /\ DownIsEmpty
      /\ JobsNotEmpty
  BY DEF TypeInv
<1>1. /\ jobs \in Seq(SUBSET Records) /\ jobs # << >> /\ kvs' = Head(jobs) /\ jobs' = Tail(jobs)
      /\ UNCHANGED <<diskVars, mainVars, all_records, ghostVars>>
      /\ dumper = "take" /\ dumper' = "keys"
  BY <1>0 DEF TakeJob, MainOK
<1>2. /\ Head(jobs) \in SUBSET Records /\ Head(jobs) = jobs[1] /\ 1 \in DOMAIN jobs
      /\ Tail(jobs) \in Seq(SUBSET Records)
      /\ \A j \in DOMAIN Tail(jobs) : j + 1 \in DOMAIN jobs /\ Tail(jobs)[j] = jobs[j + 1]
  BY <1>1, HeadTailProperties, LenProperties, EmptySeq
<1>3. /\ kvs' # {} /\ \A j \in DOMAIN jobs' : jobs'[j] # {}
  BY <1>0, <1>1, <1>2 DEF JobsNotEmpty
<1>4. DiskOK' /\ GhostOK' /\ MainOK' /\ DumperOK'
  BY <1>0, <1>1, <1>2
  DEF DiskOK, GhostOK, MainOK, DumperOK, diskVars, mainVars, ghostVars
<1>5. PhaseOK' /\ LogIsOpen'
  BY <1>0, <1>1 DEF PhaseOK, LogIsOpen, diskVars, mainVars
<1>6. DownOK' /\ DownIsEmpty' /\ JobsNotEmpty'
  BY <1>0, <1>1, <1>3 DEF DownOK, DownIsEmpty, JobsNotEmpty, mainVars
<1> QED BY <1>4, <1>5, <1>6 DEF TypeInv

LEMMA FileTypes ==
  ASSUME TypeInv, DumpKeys \/ DumpRecord
  PROVE  /\ files' \in Seq([kvs : SUBSET Records, values : Nat])
         /\ Len(files) \in Nat /\ Len(files') >= Len(files) /\ all_records + 1 <= Len(files')
         /\ Len(files') \in Nat
         /\ \A n \in 0 .. Len(files) - 1 : n # all_records => files'[n + 1] = files[n + 1]
         /\ files'[all_records + 1]
              = IF dumper = "keys" THEN [kvs |-> kvs, values |-> 0]
                ELSE [files[all_records + 1] EXCEPT !.values = @ + 1]
<1> DEFINE File == [kvs : SUBSET Records, values : Nat]
<1>0. /\ files \in Seq(File) /\ all_records \in 0 .. Len(files) /\ Len(files) \in Nat
      /\ kvs \subseteq Records
      /\ dumper = "append" => all_records < Len(files)
  BY LenProperties DEF TypeInv, DiskOK, DumperOK
<1>1. CASE DumpKeys
  <2> DEFINE new == [kvs |-> kvs, values |-> 0]
  <2>1. new \in File /\ dumper = "keys"
    BY <1>0, <1>1 DEF DumpKeys
  <2>2. CASE all_records < Len(files)
    <3>1. files' = [files EXCEPT ![all_records + 1] = new] /\ all_records + 1 \in 1 .. Len(files)
      BY <1>0, <1>1, <2>2 DEF DumpKeys, FileNo
    <3> HIDE DEF new, File
    <3>2. /\ files' \in Seq(File) /\ Len(files') = Len(files)
          /\ \A j \in 1 .. Len(files) : files'[j] = IF j = all_records + 1 THEN new ELSE files[j]
      BY <1>0, <2>1, <3>1, ExceptSeq
    <3>3. files'[all_records + 1] = new
      BY <3>1, <3>2
    <3>4. \A n \in 0 .. Len(files) - 1 : n # all_records => files'[n + 1] = files[n + 1]
      BY <1>0, <3>2
    <3> QED BY <1>0, <2>1, <2>2, <3>2, <3>3, <3>4 DEF new, File
  <2>3. CASE all_records = Len(files)
    <3>1. files' = Append(files, new)
      BY <1>0, <1>1, <2>3 DEF DumpKeys, FileNo
    <3> HIDE DEF new, File
    <3>2. /\ files' \in Seq(File) /\ Len(files') = Len(files) + 1
          /\ \A j \in 1 .. Len(files) : files'[j] = files[j]
          /\ files'[Len(files) + 1] = new
      BY <1>0, <2>1, <3>1, AppendProperties
    <3>3. \A n \in 0 .. Len(files) - 1 : files'[n + 1] = files[n + 1]
      BY <1>0, <3>2
    <3> QED BY <1>0, <2>1, <2>3, <3>2, <3>3 DEF new, File
  <2> QED BY <1>0, <2>2, <2>3
<1>2. CASE DumpRecord
  <2> DEFINE new == [files[all_records + 1] EXCEPT !.values = @ + 1]
  <2>1. dumper = "append" /\ all_records + 1 \in 1 .. Len(files)
    BY <1>0, <1>2 DEF DumpRecord
  <2>2. files[all_records + 1] \in File
    BY <1>0, <2>1, ElementOfSeq
  <2>3. new \in File
    BY <2>2
  <2>4. files' = [files EXCEPT ![all_records + 1] = new]
    BY <1>2 DEF DumpRecord, FileNo
  <2> HIDE DEF new, File
  <2>5. /\ files' \in Seq(File) /\ Len(files') = Len(files)
        /\ \A j \in 1 .. Len(files) : files'[j] = IF j = all_records + 1 THEN new ELSE files[j]
    BY <1>0, <2>1, <2>3, <2>4, ExceptSeq
  <2>6. files'[all_records + 1] = new
    BY <2>1, <2>5
  <2>7. \A n \in 0 .. Len(files) - 1 : n # all_records => files'[n + 1] = files[n + 1]
    BY <1>0, <2>5
  <2> QED BY <1>0, <2>1, <2>5, <2>6, <2>7 DEF new, File
<1> QED BY <1>1, <1>2

LEMMA FileRecordsType ==
  ASSUME DiskOK, NEW n \in 0 .. Len(files) - 1
  PROVE  FileRecords(n) \subseteq Records
<1>1. Len(files) \in Nat /\ n + 1 \in 1 .. Len(files)
  BY LenProperties DEF DiskOK
<1>2. files[n + 1] \in [kvs : SUBSET Records, values : Nat]
  BY <1>1, ElementOfSeq DEF DiskOK
<1> QED BY <1>2 DEF FileRecords

LEMMA DumperTypes ==
  ASSUME TypeInv, DumpKeys \/ DumpRecord \/ TruncateManifist \/ WriteManifist \/ EndDumping
  PROVE  TypeInv'
<1>0. DiskOK /\ MainOK /\ DumperOK /\ GhostOK /\ PhaseOK /\ LogIsOpen /\ DownOK /\ DownIsEmpty
      /\ JobsNotEmpty
  BY DEF TypeInv
<1>a. Len(files) \in Nat
  BY <1>0, LenProperties DEF DiskOK
<1> USE DBRecoveryAssumption DEF mainVars, ghostVars, diskVars
<1>1. CASE DumpKeys \/ DumpRecord
  <2>1. /\ files' \in Seq([kvs : SUBSET Records, values : Nat])
        /\ Len(files') >= Len(files) /\ all_records + 1 <= Len(files') /\ Len(files') \in Nat
    BY <1>1, FileTypes
  <2>2. /\ UNCHANGED <<hot_log, died_log, manifist, mainVars, kvs, all_records, jobs, ghostVars>>
        /\ dumper \in {"keys", "append"} /\ dumper' \in {"append", "truncate"}
    BY <1>1 DEF DumpKeys, DumpRecord
  <2>3. DiskOK' /\ GhostOK' /\ MainOK' /\ DumperOK'
    BY <1>0, <1>a, <2>1, <2>2 DEF DiskOK, GhostOK, MainOK, DumperOK
  <2>4. PhaseOK' /\ LogIsOpen' /\ DownOK' /\ DownIsEmpty' /\ JobsNotEmpty'
    BY <1>0, <2>2 DEF PhaseOK, LogIsOpen, DownOK, DownIsEmpty, JobsNotEmpty
  <2> QED BY <2>3, <2>4 DEF TypeInv
<1>2. CASE TruncateManifist
  <2>1. DiskOK' /\ GhostOK' /\ MainOK' /\ DumperOK'
    BY <1>0, <1>a, <1>2 DEF TruncateManifist, DiskOK, GhostOK, MainOK, DumperOK
  <2>2. PhaseOK' /\ LogIsOpen' /\ DownOK' /\ DownIsEmpty' /\ JobsNotEmpty'
    BY <1>0, <1>2 DEF TruncateManifist, PhaseOK, LogIsOpen, DownOK, DownIsEmpty, JobsNotEmpty
  <2> QED BY <2>1, <2>2 DEF TypeInv
<1>3. CASE WriteManifist
  <2>1. all_records' = all_records + 1 /\ all_records + 1 \in 0 .. Len(files)
    BY <1>0, <1>a, <1>3 DEF WriteManifist, DumperOK
  <2>2. \A n \in 0 .. all_records : FileRecords(n) \subseteq Records
    <3>1. SUFFICES ASSUME NEW n \in 0 .. all_records PROVE FileRecords(n) \subseteq Records
      OBVIOUS
    <3>2. n \in 0 .. Len(files) - 1
      BY <1>0, <1>a, <2>1 DEF DumperOK
    <3> QED BY <1>0, <3>2, FileRecordsType
  <2>3. damaged' \subseteq Records /\ manifist' \in 0 .. Len(files)
    BY <1>0, <1>3, <2>1, <2>2 DEF WriteManifist, GhostOK, DiskOK
  <2>4. DiskOK' /\ GhostOK' /\ MainOK' /\ DumperOK'
    BY <1>0, <1>3, <2>1, <2>3 DEF WriteManifist, DiskOK, GhostOK, MainOK, DumperOK
  <2>5. PhaseOK' /\ LogIsOpen' /\ DownOK' /\ DownIsEmpty' /\ JobsNotEmpty'
    BY <1>0, <1>3 DEF WriteManifist, PhaseOK, LogIsOpen, DownOK, DownIsEmpty, JobsNotEmpty
  <2> QED BY <2>4, <2>5 DEF TypeInv
<1>4. CASE EndDumping
  <2>1. \A j \in DOMAIN jobs : jobs[j] \in SUBSET Records
    BY <1>0, ElementOfSeq, LenProperties DEF MainOK
  <2>2. damaged' \subseteq Records
    <3>1. (UNION ToSet(jobs)) \subseteq Records
      BY <2>1 DEF ToSet
    <3>2. NotYetDumped \subseteq Records
      BY <1>0, <3>1 DEF NotYetDumped, GhostOK, MainOK
    <3> QED BY <1>0, <1>4, <3>2 DEF EndDumping, GhostOK
  <2>3. DiskOK' /\ GhostOK' /\ MainOK' /\ DumperOK'
    BY <1>0, <1>4, <2>2 DEF EndDumping, DiskOK, GhostOK, MainOK, DumperOK
  <2>4. PhaseOK' /\ LogIsOpen' /\ DownOK' /\ DownIsEmpty' /\ JobsNotEmpty'
    BY <1>0, <1>4 DEF EndDumping, PhaseOK, LogIsOpen, DownOK, DownIsEmpty, JobsNotEmpty
  <2> QED BY <2>3, <2>4 DEF TypeInv
<1> QED BY <1>1, <1>2, <1>3, <1>4

\* The end of the process.
LEMMA DiesTypes ==
  ASSUME TypeInv, Crash \/ Abort
  PROVE  TypeInv'
<1>0. DiskOK /\ MainOK /\ DumperOK /\ GhostOK /\ PhaseOK /\ LogIsOpen /\ DownOK /\ DownIsEmpty
      /\ JobsNotEmpty
  BY DEF TypeInv
<1>1. Dies
  BY DEF Crash, Abort
<1>2. \A n \in 0 .. all_records - 1 : FileRecords(n) \subseteq Records
  <2>1. Len(files) \in Nat
    BY <1>0, LenProperties DEF DiskOK
  <2> QED BY <1>0, <2>1, FileRecordsType DEF DumperOK
<1>3. damaged' \subseteq Records
  BY <1>0, <1>1, <1>2 DEF Dies, GhostOK
<1>4. DiskOK' /\ GhostOK' /\ MainOK' /\ DumperOK'
  <2>1. << >> \in Seq(Records) /\ << >> \in Seq(SUBSET Records) /\ Len(files) \in Nat
    BY <1>0, LenProperties, EmptySeq DEF DiskOK
  <2> QED BY <1>0, <1>1, <1>3, <2>1
          DEF Dies, DiskOK, GhostOK, MainOK, DumperOK, Labels, diskVars
<1>5. PhaseOK' /\ LogIsOpen' /\ DownOK' /\ DownIsEmpty' /\ JobsNotEmpty'
  BY <1>1 DEF Dies, PhaseOK, LogIsOpen, DownOK, DownIsEmpty, JobsNotEmpty
<1> QED BY <1>4, <1>5 DEF TypeInv

LEMMA TypeInvStep == TypeInv /\ SlotInv /\ [Next]_vars => TypeInv'
<1> SUFFICES ASSUME TypeInv, SlotInv, [Next]_vars PROVE TypeInv'
  OBVIOUS
<1>1. CASE InitStep \/ Crash
  BY <1>1, InitStepTypes, RecoverTypes, DiesTypes DEF InitStep
<1>2. CASE LogRecord \/ Cache
  BY <1>2, WriteTypes
<1>3. CASE SwitchStep
  BY <1>3, SwitchTypes
<1>4. CASE DumperStep
  BY <1>4, TakeJobTypes, DumperTypes DEF DumperStep
<1>5. CASE UNCHANGED vars
  BY <1>5 DEF vars, diskVars, mainVars, dumpVars, ghostVars, TypeInv, DiskOK, MainOK, DumperOK, GhostOK,
    PhaseOK, LogIsOpen, DownOK, DownIsEmpty, JobsNotEmpty
<1> QED BY <1>1, <1>2, <1>3, <1>4, <1>5 DEF Next

-----------------------------------------------------------------------------
(* The slots of the cache                                                  *)

LEMMA InitSlotInv == Init => SlotInv
<1> SUFFICES ASSUME Init PROVE SlotInv
  OBVIOUS
<1>1. /\ memtables = {} /\ kvs = {} /\ jobs = << >> /\ dumper = "off" /\ pc = "down" /\ slots = 0
  BY DEF Init
<1>2. JobRecords = {}
  BY <1>1 DEF JobRecords
<1>3. FiniteOK /\ Cardinality(memtables) = 0 /\ Cardinality(JobRecords) = 0
  BY <1>1, <1>2, FS_EmptySet DEF FiniteOK
<1>4. SlotsOK
  BY <1>1, <1>3, DBRecoveryAssumption DEF SlotsOK, ToWrite
<1> QED BY <1>1, <1>3, <1>4 DEF SlotInv, WritingOK

LEMMA UpdatedCardinality ==
  ASSUME NEW records, IsFiniteSet(records), NEW r
  PROVE  /\ IsFiniteSet(Updated(records, r))
         /\ Cardinality(Updated(records, r)) <= Cardinality(records) + 1
         /\ Cardinality(Updated(records, r)) \in Nat /\ Cardinality(records) \in Nat
<1> DEFINE rest == {o \in records : o.key # r.key}
<1>1. /\ IsFiniteSet(rest) /\ Cardinality(rest) <= Cardinality(records)
  BY FS_Subset
<1>2. /\ IsFiniteSet(rest \cup {r})
      /\ Cardinality(rest \cup {r}) = IF r \in rest THEN Cardinality(rest) ELSE Cardinality(rest) + 1
  BY <1>1, FS_AddElement
<1>3. Cardinality(rest) \in Nat /\ Cardinality(records) \in Nat /\ Cardinality(rest \cup {r}) \in Nat
  BY <1>1, <1>2, FS_CardinalityType
<1> QED BY <1>1, <1>2, <1>3 DEF Updated

\* The numbers that are added up.
LEMMA SlotNumbers ==
  ASSUME TypeInv, SlotInv
  PROVE  /\ slots \in Nat /\ Cardinality(memtables) \in Nat /\ Cardinality(JobRecords) \in Nat
         /\ Cardinality(kvs) \in Nat /\ ToWrite \in Nat
         /\ slots <= RECORD_BUFF_SIZE
         /\ dumper = "append" => files[all_records + 1].values \in Nat
<1>1. /\ slots \in Nat /\ Cardinality(memtables) \in Nat /\ Cardinality(JobRecords) \in Nat
      /\ Cardinality(kvs) \in Nat
  BY FS_CardinalityType DEF SlotInv, SlotsOK, FiniteOK
<1>2. dumper = "append" => files[all_records + 1].values \in Nat
  <2>1. SUFFICES ASSUME dumper = "append" PROVE files[all_records + 1].values \in Nat
    OBVIOUS
  <2>2. files \in Seq([kvs : SUBSET Records, values : Nat]) /\ all_records + 1 \in 1 .. Len(files)
    BY <2>1, LenProperties DEF TypeInv, DiskOK, DumperOK
  <2>3. files[all_records + 1] \in [kvs : SUBSET Records, values : Nat]
    BY <2>2, ElementOfSeq
  <2> QED BY <2>3
<1>3. ToWrite \in Nat
  BY <1>1, <1>2 DEF ToWrite, SlotInv, WritingOK
<1> QED BY <1>1, <1>2, <1>3, DBRecoveryAssumption DEF SlotInv, SlotsOK

\* The steps of the main thread that leave jobs alone.
LEMMA SlotsTaken ==
  ASSUME TypeInv, SlotInv,
         UNCHANGED <<jobs, kvs, dumper, files, all_records>>,
         IsFiniteSet(memtables'), slots' \in Nat,
         slots' + Cardinality(memtables') + (IF pc' = "recover" THEN 1 ELSE 0)
           <= slots + Cardinality(memtables) + (IF pc = "recover" THEN 1 ELSE 0)
  PROVE  SlotInv'
<1>1. JobRecords' = JobRecords /\ ToWrite' = ToWrite
  BY DEF JobRecords, ToWrite
<1>2. FiniteOK' /\ WritingOK'
  BY <1>1 DEF SlotInv, FiniteOK, WritingOK
<1>3. Cardinality(memtables') \in Nat
  BY FS_CardinalityType
<1>4. SlotsOK'
  BY <1>1, <1>3, SlotNumbers, DBRecoveryAssumption DEF SlotInv, SlotsOK
<1> QED BY <1>2, <1>4 DEF SlotInv

LEMMA MainSlots ==
  ASSUME TypeInv, SlotInv,
         \/ OpenLog \/ ReadRecord \/ ReadEnd \/ Recover \/ OpenAppend \/ LogRecord \/ Cache
         \/ CloseLog \/ RenameLog \/ ReopenLog
  PROVE  SlotInv'
<1>0. /\ slots \in Nat /\ IsFiniteSet(memtables) /\ Cardinality(memtables) \in Nat
  BY SlotNumbers DEF SlotInv, FiniteOK
<1> USE DEF diskVars, dumpVars, ghostVars, NextLog
<1>1. CASE OpenLog \/ ReadEnd \/ OpenAppend \/ LogRecord \/ CloseLog \/ RenameLog \/ ReopenLog
  <2>1. /\ UNCHANGED <<jobs, kvs, dumper, files, all_records, memtables, slots>>
        /\ pc' # "recover"
    BY <1>1 DEF OpenLog, ReadEnd, OpenAppend, LogRecord, CloseLog, RenameLog, ReopenLog
  <2> QED BY <1>0, <2>1, SlotsTaken
<1>2. CASE ReadRecord
  <2>1. /\ UNCHANGED <<jobs, kvs, dumper, files, all_records, memtables>>
        /\ pc = "read" /\ pc' = "recover" /\ slots > 0 /\ slots' = slots - 1
    BY <1>2 DEF ReadRecord, CanRead
  <2> QED BY <1>0, <2>1, SlotsTaken
<1>3. CASE Recover
  <2>1. /\ UNCHANGED <<jobs, kvs, dumper, files, all_records, slots>> /\ pc = "recover"
        /\ memtables' = Updated(memtables, Head(replay))
    BY <1>3 DEF Recover
  <2>2. pc' # "recover"
    <3>1. CASE slots > 0
      BY <1>3, <3>1 DEF Recover
    <3>2. CASE slots = 0 /\ phase = "hot"
      BY <1>3, <3>2 DEF Recover
    <3>3. CASE slots = 0 /\ phase # "hot"
      BY <1>3, <3>3 DEF Recover
    <3> QED BY <1>0, <3>1, <3>2, <3>3
  <2>3. IsFiniteSet(memtables') /\ Cardinality(memtables') <= Cardinality(memtables) + 1
        /\ Cardinality(memtables') \in Nat
    BY <1>0, <2>1, UpdatedCardinality
  <2> QED BY <1>0, <2>1, <2>2, <2>3, SlotsTaken
<1>4. CASE Cache
  <2>1. /\ UNCHANGED <<jobs, kvs, dumper, files, all_records>>
        /\ pc = "cache" /\ pc' # "recover" /\ slots > 0 /\ slots' = slots - 1
        /\ memtables' = Updated(memtables, gather)
    BY <1>4 DEF Cache, Return
  <2>2. IsFiniteSet(memtables') /\ Cardinality(memtables') <= Cardinality(memtables) + 1
        /\ Cardinality(memtables') \in Nat
    BY <1>0, <2>1, UpdatedCardinality
  <2> QED BY <1>0, <2>1, <2>2, SlotsTaken
<1> QED BY <1>1, <1>2, <1>3, <1>4

\* The slots of the memtables become those of the job.
LEMMA SubmitSlots ==
  ASSUME TypeInv, SlotInv, SubmitDump
  PROVE  SlotInv'
<1> DEFINE new == {Len(jobs) + 1} \X memtables
<1>1. /\ jobs \in Seq(SUBSET Records) /\ memtables \subseteq Records
      /\ jobs' = Append(jobs, memtables) /\ memtables' = {} /\ pc = "submit"
      /\ pc' # "recover"
      /\ UNCHANGED <<slots, dumper, kvs, files, all_records>>
  BY DEF TypeInv, MainOK, SubmitDump, Return, diskVars, dumpVars
<1>2. /\ DOMAIN jobs' = 1 .. Len(jobs) + 1 /\ DOMAIN jobs = 1 .. Len(jobs) /\ Len(jobs) \in Nat
      /\ \A j \in 1 .. Len(jobs) : jobs'[j] = jobs[j]
      /\ jobs'[Len(jobs) + 1] = memtables
  BY <1>1, AppendProperties, LenProperties
<1>3. JobRecords' = JobRecords \cup new
  <2>1. \A p \in JobRecords' : p \in JobRecords \/ p \in new
    BY <1>1, <1>2 DEF JobRecords
  <2>2. \A p \in JobRecords : p \in JobRecords'
    BY <1>2 DEF JobRecords
  <2>3. \A p \in new : p \in JobRecords'
    BY <1>1, <1>2 DEF JobRecords
  <2> QED BY <2>1, <2>2, <2>3
<1>4. JobRecords \cap new = {}
  BY <1>2 DEF JobRecords
<1>5. IsFiniteSet(memtables) /\ IsFiniteSet(JobRecords) /\ IsFiniteSet(kvs)
  BY DEF SlotInv, FiniteOK
<1>6. IsFiniteSet(new) /\ Cardinality(new) = Cardinality(memtables)
  <2>1. IsFiniteSet({Len(jobs) + 1}) /\ Cardinality({Len(jobs) + 1}) = 1
    BY FS_Singleton
  <2>2. IsFiniteSet(new) /\ Cardinality(new) = 1 * Cardinality(memtables)
    BY <1>5, <2>1, FS_Product
  <2> QED BY <2>2, SlotNumbers
<1> HIDE DEF new
<1>7. /\ IsFiniteSet(JobRecords')
      /\ Cardinality(JobRecords') = Cardinality(JobRecords) + Cardinality(memtables)
  <2>1. /\ IsFiniteSet(JobRecords \cup new)
        /\ Cardinality(JobRecords \cup new) = Cardinality(JobRecords) + Cardinality(new) - Cardinality({})
    BY <1>4, <1>5, <1>6, FS_Union
  <2> QED BY <1>3, <1>6, <2>1, FS_EmptySet, SlotNumbers
<1>8. IsFiniteSet(memtables') /\ Cardinality(memtables') = 0
  BY <1>1, FS_EmptySet
<1>9. FiniteOK' /\ WritingOK'
  BY <1>1, <1>5, <1>7, <1>8 DEF FiniteOK, WritingOK, SlotInv
<1>10. ToWrite' = ToWrite
  BY <1>1 DEF ToWrite
<1>11. SlotsOK'
  BY <1>1, <1>7, <1>8, <1>10, SlotNumbers, DBRecoveryAssumption DEF SlotInv, SlotsOK
<1> QED BY <1>9, <1>11 DEF SlotInv

\* The slots of the first job become those of the file under way.
LEMMA TakeJobSlots ==
  ASSUME TypeInv, SlotInv, TakeJob
  PROVE  SlotInv' /\ FreeToCome' = FreeToCome
<1> DEFINE first == {1} \X jobs[1]
           rest == JobRecords \ first
           f == [p \in rest |-> <<p[1] - 1, p[2]>>]
<1>1. /\ jobs \in Seq(SUBSET Records) /\ jobs # << >> /\ jobs' = Tail(jobs) /\ kvs' = Head(jobs)
      /\ dumper = "take" /\ dumper' = "keys"
      /\ UNCHANGED <<slots, memtables, pc, files, all_records>>
  BY DEF TypeInv, MainOK, TakeJob, diskVars, mainVars
<1>2. /\ Head(jobs) = jobs[1] /\ 1 \in DOMAIN jobs /\ jobs[1] \in SUBSET Records
      /\ Len(jobs) \in Nat /\ Len(jobs) >= 1 /\ DOMAIN jobs = 1 .. Len(jobs)
      /\ Len(jobs') = Len(jobs) - 1 /\ DOMAIN jobs' = 1 .. Len(jobs) - 1
      /\ \A j \in 1 .. Len(jobs) - 1 : jobs'[j] = jobs[j + 1]
  BY <1>1, HeadTailProperties, LenProperties, EmptySeq
<1>3. IsFiniteSet(memtables) /\ IsFiniteSet(JobRecords)
  BY DEF SlotInv, FiniteOK
<1>4. first \subseteq JobRecords
  BY <1>2 DEF JobRecords
<1>5. IsFiniteSet(first) /\ Cardinality(first) = Cardinality(kvs') /\ IsFiniteSet(kvs')
  <2>1. ExistsBijection(first, jobs[1])
    <3> DEFINE g == [p \in first |-> p[2]]
    <3>1. g \in Bijection(first, jobs[1])
      <4>1. g \in [first -> jobs[1]] /\ \A a, b \in first : g[a] = g[b] => a = b
        OBVIOUS
      <4>2. \A r \in jobs[1] : <<1, r>> \in first /\ g[<<1, r>>] = r
        OBVIOUS
      <4> HIDE DEF g
      <4> QED BY <4>1, <4>2, Fun_IsBij
    <3> QED BY <3>1, Fun_ExistsBij
  <2>2. IsFiniteSet(first)
    BY <1>3, <1>4, FS_Subset
  <2> HIDE DEF first
  <2> QED BY <1>1, <1>2, <2>1, <2>2, FS_Bijection
<1>6. /\ IsFiniteSet(rest)
      /\ Cardinality(rest) = Cardinality(JobRecords) - Cardinality(kvs')
  <2>1. JobRecords \cap first = first
    BY <1>4
  <2> HIDE DEF first
  <2> QED BY <1>3, <1>5, <2>1, FS_Difference
<1>7. ExistsBijection(rest, JobRecords')
  <2>1. \A p \in rest : /\ p[1] \in 2 .. Len(jobs) /\ p[2] \in Records /\ p[2] \in jobs[p[1]]
                        /\ p = <<p[1], p[2]>>
    BY <1>2 DEF JobRecords
  <2>2. \A p \in rest : <<p[1] - 1, p[2]>> \in JobRecords'
    BY <1>2, <2>1 DEF JobRecords
  <2>3. \A p \in JobRecords' : /\ p[1] \in 1 .. Len(jobs) - 1 /\ p[2] \in Records
                               /\ p[2] \in jobs[p[1] + 1] /\ p = <<p[1], p[2]>>
    BY <1>2 DEF JobRecords
  <2>4. \A p \in JobRecords' : <<p[1] + 1, p[2]>> \in rest
    BY <1>2, <2>3 DEF JobRecords
  <2>5. \A p \in JobRecords' : <<(p[1] + 1) - 1, p[2]>> = p
    BY <2>3
  <2> HIDE DEF rest
  <2>6. f \in [rest -> JobRecords']
    BY <2>2
  <2>7. \A a, b \in rest : f[a] = f[b] => a = b
    <3>1. SUFFICES ASSUME NEW a \in rest, NEW b \in rest, f[a] = f[b] PROVE a = b
      OBVIOUS
    <3>2. a[1] - 1 = b[1] - 1 /\ a[2] = b[2]
      BY <3>1
    <3>3. a[1] = b[1]
      BY <2>1, <3>2
    <3> QED BY <2>1, <3>2, <3>3
  <2>8. \A p \in JobRecords' : f[<<p[1] + 1, p[2]>>] = p
    BY <2>4, <2>5
  <2> HIDE DEF f
  <2>9. f \in Bijection(rest, JobRecords')
    BY <2>4, <2>6, <2>7, <2>8, Fun_IsBij
  <2> QED BY <2>9, Fun_ExistsBij
<1>8. /\ IsFiniteSet(JobRecords')
      /\ Cardinality(JobRecords') = Cardinality(JobRecords) - Cardinality(kvs')
  <2> HIDE DEF rest
  <2> QED BY <1>6, <1>7, FS_Bijection
<1>9. FiniteOK' /\ WritingOK'
  BY <1>1, <1>3, <1>5, <1>8 DEF FiniteOK, WritingOK
<1>10. ToWrite = 0 /\ ToWrite' = Cardinality(kvs')
  BY <1>1 DEF ToWrite
<1>11. Cardinality(kvs') \in Nat /\ Cardinality(JobRecords') \in Nat
  BY <1>5, <1>8, FS_CardinalityType
<1>12. SlotsOK'
  BY <1>1, <1>8, <1>10, <1>11, SlotNumbers, DBRecoveryAssumption DEF SlotInv, SlotsOK
<1>13. FreeToCome' = FreeToCome
  BY <1>1, <1>8, <1>10, <1>11, SlotNumbers DEF FreeToCome
<1> QED BY <1>9, <1>12, <1>13 DEF SlotInv

\* A value is written, and its slot is free.
LEMMA DumpSlots ==
  ASSUME TypeInv, SlotInv, DumpKeys \/ DumpRecord
  PROVE  SlotInv' /\ FreeToCome' = FreeToCome
<1> DEFINE file == files[all_records + 1]
<1>1. /\ UNCHANGED <<jobs, memtables, pc, kvs, all_records>>
      /\ IsFiniteSet(memtables) /\ IsFiniteSet(JobRecords) /\ IsFiniteSet(kvs)
  BY DEF DumpKeys, DumpRecord, mainVars, SlotInv, FiniteOK
<1>2. JobRecords' = JobRecords /\ FiniteOK'
  BY <1>1 DEF JobRecords, FiniteOK
<1>3. CASE DumpKeys
  <2>1. dumper = "keys" /\ dumper' = "append" /\ slots' = slots
    BY <1>3 DEF DumpKeys
  <2>2. file' = [kvs |-> kvs, values |-> 0]
    BY <1>1, <1>3, <2>1, FileTypes
  <2>3. Cardinality(kvs) > 0
    BY <1>1, <2>1, SlotNumbers, FS_EmptySet DEF TypeInv, JobsNotEmpty
  <2>4. WritingOK'
    BY <1>1, <2>2, <2>3 DEF WritingOK
  <2>5. ToWrite = Cardinality(kvs) /\ ToWrite' = Cardinality(kvs)
    BY <1>1, <2>1, <2>2, SlotNumbers DEF ToWrite
  <2>6. SlotsOK'
    BY <1>1, <1>2, <2>1, <2>5 DEF SlotInv, SlotsOK
  <2> QED BY <1>2, <2>1, <2>4, <2>5, <2>6 DEF SlotInv, FreeToCome
<1>4. CASE DumpRecord
  <2>1. dumper = "append" /\ slots' = slots + 1
    BY <1>4 DEF DumpRecord
  <2>2. file' = [file EXCEPT !.values = @ + 1]
    BY <1>1, <1>4, <2>1, FileTypes
  <2>3. file.kvs = kvs /\ file.values \in Nat /\ file.values < Cardinality(kvs)
    BY <2>1, SlotNumbers DEF SlotInv, WritingOK
  <2>4. file \in [kvs : SUBSET Records, values : Nat]
    <3>1. files \in Seq([kvs : SUBSET Records, values : Nat]) /\ all_records + 1 \in 1 .. Len(files)
      BY <2>1, LenProperties DEF TypeInv, DiskOK, DumperOK
    <3> QED BY <3>1, ElementOfSeq
  <2>5. file'.kvs = kvs' /\ file'.values = file.values + 1
    BY <1>1, <2>2, <2>3, <2>4
  <2>6. dumper' = IF file'.values = Cardinality(kvs) THEN "truncate" ELSE "append"
    BY <1>1, <1>4 DEF DumpRecord, FileNo
  <2>7. WritingOK'
    BY <1>1, <2>3, <2>5, <2>6, SlotNumbers DEF WritingOK
  <2>8. ToWrite = Cardinality(kvs) - file.values /\ ToWrite' = ToWrite - 1
    BY <1>1, <2>1, <2>3, <2>5, <2>6, SlotNumbers DEF ToWrite
  <2>9. SlotsOK'
    BY <1>1, <1>2, <2>1, <2>8, SlotNumbers DEF SlotInv, SlotsOK
  <2>10. FreeToCome' = FreeToCome
    BY <1>2, <2>1, <2>8, SlotNumbers DEF FreeToCome
  <2> QED BY <1>2, <2>7, <2>9, <2>10 DEF SlotInv
<1> QED BY <1>3, <1>4

LEMMA SlotInvStep == TypeInv /\ SlotInv /\ [Next]_vars => SlotInv'
<1> SUFFICES ASSUME TypeInv, SlotInv, [Next]_vars PROVE SlotInv'
  OBVIOUS
<1> USE DEF diskVars, mainVars, dumpVars, ghostVars
<1>1. CASE Boot \/ Crash \/ Abort
  <2>1. /\ memtables' = {} /\ kvs' = {} /\ jobs' = << >> /\ dumper' \in {"off", "take"}
        /\ pc' # "recover" /\ slots' \in {0, RECORD_BUFF_SIZE}
    BY <1>1 DEF Boot, Crash, Abort, Dies, TypeInv, DownIsEmpty
  <2>2. JobRecords' = {}
    BY <2>1 DEF JobRecords
  <2>3. FiniteOK' /\ Cardinality(memtables') = 0 /\ Cardinality(JobRecords') = 0
    BY <2>1, <2>2, FS_EmptySet DEF FiniteOK
  <2>4. SlotsOK'
    BY <2>1, <2>3, DBRecoveryAssumption DEF SlotsOK, ToWrite
  <2> QED BY <2>1, <2>3, <2>4 DEF SlotInv, WritingOK
<1>2. CASE TruncateManifist \/ WriteManifist \/ EndDumping
  <2>1. /\ UNCHANGED <<slots, memtables, pc, jobs>>
        /\ dumper \notin {"keys", "append"} /\ dumper' \notin {"keys", "append"}
        /\ kvs' \in {kvs, {}}
    BY <1>2 DEF TruncateManifist, WriteManifist, EndDumping
  <2>2. JobRecords' = JobRecords /\ ToWrite = 0 /\ ToWrite' = 0
    BY <2>1 DEF JobRecords, ToWrite
  <2>3. FiniteOK' /\ WritingOK'
    BY <2>1, <2>2, FS_EmptySet DEF SlotInv, FiniteOK, WritingOK
  <2>4. SlotsOK'
    BY <2>1, <2>2 DEF SlotInv, SlotsOK
  <2> QED BY <2>3, <2>4 DEF SlotInv
<1>3. CASE UNCHANGED vars
  <2>1. UNCHANGED <<slots, memtables, pc, jobs, dumper, kvs, files, all_records>>
    BY <1>3 DEF vars
  <2>2. JobRecords' = JobRecords /\ ToWrite' = ToWrite
    BY <2>1 DEF JobRecords, ToWrite
  <2> QED BY <2>1, <2>2 DEF SlotInv, FiniteOK, SlotsOK, WritingOK
<1>4. CASE SubmitDump \/ TakeJob \/ DumpKeys \/ DumpRecord
  BY <1>4, SubmitSlots, TakeJobSlots, DumpSlots
<1>5. CASE \/ OpenLog \/ ReadRecord \/ ReadEnd \/ Recover \/ OpenAppend \/ LogRecord \/ Cache
           \/ CloseLog \/ RenameLog \/ ReopenLog
  BY <1>5, MainSlots
<1> QED BY <1>1, <1>2, <1>3, <1>4, <1>5 DEF Next, InitStep, SwitchStep, DumperStep

LEMMA TypesAndSlots == Spec => [](TypeInv /\ SlotInv)
<1>1. Init => TypeInv /\ SlotInv
  BY InitTypeInv, InitSlotInv
<1>2. TypeInv /\ SlotInv /\ [Next]_vars => (TypeInv /\ SlotInv)'
  BY TypeInvStep, SlotInvStep
<1> QED BY <1>1, <1>2, PTL DEF Spec

\* Every variable has its type through every crash and restart; in particular
\* the cache never has more free slots than RECORD_BUFF_SIZE, so that no step of
\* a replay, a write or a dump gives back a slot that it did not take, and the
\* manifest never lists a file that is not there.
THEOREM TypesAreRight == Spec => []TypeOK
<1>1. TypeInv /\ SlotInv => TypeOK
  <2>1. SUFFICES ASSUME TypeInv, SlotInv PROVE TypeOK
    OBVIOUS
  <2>2. DiskOK /\ MainOK /\ DumperOK /\ GhostOK
    BY <2>1 DEF TypeInv
  <2>3. \A i \in DOMAIN files : files[i].kvs \subseteq Records /\ files[i].values \in Nat
    <3>1. SUFFICES ASSUME NEW i \in DOMAIN files
                   PROVE  files[i].kvs \subseteq Records /\ files[i].values \in Nat
      OBVIOUS
    <3>2. files[i] \in [kvs : SUBSET Records, values : Nat]
      BY <2>2, ElementOfSeq, LenProperties DEF DiskOK
    <3> QED BY <3>2
  <2>4. slots \in 0 .. RECORD_BUFF_SIZE
    BY <2>1, SlotNumbers, DBRecoveryAssumption
  <2> QED BY <2>2, <2>3, <2>4 DEF TypeOK, DiskOK, MainOK, DumperOK, GhostOK
<1> QED BY <1>1, TypesAndSlots, PTL

-----------------------------------------------------------------------------
(* The files that the manifest lists                                       *)

\* A dump writes to no listed file, and is done with the file when all is there.
LEMMA DumpKeepsFiles ==
  ASSUME TypeInv, SlotInv, FilesInv, DumpKeys \/ DumpRecord
  PROVE  FilesInv'
<1> DEFINE file == files[all_records + 1]
<1>1. /\ UNCHANGED <<manifist, all_records, kvs>>
      /\ dumper \in {"keys", "append"} /\ dumper' \in {"append", "truncate"}
  BY DEF DumpKeys, DumpRecord, ghostVars
<1>2. /\ all_records \in 0 .. Len(files) /\ Len(files) \in Nat /\ manifist \in Nat
      /\ manifist <= all_records
      /\ \A n \in 0 .. all_records - 1 : Complete(n)
  BY <1>1, LenProperties DEF TypeInv, DiskOK, DumperOK, FilesInv
<1>3. \A n \in 0 .. Len(files) - 1 : n # all_records => files'[n + 1] = files[n + 1]
  BY FileTypes
<1>4. \A n \in 0 .. all_records - 1 : Complete(n)'
  <2>1. SUFFICES ASSUME NEW n \in 0 .. all_records - 1 PROVE Complete(n)'
    OBVIOUS
  <2>2. n \in 0 .. Len(files) - 1 /\ n # all_records
    BY <1>2, <2>1
  <2>3. files'[n + 1] = files[n + 1]
    BY <1>3, <2>2
  <2> QED BY <1>2, <2>1, <2>3 DEF Complete
<1>5. dumper' = "truncate" => Complete(all_records)'
  <2>1. SUFFICES ASSUME dumper' = "truncate" PROVE Complete(all_records)'
    OBVIOUS
  <2>2. DumpRecord /\ dumper = "append"
    BY <2>1 DEF DumpKeys, DumpRecord
  <2>3. file' = [file EXCEPT !.values = @ + 1]
    BY <1>1, <2>2, FileTypes
  <2>4. file.kvs = kvs
    BY <2>2 DEF SlotInv, WritingOK
  <2>5. file \in [kvs : SUBSET Records, values : Nat]
    <3>1. files \in Seq([kvs : SUBSET Records, values : Nat]) /\ all_records + 1 \in 1 .. Len(files)
      BY <2>2, LenProperties DEF TypeInv, DiskOK, DumperOK
    <3> QED BY <3>1, ElementOfSeq
  <2>6. file'.kvs = kvs
    BY <2>3, <2>4, <2>5
  <2>7. file'.values = Cardinality(kvs)
    BY <1>1, <2>1, <2>2 DEF DumpRecord, FileNo
  <2> QED BY <1>1, <2>6, <2>7 DEF Complete
<1>6. \A n \in 0 .. manifist' - 1 : Complete(n)'
  BY <1>1, <1>2, <1>4
<1>7. dumper' # "off" => manifist' <= all_records' /\ \A n \in 0 .. all_records' - 1 : Complete(n)'
  BY <1>1, <1>2, <1>4
<1> QED BY <1>1, <1>5, <1>6, <1>7 DEF FilesInv

LEMMA FilesInvStep == TypeInv /\ SlotInv /\ FilesInv /\ [Next]_vars => FilesInv'
<1> SUFFICES ASSUME TypeInv, SlotInv, FilesInv, [Next]_vars PROVE FilesInv'
  OBVIOUS
<1>0. /\ manifist \in Nat /\ all_records \in Nat
      /\ \A n \in 0 .. manifist - 1 : Complete(n)
      /\ dumper # "off" => manifist <= all_records /\ \A n \in 0 .. all_records - 1 : Complete(n)
      /\ dumper \in {"truncate", "manifest"} => Complete(all_records)
  BY LenProperties DEF TypeInv, DiskOK, DumperOK, FilesInv
<1> USE DEF diskVars, mainVars, dumpVars, ghostVars
<1>1. CASE Boot
  <2>1. all_records' = manifist /\ manifist' = manifist /\ files' = files /\ dumper' = "take"
    BY <1>1 DEF Boot
  <2> QED BY <1>0, <2>1 DEF FilesInv, Complete
<1>2. CASE Crash \/ Abort
  <2>1. manifist' = manifist /\ files' = files /\ dumper' = "off"
    BY <1>2 DEF Crash, Abort, Dies
  <2> QED BY <1>0, <2>1 DEF FilesInv, Complete
<1>3. CASE DumpKeys \/ DumpRecord
  BY <1>3, DumpKeepsFiles
<1>4. CASE TruncateManifist
  <2>1. /\ manifist' = 0 /\ files' = files /\ all_records' = all_records
        /\ dumper = "truncate" /\ dumper' = "manifest"
    BY <1>4 DEF TruncateManifist
  <2>2. \A n \in 0 .. manifist' - 1 : Complete(n)'
    BY <2>1
  <2>3. \A n \in 0 .. all_records' - 1 : Complete(n)'
    BY <1>0, <2>1 DEF Complete
  <2>4. Complete(all_records)'
    BY <1>0, <2>1 DEF Complete
  <2> QED BY <1>0, <2>1, <2>2, <2>3, <2>4 DEF FilesInv
<1>5. CASE WriteManifist
  <2>1. /\ files' = files /\ all_records' = all_records + 1
        /\ manifist' \in {manifist, all_records + 1}
        /\ dumper = "manifest" /\ dumper' = "end"
    BY <1>5 DEF WriteManifist
  <2>2. \A n \in 0 .. all_records : Complete(n)'
    <3>1. SUFFICES ASSUME NEW n \in 0 .. all_records PROVE Complete(n)'
      OBVIOUS
    <3>2. Complete(n)
      <4>1. CASE n = all_records
        BY <1>0, <2>1, <4>1
      <4>2. CASE n # all_records
        <5>1. n \in 0 .. all_records - 1
          BY <1>0, <3>1, <4>2
        <5> QED BY <1>0, <2>1, <5>1
      <4> QED BY <4>1, <4>2
    <3> QED BY <2>1, <3>2 DEF Complete
  <2>3. manifist \in Nat /\ all_records \in Nat /\ manifist <= all_records
    BY <1>0, <2>1
  <2>4. manifist' \in Nat /\ manifist' <= all_records + 1 /\ all_records' = all_records + 1
    BY <2>1, <2>3
  <2>5. \A n \in 0 .. manifist' - 1 : Complete(n)'
    <3>1. SUFFICES ASSUME NEW n \in 0 .. manifist' - 1 PROVE Complete(n)'
      OBVIOUS
    <3>2. CASE manifist' = manifist
      <4>1. n \in 0 .. manifist - 1
        BY <3>1, <3>2
      <4>2. n \in 0 .. all_records
        BY <2>3, <4>1
      <4> QED BY <2>2, <4>2
    <3>3. CASE manifist' = all_records + 1
      <4>1. n \in 0 .. (all_records + 1) - 1
        BY <3>1, <3>3
      <4>2. n \in 0 .. all_records
        BY <2>3, <4>1
      <4> QED BY <2>2, <4>2
    <3> QED BY <2>1, <3>2, <3>3
  <2>6. \A n \in 0 .. all_records' - 1 : Complete(n)'
    <3>1. SUFFICES ASSUME NEW n \in 0 .. all_records' - 1 PROVE Complete(n)'
      OBVIOUS
    <3>2. n \in 0 .. all_records
      BY <2>3, <2>4, <3>1
    <3> QED BY <2>2, <3>2
  <2> QED BY <2>1, <2>4, <2>5, <2>6 DEF FilesInv
<1>6. CASE \/ OpenLog \/ ReadRecord \/ ReadEnd \/ Recover \/ OpenAppend \/ LogRecord \/ Cache
           \/ SwitchStep \/ TakeJob \/ EndDumping \/ UNCHANGED vars
  <2>1. /\ manifist' = manifist /\ files' = files /\ all_records' = all_records
        /\ dumper' = dumper \/ (dumper # "off" /\ dumper' \in {"keys", "take"})
    BY <1>6 DEF OpenLog, ReadRecord, ReadEnd, Recover, OpenAppend, LogRecord, Cache, SwitchStep,
      CloseLog, RenameLog, ReopenLog, SubmitDump, TakeJob, EndDumping, vars
  <2> QED BY <1>0, <2>1 DEF FilesInv, Complete
<1> QED BY <1>1, <1>2, <1>3, <1>4, <1>5, <1>6 DEF Next, InitStep, DumperStep

\* A file that the manifest lists has all its values, and keeps them: a dump
\* lists its file only when its last value is written, and the files it writes
\* to are none of the listed ones, after whatever crashes and restarts.
THEOREM ListedFilesAreComplete == Spec => []ListedAreComplete
<1>1. Init => FilesInv
  BY DEF Init, FilesInv
<1>2. FilesInv => ListedAreComplete
  BY DEF FilesInv, Complete, ListedAreComplete, FileRecords
<1> QED BY <1>1, <1>2, FilesInvStep, TypesAndSlots, PTL DEF Spec

-----------------------------------------------------------------------------
(* What was acknowledged survives.  The invariant follows a promised       *)
(* record from the hot log through the died log and the job to a file, and *)
(* back through the replays after every crash.                             *)

\* The records of a log, if it is there.
Held(log) == ToSet(log) \cap Records

\* Records whose write has returned, or cannot but return.
Promised == acked \cup
  (IF phase = "write" /\ pc \in {"close", "rename", "reopen", "submit"} THEN {gather} ELSE {})

Covers(S, r) == \E x \in S : x.key = r.key /\ x.id >= r.id

\* The records that need no log any more.
Safe == (UNION {FileRecords(n) : n \in Listed}) \cup damaged

\* A dump is on its way, or will be in the next steps of the main thread.
Busy     == jobs # << >> \/ dumper \notin {"off", "take"}
Switched == phase # "died" /\ pc \in {"reopen", "submit"}

\* The records that the dumps on their way will bring to files.
Due == kvs \cup (UNION ToSet(jobs)) \cup (IF Switched THEN memtables ELSE {})

\* The hot log is under replay, from the descriptor it was opened with.
Fetching == phase = "hot" /\ (pc = "recover" \/ (pc = "read" /\ curr_log_fd = "read"))

\* The dumper's file holds the job, which is in a listed file at the end.
KvsInv ==
  /\ dumper \in {"truncate", "manifest"} => files[all_records + 1].kvs = kvs
  /\ dumper = "end" => kvs \subseteq Safe
  /\ dumper \in {"off", "take"} => kvs = {}

\* What the place of the main thread says of the logs.
LogsInv ==
  /\ pc \in {"down", "open", "append"} \/ phase = "write" => replay = << >>
  /\ phase = "died" /\ pc \in {"down", "open"} => memtables = {}
  /\ pc \in {"close", "rename", "reopen"} => phase # "died"
  /\ pc = "reopen" => hot_log = Absent
  /\ phase # "died" /\ pc = "submit" => hot_log = << >> /\ curr_log_fd = "append"
  /\ phase = "hot" /\ pc \in {"read", "recover", "close", "rename"} => hot_log # Absent
  /\ Fetching => ToSet(replay) \subseteq Held(hot_log)
  /\ phase = "write" /\ pc \in {"cache", "close", "rename"} => gather \in Held(hot_log)

Ascending(s) == \A i, j \in DOMAIN s : i < j => s[i].id < s[j].id
Below(S, T)  == \A x \in S, y \in T : x.id < y.id

\* Records come in the order of their writes: in a log, from the died log to the
\* hot one, and from the memtables to what is still to be replayed.
OrderInv ==
  /\ \A x \in Held(hot_log) \cup Held(died_log) \cup memtables \cup ToSet(replay) \cup Promised :
       x.id <= written
  /\ Ascending(hot_log) /\ Ascending(died_log) /\ Ascending(replay)
  /\ Below(Held(died_log), Held(hot_log))
  /\ Below(memtables, ToSet(replay))
  /\ phase = "died" \/ (phase = "hot" /\ pc = "open") =>
       Below(memtables \cup ToSet(replay), Held(hot_log))
  /\ pc = "cache" => Below(memtables, {gather})

\* Each record of the hot log that was replayed or written has taken a slot.
CountInv ==
  /\ Fetching => FreeToCome + Len(hot_log) - Len(replay) + (IF pc = "recover" THEN 1 ELSE 0)
                   <= RECORD_BUFF_SIZE
  /\ pc \in {"append", "ready", "cache"} /\ hot_log # Absent =>
       FreeToCome + Len(hot_log) <= RECORD_BUFF_SIZE + (IF pc = "cache" THEN 1 ELSE 0)

\* So what was promised is among the first records of its log.
FirstInv ==
  /\ \A i \in DOMAIN hot_log : hot_log[i] \in Promised => i <= RECORD_BUFF_SIZE
  /\ \A i \in DOMAIN died_log : died_log[i] \in Promised => i <= RECORD_BUFF_SIZE

\* What was promised in the hot log is still to be replayed, or in the memtables.
HotInv ==
  (phase = "hot" /\ pc # "open") \/ phase = "write" =>
    \A r \in Promised \cap Held(hot_log) :
      r \in ToSet(replay) \/ Covers(memtables \cap Held(hot_log), r)

\* The replay of the died log, up to its first job and after it.
FirstReplay ==
  /\ died_log # Absent /\ Len(replay) <= Len(died_log)
  /\ slots + Len(died_log) - Len(replay) + (IF pc = "recover" THEN 1 ELSE 0) = RECORD_BUFF_SIZE
  /\ pc = "submit" => slots = 0
  /\ \A i \in DOMAIN replay : replay[i] = died_log[Len(died_log) - Len(replay) + i]
  /\ \A r \in Promised \cap Held(died_log) :
       r \in ToSet(replay) \/ Covers(memtables \cap Held(died_log), r)

DiedInv ==
  phase = "died" =>
    /\ pc \in {"down", "open"} => died_jobs = 0
    /\ pc = "open" => slots = RECORD_BUFF_SIZE
    /\ died_jobs = 0 => ~ Busy
    /\ died_jobs = 0 /\ pc \in {"read", "recover", "submit"} => FirstReplay
    /\ died_jobs # 0 => /\ ToSet(replay) \cap Promised = {}
                        /\ ~ Busy => died_log = Absent

\* There is one dump at a time, unless the died log had several jobs.
GateInv ==
  /\ died_jobs \in Nat
  /\ died_jobs <= 1 =>
       /\ died_log = Absent => ~ Busy
       /\ Len(jobs) <= 1
       /\ dumper \notin {"off", "take"} => jobs = << >>
       /\ Switched => ~ Busy /\ died_log # Absent

\* What was promised in the died log was never read, or is on its way to a file,
\* or arrived.
JobInv ==
  Busy \/ Switched =>
    \A r \in Promised \cap Held(died_log) :
      r \in unread \/ Covers(Safe, r) \/ Covers(Held(died_log) \cap Due, r)

KeptInv ==
  \A r \in Promised : r \in Held(hot_log) \cup Held(died_log) \/ Covers(Safe, r)

-----------------------------------------------------------------------------
(* Logs, promises and files from step to step                              *)

LEMMA RecordIds ==
  /\ \A x \in Records : x.id \in Nat /\ x.id >= 1
  /\ NoRecord \notin Records
BY DBRecoveryAssumption DEF Records, NoRecord

LEMMA LogRecords ==
  ASSUME NEW log \in Seq(Records)
  PROVE  /\ Held(log) = ToSet(log) /\ log # Absent
         /\ DOMAIN log = 1 .. Len(log) /\ Len(log) \in Nat
         /\ \A i \in 1 .. Len(log) : log[i] \in Records
<1>1. /\ DOMAIN log = 1 .. Len(log) /\ Len(log) \in Nat
      /\ \A i \in 1 .. Len(log) : log[i] \in Records
  BY ElementOfSeq, LenProperties
<1>2. log # Absent
  <2>1. SUFFICES ASSUME log = Absent PROVE FALSE
    OBVIOUS
  <2>2. Len(log) = 1 /\ log[1] = NoRecord
    BY <2>1 DEF Absent
  <2> QED BY <1>1, <2>2, RecordIds
<1> QED BY <1>1, <1>2 DEF Held, ToSet

LEMMA AbsentHolds == Held(Absent) = {} /\ DOMAIN Absent = {1} /\ Absent[1] \notin Records
<1>1. DOMAIN Absent = {1} /\ Absent[1] = NoRecord
  BY DEF Absent
<1> QED BY <1>1, RecordIds DEF Held, ToSet

LEMMA PromisedType == TypeInv => Promised \subseteq Records
BY DEF TypeInv, GhostOK, PhaseOK, Promised

\* Only a write that has got its place promises.
LEMMA PromisedStep ==
  ASSUME TypeInv, LogsInv, [Next]_vars
  PROVE  /\ Promised' \subseteq Promised \cup {gather}
         /\ ~ Cache => Promised' \subseteq Promised
<1> USE DEF mainVars, ghostVars, Promised
<1>0. PhaseOK
  BY DEF TypeInv
<1>1. CASE Cache
  BY <1>1, <1>0 DEF Cache, Return, PhaseOK
<1>2. CASE SubmitDump
  BY <1>2 DEF SubmitDump, Return
<1>3. CASE Boot \/ OpenLog \/ ReadRecord \/ ReadEnd \/ OpenAppend
  BY <1>3 DEF Boot, OpenLog, ReadRecord, ReadEnd, OpenAppend, NextLog
<1>4. CASE Recover \/ Crash \/ Abort \/ LogRecord
  <2>1. acked' = acked /\ (phase' # "write" \/ pc' = "cache")
    BY <1>0, <1>4 DEF Recover, Crash, Abort, Dies, LogRecord, PhaseOK
  <2> QED BY <2>1
<1>5. CASE CloseLog \/ RenameLog \/ ReopenLog
  BY <1>5 DEF CloseLog, RenameLog, ReopenLog
<1>6. CASE DumperStep
  <2>1. UNCHANGED <<acked, phase, pc, gather>>
    BY <1>6 DEF DumperStep, TakeJob, DumpKeys, DumpRecord, TruncateManifist, WriteManifist, EndDumping
  <2> QED BY <2>1
<1>7. CASE UNCHANGED vars
  BY <1>7 DEF vars
<1> QED BY <1>1, <1>2, <1>3, <1>4, <1>5, <1>6, <1>7 DEF Next, InitStep, SwitchStep

\* A record that is safe stays so.
LEMMA SafeGrows ==
  ASSUME TypeInv, SlotInv, FilesInv, [Next]_vars
  PROVE  Safe \subseteq Safe'
<1>0. /\ manifist \in Nat /\ all_records \in Nat /\ Len(files) \in Nat
      /\ manifist <= Len(files) /\ all_records <= Len(files)
      /\ dumper # "off" => manifist <= all_records
  BY LenProperties DEF TypeInv, DiskOK, DumperOK, FilesInv
<1> USE DEF diskVars, mainVars, dumpVars, ghostVars
<1>a. ASSUME damaged \subseteq damaged',
             \A n \in Listed : FileRecords(n) \subseteq damaged'
                               \/ (n \in Listed' /\ files'[n + 1] = files[n + 1])
      PROVE  Safe \subseteq Safe'
  BY <1>a DEF Safe, FileRecords
<1>1. CASE DumpKeys \/ DumpRecord
  <2>1. /\ UNCHANGED <<manifist, damaged>>
        /\ dumper \in {"keys", "append"} /\ dumper' \in {"append", "truncate"}
    BY <1>1 DEF DumpKeys, DumpRecord
  <2>2. Listed = 0 .. manifist - 1 /\ Listed' = 0 .. manifist - 1 /\ manifist <= all_records
    BY <1>0, <2>1 DEF Listed
  <2>3. \A n \in 0 .. manifist - 1 : n \in 0 .. Len(files) - 1 /\ n # all_records
    BY <1>0, <2>2
  <2>4. \A n \in 0 .. manifist - 1 : files'[n + 1] = files[n + 1]
    BY <1>1, <2>3, FileTypes
  <2> QED BY <1>a, <2>1, <2>2, <2>4
<1>2. CASE TruncateManifist
  <2>1. UNCHANGED <<files, all_records, damaged>> /\ dumper = "truncate" /\ dumper' = "manifest"
    BY <1>2 DEF TruncateManifist
  <2>2. Listed = 0 .. manifist - 1 /\ Listed' = 0 .. all_records - 1 /\ manifist <= all_records
    BY <1>0, <2>1 DEF Listed
  <2>3. Listed \subseteq Listed'
    BY <1>0, <2>2
  <2> QED BY <1>a, <2>1, <2>3
<1>3. CASE WriteManifist
  <2>1. /\ files' = files /\ all_records' = all_records + 1 /\ dumper = "manifest" /\ dumper' = "end"
        /\ \/ manifist' = all_records + 1 /\ damaged' = damaged
           \/ damaged' = damaged \cup UNION {FileRecords(n) : n \in 0 .. all_records}
    BY <1>3 DEF WriteManifist
  <2>2. Listed = 0 .. all_records - 1 /\ Listed' = 0 .. manifist' - 1
    BY <2>1 DEF Listed
  <2>3. CASE manifist' = all_records + 1 /\ damaged' = damaged
    <3>1. Listed \subseteq Listed'
      BY <1>0, <2>2, <2>3
    <3> QED BY <1>a, <2>1, <2>3, <3>1
  <2>4. CASE damaged' = damaged \cup UNION {FileRecords(n) : n \in 0 .. all_records}
    <3>1. Listed \subseteq 0 .. all_records
      BY <1>0, <2>2
    <3> QED BY <1>a, <2>4, <3>1
  <2> QED BY <2>1, <2>3, <2>4
<1>4. CASE EndDumping
  <2>1. /\ UNCHANGED <<files, manifist, all_records>> /\ damaged \subseteq damaged'
        /\ dumper = "end" /\ dumper' = "take"
    BY <1>4 DEF EndDumping
  <2>2. Listed' = Listed
    BY <2>1 DEF Listed
  <2> QED BY <1>a, <2>1, <2>2
<1>5. CASE Crash \/ Abort
  <2>1. /\ UNCHANGED <<files, manifist>> /\ dumper' = "off"
        /\ damaged' = damaged \cup
             (IF dumper = "manifest" THEN UNION {FileRecords(n) : n \in 0 .. all_records - 1} ELSE {})
    BY <1>5 DEF Crash, Abort, Dies
  <2>2. CASE dumper = "manifest"
    <3>1. Listed = 0 .. all_records - 1
      BY <2>2 DEF Listed
    <3> QED BY <1>a, <2>1, <2>2, <3>1
  <2>3. CASE dumper # "manifest"
    <3>1. Listed' = Listed
      BY <2>1, <2>3 DEF Listed
    <3> QED BY <1>a, <2>1, <3>1
  <2> QED BY <2>2, <2>3
<1>6. CASE \/ (InitStep /\ ~ Abort) \/ LogRecord \/ Cache \/ SwitchStep \/ TakeJob \/ UNCHANGED vars
  <2>1. /\ UNCHANGED <<files, manifist, damaged>>
        /\ \/ UNCHANGED <<all_records, dumper>>
           \/ dumper # "manifest" /\ dumper' # "manifest"
    BY <1>6 DEF InitStep, Boot, OpenLog, ReadRecord, ReadEnd, Recover, OpenAppend, LogRecord, Cache,
      SwitchStep, CloseLog, RenameLog, ReopenLog, SubmitDump, TakeJob, vars, TypeInv, DownOK
  <2>2. Listed' = Listed
    BY <2>1 DEF Listed
  <2> QED BY <1>a, <2>1, <2>2
<1> QED BY <1>1, <1>2, <1>3, <1>4, <1>5, <1>6 DEF Next, InitStep, DumperStep

LEMMA KvsStep ==
  ASSUME TypeInv, SlotInv, FilesInv, KvsInv, [Next]_vars
  PROVE  KvsInv'
<1>0. Safe \subseteq Safe' /\ all_records \in Nat
  BY SafeGrows, LenProperties DEF TypeInv, DiskOK, DumperOK
<1> USE DEF diskVars, mainVars, dumpVars, ghostVars
<1>1. CASE TakeJob \/ DumpKeys
  <2>1. dumper' \in {"keys", "append"}
    BY <1>1 DEF TakeJob, DumpKeys
  <2> QED BY <2>1 DEF KvsInv
<1>2. CASE DumpRecord
  <2> DEFINE file == files[all_records + 1]
  <2>1. /\ dumper = "append" /\ dumper' \in {"append", "truncate"}
        /\ UNCHANGED <<kvs, all_records>>
    BY <1>2 DEF DumpRecord
  <2>2. file' = [file EXCEPT !.values = @ + 1]
    BY <1>2, <2>1, FileTypes
  <2>3. file.kvs = kvs
    BY <2>1 DEF SlotInv, WritingOK
  <2>4. file \in [kvs : SUBSET Records, values : Nat]
    <3>1. files \in Seq([kvs : SUBSET Records, values : Nat]) /\ all_records + 1 \in 1 .. Len(files)
      BY <2>1, LenProperties DEF TypeInv, DiskOK, DumperOK
    <3> QED BY <3>1, ElementOfSeq
  <2>5. file'.kvs = kvs'
    BY <2>1, <2>2, <2>3, <2>4
  <2> QED BY <2>1, <2>5 DEF KvsInv
<1>3. CASE TruncateManifist
  BY <1>3 DEF TruncateManifist, KvsInv
<1>4. CASE WriteManifist
  <2>1. /\ files' = files /\ kvs' = kvs /\ all_records' = all_records + 1
        /\ dumper = "manifest" /\ dumper' = "end"
        /\ \/ manifist' = all_records + 1
           \/ damaged' = damaged \cup UNION {FileRecords(n) : n \in 0 .. all_records}
    BY <1>4 DEF WriteManifist
  <2>2. FileRecords(all_records) = kvs
    BY <2>1 DEF KvsInv, FileRecords
  <2>3. CASE manifist' = all_records + 1
    <3>1. all_records \in Listed'
      BY <1>0, <2>1, <2>3 DEF Listed
    <3>2. kvs \subseteq Safe'
      BY <2>1, <2>2, <3>1 DEF Safe, FileRecords
    <3> QED BY <2>1, <3>2 DEF KvsInv
  <2>4. CASE damaged' = damaged \cup UNION {FileRecords(n) : n \in 0 .. all_records}
    <3>1. all_records \in 0 .. all_records
      BY <1>0
    <3>2. kvs \subseteq Safe'
      BY <2>2, <2>4, <3>1 DEF Safe
    <3> QED BY <2>1, <3>2 DEF KvsInv
  <2> QED BY <2>1, <2>3, <2>4
<1>5. CASE EndDumping \/ Crash \/ Abort \/ Boot
  <2>1. dumper' \in {"off", "take"} /\ kvs' = {}
    BY <1>5 DEF EndDumping, Crash, Abort, Dies, Boot, TypeInv, DownIsEmpty
  <2> QED BY <2>1 DEF KvsInv
<1>6. CASE \/ OpenLog \/ ReadRecord \/ ReadEnd \/ Recover \/ OpenAppend \/ LogRecord \/ Cache
           \/ SwitchStep \/ UNCHANGED vars
  <2>1. UNCHANGED <<dumper, kvs, all_records, files>>
    BY <1>6 DEF OpenLog, ReadRecord, ReadEnd, Recover, OpenAppend, LogRecord, Cache, SwitchStep,
      CloseLog, RenameLog, ReopenLog, SubmitDump, vars
  <2> QED BY <1>0, <2>1 DEF KvsInv
<1> QED BY <1>1, <1>2, <1>3, <1>4, <1>5, <1>6 DEF Next, InitStep, DumperStep

\* Which records the logs hold after a step.
LEMMA HeldStep ==
  ASSUME TypeInv, LogsInv, [Next]_vars
  PROVE  /\ ~ LogRecord /\ ~ RenameLog => Held(hot_log)' = Held(hot_log)
         /\ LogRecord => Held(hot_log)' = Held(hot_log) \cup {gather'} /\ gather' \in Records
         /\ RenameLog => /\ Held(hot_log)' = {} /\ Held(died_log) = {}
                         /\ Held(died_log)' = Held(hot_log)
         /\ EndDumping => Held(died_log)' = {}
         /\ ~ RenameLog /\ ~ EndDumping => died_log' = died_log
<1> USE DEF diskVars, mainVars, dumpVars, ghostVars
<1>0. DiskOK /\ MainOK /\ PhaseOK /\ LogIsOpen /\ GhostOK
  BY DEF TypeInv
<1>1. CASE LogRecord
  <2>1. phase = "write" /\ hot_log \in Seq(Records) /\ died_log' = died_log
    BY <1>0, <1>1 DEF LogRecord, PhaseOK, LogIsOpen
  <2>2. gather' \in Records
    BY <1>1, WriteTypes DEF LogRecord, TypeInv, PhaseOK
  <2>3. hot_log' = Append(hot_log, gather')
    BY <1>1 DEF LogRecord
  <2>4. ToSet(hot_log') = ToSet(hot_log) \cup {gather'}
    <3>1. /\ DOMAIN hot_log' = 1 .. Len(hot_log) + 1 /\ DOMAIN hot_log = 1 .. Len(hot_log)
          /\ Len(hot_log) \in Nat
          /\ \A i \in 1 .. Len(hot_log) : hot_log'[i] = hot_log[i]
          /\ hot_log'[Len(hot_log) + 1] = gather'
      BY <2>1, <2>2, <2>3, AppendProperties, LenProperties
    <3> QED BY <3>1 DEF ToSet
  <2>5. Held(hot_log)' = Held(hot_log) \cup {gather'}
    BY <2>2, <2>4 DEF Held
  <2>6. ~ RenameLog /\ ~ EndDumping
    BY <1>1 DEF LogRecord, RenameLog, EndDumping
  <2> QED BY <1>1, <2>1, <2>2, <2>5, <2>6
<1>2. CASE RenameLog
  <2>1. died_log = Absent /\ died_log' = hot_log /\ hot_log' = Absent /\ pc = "rename" /\ pc' = "reopen"
    BY <1>2 DEF RenameLog
  <2>2. ~ LogRecord /\ ~ EndDumping
    BY <2>1 DEF LogRecord, EndDumping
  <2> QED BY <1>2, <2>1, <2>2, AbsentHolds
<1>3. CASE EndDumping
  <2>1. died_log' = Absent /\ hot_log' = hot_log /\ pc' = pc
    BY <1>3 DEF EndDumping
  <2>2. ~ LogRecord /\ ~ RenameLog
    BY <2>1 DEF LogRecord, RenameLog
  <2> QED BY <1>3, <2>1, <2>2, AbsentHolds
<1>4. CASE OpenAppend \/ ReopenLog
  <2>1. died_log' = died_log /\ pc \in {"append", "reopen"} /\ pc' \in {"ready", "submit"}
    BY <1>4 DEF OpenAppend, ReopenLog
  <2>2. Held(<< >>) = {}
    BY DEF Held, ToSet
  <2>3. Held(hot_log)' = Held(hot_log)
    BY <1>4, <2>2, AbsentHolds DEF OpenAppend, ReopenLog, LogsInv
  <2>4. ~ LogRecord /\ ~ RenameLog /\ ~ EndDumping
    BY <2>1 DEF LogRecord, RenameLog, EndDumping
  <2> QED BY <2>1, <2>3, <2>4
<1>5. CASE \/ Boot \/ OpenLog \/ ReadRecord \/ ReadEnd \/ Recover \/ Abort \/ Cache \/ CloseLog
           \/ SubmitDump \/ TakeJob \/ DumpKeys \/ DumpRecord \/ TruncateManifist \/ WriteManifist
           \/ Crash \/ UNCHANGED vars
  <2>1. UNCHANGED <<hot_log, died_log>>
    BY <1>5 DEF Boot, OpenLog, ReadRecord, ReadEnd, Recover, Abort, Dies, Cache, CloseLog, SubmitDump,
      TakeJob, DumpKeys, DumpRecord, TruncateManifist, WriteManifist, Crash, vars
  <2>2. ~ LogRecord
    <3>1. SUFFICES ASSUME LogRecord PROVE FALSE
      OBVIOUS
    <3>2. phase = "write" /\ hot_log \in Seq(Records) /\ hot_log' = Append(hot_log, gather')
      BY <1>0, <3>1 DEF LogRecord, PhaseOK, LogIsOpen
    <3>3. gather' \in Records
      BY <3>1, WriteTypes DEF LogRecord, TypeInv, PhaseOK
    <3>4. Len(hot_log') = Len(hot_log) + 1 /\ Len(hot_log) \in Nat
      BY <3>2, <3>3, AppendProperties, LenProperties
    <3> QED BY <2>1, <3>4
  <2> QED BY <2>1, <2>2, AbsentHolds DEF EndDumping, RenameLog
<1> QED BY <1>1, <1>2, <1>3, <1>4, <1>5 DEF Next, InitStep, SwitchStep, DumperStep

\* What a replay reads next, and what is left.
LEMMA RecoverStep ==
  ASSUME TypeInv, SlotInv, Recover
  PROVE  /\ Head(replay) \in Records /\ Head(replay) = replay[1]
         /\ replay' = Tail(replay) /\ Len(replay) \in Nat \ {0}
         /\ Len(replay') = Len(replay) - 1 /\ DOMAIN replay = 1 .. Len(replay)
         /\ DOMAIN replay' = 1 .. Len(replay) - 1
         /\ \A i \in 1 .. Len(replay) - 1 : replay'[i] = replay[i + 1]
         /\ ToSet(replay) = {Head(replay)} \cup ToSet(replay')
         /\ pc = "recover" /\ phase # "write" /\ phase' = phase
         /\ \/ pc' = "read" /\ slots > 0
            \/ pc' = "close" /\ phase = "hot" /\ slots = 0
            \/ pc' = "submit" /\ phase = "died" /\ slots = 0
<1>1. /\ replay \in Seq(Records) /\ replay # << >> /\ pc = "recover" /\ slots \in Nat
      /\ phase \in {"died", "hot"} /\ phase' = phase /\ replay' = Tail(replay)
  BY DEF TypeInv, MainOK, PhaseOK, Recover, SlotInv, SlotsOK
<1>2. /\ Head(replay) \in Records /\ Head(replay) = replay[1] /\ Len(replay) \in Nat \ {0}
      /\ DOMAIN replay = 1 .. Len(replay)
      /\ Len(replay') = Len(replay) - 1 /\ DOMAIN replay' = 1 .. Len(replay) - 1
      /\ \A i \in 1 .. Len(replay) - 1 : replay'[i] = replay[i + 1]
  BY <1>1, HeadTailProperties, LenProperties, EmptySeq
<1>3. ToSet(replay) = {Head(replay)} \cup ToSet(replay')
  <2>1. \A i \in 1 .. Len(replay) : i = 1 \/ i - 1 \in 1 .. Len(replay) - 1
    BY <1>2
  <2>2. \A i \in 1 .. Len(replay) : i = 1 \/ replay[i] = replay'[i - 1]
    BY <1>2, <2>1
  <2>3. \A x \in ToSet(replay) : x = Head(replay) \/ x \in ToSet(replay')
    BY <1>2, <2>1, <2>2 DEF ToSet
  <2>4. \A x \in ToSet(replay') : x \in ToSet(replay)
    BY <1>2 DEF ToSet
  <2>5. Head(replay) \in ToSet(replay)
    BY <1>2 DEF ToSet
  <2> QED BY <2>3, <2>4, <2>5
<1>4. CASE slots > 0
  BY <1>1, <1>2, <1>3, <1>4 DEF Recover
<1>5. CASE slots = 0 /\ phase = "hot"
  BY <1>1, <1>2, <1>3, <1>5 DEF Recover
<1>6. CASE slots = 0 /\ phase = "died"
  <2>1. pc' = "submit"
    BY <1>6 DEF Recover
  <2> QED BY <1>1, <1>2, <1>3, <1>6, <2>1
<1> QED BY <1>1, <1>4, <1>5, <1>6

LEMMA LogsStep ==
  ASSUME TypeInv, SlotInv, LogsInv, [Next]_vars
  PROVE  LogsInv'
<1> USE DEF diskVars, mainVars, dumpVars, ghostVars
<1>0. DiskOK /\ MainOK /\ PhaseOK /\ LogIsOpen
  BY DEF TypeInv
<1>1. CASE Boot \/ Crash \/ Abort
  <2>1. phase' = "died" /\ pc' \in {"down", "open"} /\ replay' = << >> /\ memtables' = {}
    BY <1>1 DEF Boot, Crash, Abort, Dies, LogsInv, TypeInv, DownIsEmpty
  <2> QED BY <2>1 DEF LogsInv, Fetching
<1>2. CASE OpenLog
  <2>1. /\ pc = "open" /\ phase \in {"died", "hot"} /\ replay = << >> /\ UNCHANGED <<hot_log, gather>>
    BY <1>0, <1>2 DEF OpenLog, MainOK, PhaseOK, LogsInv
  <2>2. CASE LogToOpen = Absent
    <3>1. replay' = << >> /\ phase' = "hot" /\ pc' \in {"open", "append"}
      BY <1>2, <2>1, <2>2 DEF OpenLog, NextLog
    <3> QED BY <2>1, <3>1 DEF LogsInv, Fetching
  <2>3. CASE LogToOpen # Absent
    <3>1. pc' = "read" /\ phase' = phase /\ replay' = LogToOpen
      BY <1>2, <2>3 DEF OpenLog
    <3>2. CASE phase = "hot"
      <4>1. hot_log \in Seq(Records) /\ replay' = hot_log /\ hot_log # Absent
        BY <1>0, <2>3, <3>1, <3>2 DEF LogToOpen, DiskOK
      <4>2. ToSet(replay') \subseteq Held(hot_log)'
        BY <2>1, <4>1, LogRecords
      <4> QED BY <2>1, <3>1, <3>2, <4>1, <4>2 DEF LogsInv
    <3>3. CASE phase = "died"
      BY <2>1, <3>1, <3>3 DEF LogsInv, Fetching
    <3> QED BY <2>1, <3>2, <3>3
  <2> QED BY <2>2, <2>3
<1>3. CASE ReadRecord
  <2>1. /\ pc = "read" /\ pc' = "recover" /\ phase \in {"died", "hot"}
        /\ phase = "hot" => Fetching
        /\ UNCHANGED <<phase, replay, hot_log, gather>>
    BY <1>0, <1>3 DEF ReadRecord, CanRead, MainOK, PhaseOK, Fetching
  <2> QED BY <2>1 DEF LogsInv, Fetching
<1>4. CASE ReadEnd
  <2>1. /\ phase' = "hot" /\ pc' \in {"open", "append"} /\ replay' = << >>
    BY <1>4 DEF ReadEnd, NextLog
  <2> QED BY <2>1 DEF LogsInv, Fetching
<1>5. CASE Recover
  <2>1. UNCHANGED <<hot_log, gather, phase, curr_log_fd>>
    BY <1>5 DEF Recover
  <2>2. /\ pc = "recover" /\ phase # "write" /\ ToSet(replay') \subseteq ToSet(replay)
        /\ \/ pc' = "read" \/ (pc' = "close" /\ phase = "hot") \/ (pc' = "submit" /\ phase = "died")
    BY <1>5, RecoverStep
  <2>3. Fetching' => Fetching
    BY <2>1, <2>2 DEF Fetching
  <2> QED BY <2>1, <2>2, <2>3 DEF LogsInv
<1>6. CASE OpenAppend \/ LogRecord
  <2>1. phase' = "write" /\ pc' \in {"ready", "cache"} /\ replay' = << >>
    BY <1>0, <1>6 DEF OpenAppend, LogRecord, LogsInv, PhaseOK
  <2>2. pc' = "cache" => gather' \in Held(hot_log)'
    BY <1>6, HeldStep DEF OpenAppend
  <2> QED BY <2>1, <2>2 DEF LogsInv, Fetching
<1>7. CASE Cache
  <2>1. /\ phase = "write" /\ pc = "cache" /\ UNCHANGED <<phase, replay, hot_log>>
        /\ \/ pc' = "close" /\ gather' = gather
           \/ pc' = "ready"
    BY <1>0, <1>7 DEF Cache, Return, PhaseOK
  <2> QED BY <2>1 DEF LogsInv, Fetching
<1>8. CASE CloseLog \/ RenameLog \/ ReopenLog
  <2>1. /\ UNCHANGED <<phase, replay, gather>> /\ phase # "died"
        /\ \/ pc = "close" /\ pc' = "rename" /\ hot_log' = hot_log
           \/ pc = "rename" /\ pc' = "reopen" /\ hot_log' = Absent
           \/ pc = "reopen" /\ pc' = "submit" /\ hot_log' = << >> /\ curr_log_fd' = "append"
    BY <1>8 DEF CloseLog, RenameLog, ReopenLog, LogsInv
  <2> QED BY <2>1 DEF LogsInv, Fetching
<1>9. CASE SubmitDump
  <2>1. /\ UNCHANGED <<phase, replay, hot_log, curr_log_fd>> /\ pc = "submit"
        /\ pc' = IF phase = "write" THEN "ready" ELSE "read"
    BY <1>9 DEF SubmitDump, Return
  <2>2. << >> # Absent
    BY DEF Absent
  <2> QED BY <1>0, <2>1, <2>2 DEF LogsInv, Fetching, MainOK
<1>10. CASE DumperStep \/ UNCHANGED vars
  <2>1. UNCHANGED <<pc, phase, replay, hot_log, gather, curr_log_fd, memtables>>
    BY <1>10 DEF DumperStep, TakeJob, DumpKeys, DumpRecord, TruncateManifist, WriteManifist, EndDumping,
      vars
  <2> QED BY <2>1 DEF LogsInv, Fetching
<1> QED
  BY <1>1, <1>2, <1>3, <1>4, <1>5, <1>6, <1>7, <1>8, <1>9, <1>10 DEF Next, InitStep, SwitchStep

-----------------------------------------------------------------------------
(* The order of the records                                                *)

LEMMA EndsAscend == Ascending(<< >>) /\ Ascending(Absent)
BY AbsentHolds DEF Ascending

LEMMA AppendAscends ==
  ASSUME NEW log \in Seq(Records), NEW r \in Records, Ascending(log),
         \A x \in ToSet(log) : x.id < r.id
  PROVE  Ascending(Append(log, r))
<1> DEFINE new == Append(log, r)
<1>1. /\ DOMAIN new = 1 .. Len(log) + 1 /\ DOMAIN log = 1 .. Len(log) /\ Len(log) \in Nat
      /\ \A i \in 1 .. Len(log) : new[i] = log[i]
      /\ new[Len(log) + 1] = r
  BY AppendProperties, LenProperties
<1> HIDE DEF new
<1>2. SUFFICES ASSUME NEW i \in DOMAIN new, NEW j \in DOMAIN new, i < j PROVE new[i].id < new[j].id
  BY DEF Ascending, new
<1>3. i \in 1 .. Len(log) /\ (j = Len(log) + 1 \/ j \in 1 .. Len(log))
  BY <1>1, <1>2
<1>4. CASE j = Len(log) + 1
  BY <1>1, <1>3, <1>4 DEF ToSet
<1>5. CASE j \in 1 .. Len(log)
  BY <1>1, <1>2, <1>3, <1>5 DEF Ascending
<1> QED BY <1>3, <1>4, <1>5

\* Steps that only take records away.
LEMMA OrderFrame ==
  ASSUME OrderInv, written' = written,
         Held(hot_log)' \subseteq Held(hot_log), Held(died_log)' \subseteq Held(died_log),
         memtables' \subseteq memtables, ToSet(replay)' \subseteq ToSet(replay),
         Promised' \subseteq Promised,
         hot_log' \in {hot_log, << >>, Absent}, died_log' \in {died_log, Absent},
         replay' \in {replay, << >>},
         phase' = "died" \/ (phase' = "hot" /\ pc' = "open") =>
           \/ phase = "died" \/ (phase = "hot" /\ pc = "open")
           \/ (memtables' = {} /\ replay' = << >>),
         pc' = "cache" => pc = "cache" /\ gather' = gather
  PROVE  OrderInv'
<1>1. /\ \A x \in (Held(hot_log) \cup Held(died_log) \cup memtables \cup ToSet(replay)
                     \cup Promised)' :
           x.id <= written'
      /\ Below(Held(died_log), Held(hot_log))' /\ Below(memtables, ToSet(replay))'
      /\ pc' = "cache" => Below(memtables, {gather})'
  BY DEF OrderInv, Below
<1>2. Ascending(hot_log)' /\ Ascending(died_log)' /\ Ascending(replay)'
  BY EndsAscend DEF OrderInv
<1>3. ASSUME phase' = "died" \/ (phase' = "hot" /\ pc' = "open")
      PROVE  Below(memtables \cup ToSet(replay), Held(hot_log))'
  <2>1. CASE phase = "died" \/ (phase = "hot" /\ pc = "open")
    <3>1. Below(memtables \cup ToSet(replay), Held(hot_log))
      BY <2>1 DEF OrderInv
    <3> QED BY <3>1 DEF Below
  <2>2. CASE memtables' = {} /\ replay' = << >>
    BY <2>2 DEF Below, ToSet
  <2> QED BY <1>3, <2>1, <2>2
<1> QED BY <1>1, <1>2, <1>3 DEF OrderInv

LEMMA OrderStep ==
  ASSUME TypeInv, SlotInv, LogsInv, OrderInv, [Next]_vars
  PROVE  OrderInv'
<1> USE DEF diskVars, mainVars, dumpVars, ghostVars
<1>0. /\ DiskOK /\ MainOK /\ PhaseOK /\ LogIsOpen /\ GhostOK /\ written \in Nat
      /\ Promised \subseteq Records /\ Held(hot_log) \subseteq Records
      /\ Held(died_log) \subseteq Records /\ memtables \subseteq Records
      /\ ToSet(replay) \subseteq Records
  BY PromisedType, LogRecords DEF TypeInv, GhostOK, MainOK, Held
<1>1. CASE Boot \/ Crash \/ Abort
  <2>1. /\ UNCHANGED <<hot_log, died_log, written>> /\ pc' # "cache"
        /\ memtables' = {} /\ replay' = << >>
    BY <1>1 DEF Boot, Crash, Abort, Dies, LogsInv, TypeInv, DownIsEmpty
  <2>2. ToSet(replay') = {}
    BY <2>1 DEF ToSet
  <2>3. Promised' \subseteq Promised
    <3>1. ~ Cache
      BY <1>1 DEF Boot, Crash, Abort, Dies, Cache, Return
    <3> QED BY <3>1, PromisedStep
  <2> QED BY <2>1, <2>2, <2>3, OrderFrame
<1>2. CASE OpenLog
  <2>1. /\ pc = "open" /\ UNCHANGED <<hot_log, died_log, memtables, written, gather, acked>>
        /\ phase \in {"died", "hot"} /\ pc' # "cache" /\ Promised' = Promised
    BY <1>0, <1>2 DEF OpenLog, NextLog, PhaseOK, MainOK, Promised
  <2>2. CASE LogToOpen = Absent
    <3>1. replay' = replay
      BY <1>2, <2>2 DEF OpenLog
    <3> QED BY <2>1, <3>1, OrderFrame
  <2>3. CASE LogToOpen # Absent
    <3>1. pc' = "read" /\ phase' = phase /\ replay' = LogToOpen
      BY <1>2, <2>3 DEF OpenLog
    <3>2. Below(memtables, Held(hot_log)) /\ Below(Held(died_log), Held(hot_log))
      BY <2>1 DEF OrderInv, Below
    <3>3. CASE phase = "died"
      <4>1. replay' = died_log /\ died_log \in Seq(Records) /\ memtables = {}
        BY <1>0, <2>1, <2>3, <3>1, <3>3 DEF LogToOpen, DiskOK, LogsInv
      <4>2. ToSet(replay') = Held(died_log) /\ Ascending(replay')
        BY <4>1, LogRecords DEF OrderInv
      <4>3. Below(memtables, ToSet(replay'))
        BY <4>1 DEF Below
      <4>4. Below(memtables \cup ToSet(replay'), Held(hot_log))
        BY <3>2, <4>2 DEF Below
      <4> QED BY <2>1, <3>1, <4>2, <4>3, <4>4 DEF OrderInv
    <3>4. CASE phase = "hot"
      <4>1. replay' = hot_log /\ hot_log \in Seq(Records)
        BY <1>0, <2>1, <2>3, <3>1, <3>4 DEF LogToOpen, DiskOK
      <4>2. ToSet(replay') = Held(hot_log) /\ Ascending(replay')
        BY <4>1, LogRecords DEF OrderInv
      <4> QED BY <2>1, <3>1, <3>2, <3>4, <4>2 DEF OrderInv
    <3> QED BY <2>1, <3>3, <3>4
  <2> QED BY <2>2, <2>3
<1>3. CASE ReadRecord \/ ReadEnd \/ CloseLog
  <2>1. /\ UNCHANGED <<hot_log, died_log, memtables, replay, written, acked>>
        /\ pc' # "cache"
        /\ phase' = "died" \/ (phase' = "hot" /\ pc' = "open") => phase = "died"
    BY <1>3 DEF ReadRecord, ReadEnd, CanRead, NextLog, CloseLog
  <2>2. Promised' \subseteq Promised
    <3>1. ~ Cache
      BY <1>3 DEF ReadRecord, ReadEnd, CanRead, CloseLog, Cache
    <3> QED BY <3>1, PromisedStep
  <2> QED BY <2>1, <2>2, OrderFrame
<1>4. CASE Recover
  <2> DEFINE r == Head(replay)
  <2>1. /\ UNCHANGED <<hot_log, died_log, phase, written>> /\ memtables' = Updated(memtables, r)
    BY <1>4 DEF Recover
  <2>2. /\ r \in Records /\ r = replay[1] /\ Len(replay) \in Nat \ {0}
        /\ DOMAIN replay = 1 .. Len(replay) /\ DOMAIN replay' = 1 .. Len(replay) - 1
        /\ \A i \in 1 .. Len(replay) - 1 : replay'[i] = replay[i + 1]
        /\ ToSet(replay) = {r} \cup ToSet(replay')
        /\ pc = "recover" /\ pc' \in {"read", "close", "submit"}
    BY <1>4, RecoverStep
  <2>3. Promised' \subseteq Promised
    <3>1. ~ Cache
      BY <2>2 DEF Cache
    <3> QED BY <3>1, PromisedStep
  <2>4. memtables' \subseteq memtables \cup {r}
    BY <2>1 DEF Updated
  <2>5. Ascending(replay')
    <3>1. SUFFICES ASSUME NEW i \in DOMAIN replay', NEW j \in DOMAIN replay', i < j
                   PROVE  replay'[i].id < replay'[j].id
      BY DEF Ascending
    <3>2. i + 1 \in DOMAIN replay /\ j + 1 \in DOMAIN replay /\ i + 1 < j + 1
      BY <2>2, <3>1
    <3>3. replay[i + 1].id < replay[j + 1].id
      BY <3>2 DEF OrderInv, Ascending
    <3> QED BY <2>2, <3>1, <3>3
  <2>6. \A x \in ToSet(replay') : r.id < x.id
    <3>1. SUFFICES ASSUME NEW i \in DOMAIN replay' PROVE r.id < replay'[i].id
      BY DEF ToSet
    <3>2. 1 \in DOMAIN replay /\ i + 1 \in DOMAIN replay /\ 1 < i + 1
      BY <2>2, <3>1
    <3>3. replay[1].id < replay[i + 1].id
      BY <3>2 DEF OrderInv, Ascending
    <3> QED BY <2>2, <3>1, <3>3
  <2>7. Below(memtables, ToSet(replay))
    BY DEF OrderInv
  <2> HIDE DEF r
  <2>8. Below(memtables', ToSet(replay'))
    BY <2>2, <2>4, <2>6, <2>7 DEF Below
  <2>9. phase = "died" => Below(memtables' \cup ToSet(replay'), Held(hot_log))
    <3>1. SUFFICES ASSUME phase = "died"
                   PROVE  Below(memtables' \cup ToSet(replay'), Held(hot_log))
      OBVIOUS
    <3>2. Below(memtables \cup ToSet(replay), Held(hot_log))
      BY <3>1 DEF OrderInv
    <3> QED BY <2>2, <2>4, <3>2 DEF Below
  <2>10. \A x \in Held(hot_log)' \cup Held(died_log)' \cup memtables' \cup ToSet(replay')
                    \cup Promised' :
           x.id <= written'
    BY <2>1, <2>2, <2>3, <2>4 DEF OrderInv
  <2> QED BY <2>1, <2>2, <2>5, <2>8, <2>9, <2>10 DEF OrderInv
<1>5. CASE OpenAppend \/ ReopenLog \/ SubmitDump
  <2>1. /\ UNCHANGED <<died_log, written, replay>> /\ hot_log' \in {hot_log, << >>}
        /\ memtables' \subseteq memtables /\ pc' # "cache"
        /\ phase' = "died" => phase = "died"
        /\ ~ (phase' = "hot" /\ pc' = "open")
    BY <1>5 DEF OpenAppend, ReopenLog, SubmitDump, Return
  <2>2. ~ Cache /\ ~ LogRecord /\ ~ RenameLog
    BY <1>5 DEF OpenAppend, ReopenLog, SubmitDump, Cache, LogRecord, RenameLog
  <2>3. Promised' \subseteq Promised /\ Held(hot_log)' = Held(hot_log)
    BY <2>2, PromisedStep, HeldStep
  <2> QED BY <2>1, <2>3, OrderFrame
<1>6. CASE LogRecord
  <2>1. /\ phase = "write" /\ hot_log \in Seq(Records) /\ replay = << >>
        /\ UNCHANGED <<died_log, memtables, phase, replay, acked>> /\ pc = "ready" /\ pc' = "cache"
        /\ gather'.id = written + 1 /\ written' = written + 1
        /\ hot_log' = Append(hot_log, gather')
    BY <1>0, <1>6 DEF LogRecord, PhaseOK, LogIsOpen, LogsInv
  <2>2. Held(hot_log)' = Held(hot_log) \cup {gather'} /\ gather' \in Records
    BY <1>6, HeldStep
  <2>3. Promised' \subseteq Promised
    BY <2>1 DEF Promised
  <2>4. \A x \in Held(hot_log) \cup Held(died_log) \cup memtables \cup ToSet(replay) \cup Promised :
          x \in Records /\ x.id \in Nat /\ x.id <= written
    BY <1>0, RecordIds DEF OrderInv
  <2>5. \A x \in Held(hot_log)' \cup Held(died_log)' \cup memtables' \cup ToSet(replay)'
                   \cup Promised' :
          x.id <= written'
    BY <1>0, <2>1, <2>2, <2>3, <2>4
  <2>6. Ascending(hot_log')
    <3>1. \A x \in ToSet(hot_log) : x.id < gather'.id
      BY <1>0, <2>1, <2>4, LogRecords
    <3> QED BY <2>1, <2>2, <3>1, AppendAscends DEF OrderInv
  <2>7. Below(Held(died_log)', Held(hot_log)') /\ Below(memtables', {gather'})
    BY <1>0, <2>1, <2>2, <2>4 DEF OrderInv, Below
  <2> QED BY <2>1, <2>5, <2>6, <2>7 DEF OrderInv
<1>7. CASE Cache
  <2>1. /\ phase = "write" /\ replay = << >> /\ pc = "cache" /\ gather \in Held(hot_log)
        /\ UNCHANGED <<hot_log, died_log, phase, replay, written>> /\ pc' \in {"close", "ready"}
        /\ memtables' = Updated(memtables, gather)
    BY <1>0, <1>7 DEF Cache, Return, PhaseOK, LogsInv
  <2>2. Promised' \subseteq Promised \cup {gather} /\ memtables' \subseteq memtables \cup {gather}
    BY <2>1, PromisedStep DEF Updated
  <2>3. \A x \in Held(hot_log)' \cup Held(died_log)' \cup memtables' \cup ToSet(replay)'
                   \cup Promised' :
          x.id <= written'
    BY <2>1, <2>2 DEF OrderInv
  <2>4. Below(memtables', ToSet(replay)')
    BY <2>1 DEF Below, ToSet
  <2> QED BY <2>1, <2>3, <2>4 DEF OrderInv
<1>8. CASE RenameLog
  <2>1. /\ phase # "died" /\ died_log' = hot_log /\ hot_log' = Absent /\ pc = "rename" /\ pc' = "reopen"
        /\ UNCHANGED <<memtables, replay, written, phase>>
    BY <1>8 DEF RenameLog, LogsInv
  <2>2. ~ Cache
    BY <2>1 DEF Cache
  <2>3. Held(hot_log)' = {} /\ Held(died_log)' = Held(hot_log) /\ Promised' \subseteq Promised
    BY <1>8, <2>2, HeldStep, PromisedStep
  <2>4. Below(Held(died_log)', Held(hot_log)')
    BY <2>3 DEF Below
  <2>5. \A x \in Held(hot_log)' \cup Held(died_log)' \cup memtables' \cup ToSet(replay)'
                   \cup Promised' :
          x.id <= written'
    BY <2>1, <2>3 DEF OrderInv
  <2> QED BY <2>1, <2>4, <2>5, EndsAscend DEF OrderInv
<1>9. CASE DumperStep \/ UNCHANGED vars
  <2>1. /\ UNCHANGED <<hot_log, memtables, replay, phase, pc, gather, written, acked>>
        /\ died_log' \in {died_log, Absent}
    BY <1>9 DEF DumperStep, TakeJob, DumpKeys, DumpRecord, TruncateManifist, WriteManifist, EndDumping,
      vars
  <2>2. Held(died_log)' \subseteq Held(died_log) /\ Promised' = Promised
    BY <2>1, AbsentHolds DEF Promised
  <2> QED BY <2>1, <2>2, OrderFrame
<1> QED
  BY <1>1, <1>2, <1>3, <1>4, <1>5, <1>6, <1>7, <1>8, <1>9 DEF Next, InitStep, SwitchStep

-----------------------------------------------------------------------------
(* The slots that the records of the hot log have taken                    *)

LEMMA FreeBound ==
  TypeInv /\ SlotInv => /\ FreeToCome \in Nat /\ slots \in Nat /\ slots <= FreeToCome
                        /\ FreeToCome <= RECORD_BUFF_SIZE
                        /\ FreeToCome + (IF pc = "recover" THEN 1 ELSE 0) <= RECORD_BUFF_SIZE
BY SlotNumbers, DBRecoveryAssumption DEF FreeToCome, SlotInv, SlotsOK

LEMMA FreeBoundNext ==
  (TypeInv /\ SlotInv)' =>
    (/\ FreeToCome \in Nat /\ slots \in Nat /\ slots <= FreeToCome
     /\ FreeToCome <= RECORD_BUFF_SIZE
     /\ FreeToCome + (IF pc = "recover" THEN 1 ELSE 0) <= RECORD_BUFF_SIZE)'
BY FreeBound, PTL

LEMMA FreeInMain ==
  ASSUME TypeInv, SlotInv, UNCHANGED <<jobs, kvs, dumper, files, all_records>>, slots' \in Nat
  PROVE  FreeToCome' = FreeToCome + slots' - slots
<1>1. JobRecords' = JobRecords /\ ToWrite' = ToWrite
  BY DEF JobRecords, ToWrite
<1> QED BY <1>1, SlotNumbers DEF FreeToCome

LEMMA FreeInDumper ==
  ASSUME TypeInv, SlotInv, DumperStep \/ UNCHANGED vars
  PROVE  FreeToCome' = FreeToCome
<1>1. CASE TakeJob \/ DumpKeys \/ DumpRecord
  BY <1>1, TakeJobSlots, DumpSlots
<1>2. CASE TruncateManifist \/ WriteManifist \/ EndDumping
  <2>1. UNCHANGED <<slots, jobs>> /\ dumper \notin {"keys", "append"} /\ dumper' \notin {"keys", "append"}
    BY <1>2 DEF TruncateManifist, WriteManifist, EndDumping
  <2>2. JobRecords' = JobRecords /\ ToWrite = 0 /\ ToWrite' = 0
    BY <2>1 DEF JobRecords, ToWrite
  <2> QED BY <2>1, <2>2 DEF FreeToCome
<1>3. CASE UNCHANGED vars
  <2>1. UNCHANGED <<slots, jobs, dumper, kvs, files, all_records>>
    BY <1>3 DEF vars, diskVars, dumpVars
  <2> QED BY <2>1 DEF FreeToCome, JobRecords, ToWrite
<1> QED BY <1>1, <1>2, <1>3 DEF DumperStep

LEMMA CountStep ==
  ASSUME TypeInv, SlotInv, LogsInv, CountInv, [Next]_vars, SlotInv', TypeInv'
  PROVE  CountInv'
<1> USE DEF diskVars, mainVars, dumpVars, ghostVars
<1>0. /\ DiskOK /\ MainOK /\ PhaseOK /\ LogIsOpen
      /\ FreeToCome \in Nat /\ slots \in Nat /\ slots <= FreeToCome
      /\ FreeToCome <= RECORD_BUFF_SIZE
      /\ replay \in Seq(Records) /\ Len(replay) \in Nat
      /\ RECORD_BUFF_SIZE \in Nat
  BY FreeBound, LenProperties, DBRecoveryAssumption DEF TypeInv, MainOK
<1>a. /\ FreeToCome' \in Nat /\ slots' \in Nat
      /\ FreeToCome' <= RECORD_BUFF_SIZE
  BY FreeBoundNext
<1>b. Len(hot_log) \in Nat
  <2>1. CASE hot_log \in Seq(Records)
    BY <2>1, LenProperties
  <2>2. CASE hot_log = Absent
    BY <2>2 DEF Absent
  <2> QED BY <1>0, <2>1, <2>2 DEF DiskOK
<1>1. CASE Boot \/ Crash \/ Abort \/ CloseLog \/ RenameLog \/ ReopenLog
  <2>1. pc' \in {"down", "open", "rename", "reopen", "submit"}
    BY <1>1 DEF Boot, Crash, Abort, Dies, CloseLog, RenameLog, ReopenLog
  <2> QED BY <2>1 DEF CountInv, Fetching
<1>2. CASE OpenLog
  <2>1. hot_log' = hot_log /\ pc' \in {"open", "append", "read"} /\ phase \in {"died", "hot"}
    BY <1>0, <1>2 DEF OpenLog, NextLog, PhaseOK, MainOK
  <2>2. pc' = "append" => hot_log = Absent
    BY <1>2, <2>1 DEF OpenLog, NextLog, LogToOpen
  <2>3. pc' = "read" /\ phase' = "hot" => replay' = hot_log
    BY <1>2, <2>1 DEF OpenLog, NextLog, LogToOpen
  <2> QED BY <1>a, <1>b, <2>1, <2>2, <2>3 DEF CountInv, Fetching
<1>3. CASE ReadRecord
  <2>1. /\ UNCHANGED <<phase, replay, hot_log, jobs, kvs, dumper, files, all_records>>
        /\ pc = "read" /\ pc' = "recover" /\ slots' = slots - 1
        /\ phase = "hot" => Fetching
    BY <1>3 DEF ReadRecord, CanRead, Fetching
  <2>2. FreeToCome' = FreeToCome - 1
    BY <1>0, <1>a, <2>1, FreeInMain
  <2>3. Fetching' => Fetching
    BY <2>1 DEF Fetching
  <2> QED BY <1>0, <1>b, <2>1, <2>2, <2>3 DEF CountInv
<1>4. CASE ReadEnd
  <2>1. /\ UNCHANGED <<slots, hot_log, jobs, kvs, dumper, files, all_records>>
        /\ pc = "read" /\ replay = << >> /\ phase' = "hot"
        /\ \/ phase = "died" /\ pc' = "open"
           \/ Fetching /\ pc' = "append"
    BY <1>0, <1>4 DEF ReadEnd, CanRead, NextLog, Fetching, MainOK, PhaseOK
  <2>2. FreeToCome' = FreeToCome
    BY <1>0, <1>a, <2>1, FreeInMain
  <2>3. Len(replay) = 0
    BY <2>1
  <2> QED BY <1>0, <1>b, <2>1, <2>2, <2>3 DEF CountInv, Fetching
<1>5. CASE Recover
  <2>1. UNCHANGED <<slots, hot_log, phase, jobs, kvs, dumper, files, all_records>>
    BY <1>5 DEF Recover
  <2>2. /\ pc = "recover" /\ pc' \in {"read", "close", "submit"} /\ phase' = phase
        /\ Len(replay') = Len(replay) - 1
    BY <1>5, RecoverStep
  <2>3. FreeToCome' = FreeToCome
    BY <1>0, <1>a, <2>1, FreeInMain
  <2>4. Fetching' => Fetching
    BY <2>2 DEF Fetching
  <2> QED BY <1>0, <1>b, <2>1, <2>2, <2>3, <2>4 DEF CountInv
<1>6. CASE OpenAppend
  <2>1. /\ UNCHANGED <<slots, jobs, kvs, dumper, files, all_records>>
        /\ pc = "append" /\ pc' = "ready" /\ phase' = "write"
        /\ hot_log' = IF hot_log = Absent THEN << >> ELSE hot_log
    BY <1>6 DEF OpenAppend
  <2>2. FreeToCome' = FreeToCome
    BY <1>0, <1>a, <2>1, FreeInMain
  <2>3. CASE hot_log = Absent
    <3>1. Len(hot_log') = 0
      BY <2>1, <2>3
    <3> QED BY <1>0, <2>1, <2>2, <3>1 DEF CountInv, Fetching
  <2>4. CASE hot_log # Absent
    BY <1>0, <1>b, <2>1, <2>2, <2>4 DEF CountInv, Fetching
  <2> QED BY <2>3, <2>4
<1>7. CASE LogRecord
  <2>1. /\ UNCHANGED <<slots, phase, jobs, kvs, dumper, files, all_records>>
        /\ phase = "write" /\ pc = "ready" /\ pc' = "cache" /\ hot_log \in Seq(Records)
        /\ hot_log' = Append(hot_log, gather')
    BY <1>0, <1>7 DEF LogRecord, PhaseOK, LogIsOpen
  <2>2. FreeToCome' = FreeToCome
    BY <1>0, <1>a, <2>1, FreeInMain
  <2>3. Len(hot_log') = Len(hot_log) + 1 /\ hot_log # Absent
    BY <1>7, <2>1, HeldStep, AppendProperties, LogRecords
  <2>4. FreeToCome + Len(hot_log) <= RECORD_BUFF_SIZE
    BY <1>0, <1>b, <2>1, <2>3 DEF CountInv
  <2> QED BY <1>0, <1>b, <2>1, <2>2, <2>3, <2>4 DEF CountInv, Fetching
<1>8. CASE Cache
  <2>1. /\ UNCHANGED <<phase, hot_log, jobs, kvs, dumper, files, all_records>>
        /\ phase = "write" /\ pc = "cache" /\ pc' \in {"close", "ready"} /\ slots' = slots - 1
        /\ hot_log # Absent
    BY <1>0, <1>8, LogRecords DEF Cache, Return, PhaseOK, LogIsOpen
  <2>2. FreeToCome' = FreeToCome - 1
    BY <1>0, <1>a, <2>1, FreeInMain
  <2>3. FreeToCome + Len(hot_log) <= RECORD_BUFF_SIZE + 1
    BY <1>0, <1>b, <2>1 DEF CountInv
  <2> QED BY <1>0, <1>b, <2>1, <2>2, <2>3 DEF CountInv, Fetching
<1>9. CASE SubmitDump
  <2>1. /\ UNCHANGED <<phase, hot_log, curr_log_fd>> /\ pc = "submit"
        /\ pc' = IF phase = "write" THEN "ready" ELSE "read"
    BY <1>9 DEF SubmitDump, Return
  <2>2. phase # "died" => hot_log = << >> /\ curr_log_fd = "append"
    BY <2>1 DEF LogsInv
  <2>3. CASE phase = "write"
    <3>1. PICK f \in Nat : f = FreeToCome'
      BY <1>a
    <3>2. f <= RECORD_BUFF_SIZE
      BY <1>a, <3>1
    <3>3. f + 0 <= RECORD_BUFF_SIZE + 0
      BY <3>2, DBRecoveryAssumption
    <3>4. Len(hot_log') = 0
      BY <2>1, <2>2, <2>3
    <3> QED BY <2>1, <2>3, <3>1, <3>3, <3>4 DEF CountInv, Fetching
  <2>4. CASE phase # "write"
    BY <2>1, <2>2, <2>4, <1>0 DEF CountInv, Fetching, MainOK
  <2> QED BY <2>3, <2>4
<1>10. CASE DumperStep \/ UNCHANGED vars
  <2>1. UNCHANGED <<phase, pc, curr_log_fd, hot_log, replay>>
    BY <1>10 DEF DumperStep, TakeJob, DumpKeys, DumpRecord, TruncateManifist, WriteManifist, EndDumping,
      vars
  <2>2. FreeToCome' = FreeToCome
    BY <1>10, FreeInDumper
  <2> QED BY <2>1, <2>2 DEF CountInv, Fetching
<1> QED
  BY <1>1, <1>2, <1>3, <1>4, <1>5, <1>6, <1>7, <1>8, <1>9, <1>10 DEF Next, InitStep, SwitchStep

LEMMA FirstStep ==
  ASSUME TypeInv, SlotInv, LogsInv, OrderInv, CountInv, FirstInv, [Next]_vars
  PROVE  FirstInv'
<1> USE DEF diskVars, mainVars, dumpVars, ghostVars
<1>0. /\ DiskOK /\ PhaseOK /\ LogIsOpen /\ GhostOK /\ written \in Nat /\ Promised \subseteq Records
  BY PromisedType DEF TypeInv, GhostOK
<1>1. CASE LogRecord
  <2>1. /\ phase = "write" /\ hot_log \in Seq(Records) /\ died_log' = died_log
        /\ gather'.id = written + 1 /\ hot_log' = Append(hot_log, gather') /\ pc = "ready"
    BY <1>0, <1>1 DEF LogRecord, PhaseOK, LogIsOpen
  <2>2. gather' \in Records /\ Promised' \subseteq Promised
    <3>1. ~ Cache
      BY <2>1 DEF Cache
    <3> QED BY <1>1, <3>1, HeldStep, PromisedStep
  <2>3. gather' \notin Promised
    <3>1. \A x \in Promised : x.id <= written
      BY DEF OrderInv
    <3> QED BY <1>0, <2>1, <3>1
  <2>4. /\ DOMAIN hot_log' = 1 .. Len(hot_log) + 1 /\ DOMAIN hot_log = 1 .. Len(hot_log)
        /\ Len(hot_log) \in Nat
        /\ \A i \in 1 .. Len(hot_log) : hot_log'[i] = hot_log[i]
        /\ hot_log'[Len(hot_log) + 1] = gather'
    BY <2>1, <2>2, AppendProperties, LenProperties
  <2>5. \A i \in DOMAIN hot_log' : hot_log'[i] \in Promised => i <= RECORD_BUFF_SIZE
    BY <2>3, <2>4 DEF FirstInv
  <2> QED BY <2>1, <2>2, <2>5 DEF FirstInv
<1>2. CASE Cache
  <2>1. /\ phase = "write" /\ pc = "cache" /\ hot_log \in Seq(Records) /\ slots > 0
        /\ UNCHANGED <<hot_log, died_log>> /\ gather \in Held(hot_log)
    BY <1>0, <1>2 DEF Cache, PhaseOK, LogIsOpen, LogsInv
  <2>2. /\ Len(hot_log) \in Nat /\ hot_log # Absent /\ DOMAIN hot_log = 1 .. Len(hot_log)
    BY <2>1, LogRecords
  <2>3. FreeToCome + Len(hot_log) <= RECORD_BUFF_SIZE + 1
    BY <2>1, <2>2 DEF CountInv
  <2>4. Len(hot_log) <= RECORD_BUFF_SIZE
    BY <2>1, <2>2, <2>3, FreeBound, DBRecoveryAssumption
  <2>5. \A i \in DOMAIN hot_log : i <= RECORD_BUFF_SIZE
    BY <2>2, <2>4, DBRecoveryAssumption
  <2>6. gather \notin Held(died_log)
    <3>1. Below(Held(died_log), Held(hot_log))
      BY DEF OrderInv
    <3>2. gather.id \in Nat
      BY <2>1, RecordIds DEF Held
    <3> QED BY <2>1, <3>1, <3>2 DEF Below
  <2>7. \A i \in DOMAIN died_log : died_log[i] # gather
    BY <2>1, <2>6 DEF Held, ToSet
  <2>8. Promised' \subseteq Promised \cup {gather}
    BY PromisedStep
  <2> QED BY <2>1, <2>5, <2>7, <2>8 DEF FirstInv
<1>3. CASE ~ LogRecord /\ ~ Cache
  <2>1. Promised' \subseteq Promised
    BY <1>3, PromisedStep
  <2>2. \/ UNCHANGED <<hot_log, died_log>>
        \/ died_log' = died_log /\ hot_log' \in {hot_log, << >>}
        \/ died_log' = hot_log /\ hot_log' = Absent
        \/ died_log' = Absent /\ hot_log' = hot_log
    BY <1>3 DEF Next, InitStep, SwitchStep, DumperStep, Boot, OpenLog, ReadRecord, ReadEnd, Recover,
      OpenAppend, Abort, Dies, CloseLog, RenameLog, ReopenLog, SubmitDump, TakeJob, DumpKeys, DumpRecord,
      TruncateManifist, WriteManifist, EndDumping, Crash, vars
  <2>3. /\ \A i \in DOMAIN Absent : Absent[i] \notin Promised
        /\ DOMAIN << >> = {}
    BY <1>0, AbsentHolds
  <2> QED BY <2>1, <2>2, <2>3 DEF FirstInv
<1> QED BY <1>1, <1>2, <1>3

-----------------------------------------------------------------------------
(* The replays                                                             *)

LEMMA CoversGrows ==
  ASSUME NEW S, NEW T, S \subseteq T, NEW r, Covers(S, r)
  PROVE  Covers(T, r)
BY DEF Covers

\* A later record covers what the ones before it covered.
LEMMA CoverUpdated ==
  ASSUME NEW S \in SUBSET Records, NEW T, NEW x \in Records, x \in T, NEW r \in Records,
         \A y \in S : y.id < x.id,
         Covers(S \cap T, r) \/ r = x
  PROVE  Covers(Updated(S, x) \cap T, r)
<1>1. x \in Updated(S, x) \cap T /\ x.id \in Nat /\ r.id \in Nat
  BY RecordIds DEF Updated
<1>2. CASE r = x
  BY <1>1, <1>2 DEF Covers
<1>3. CASE Covers(S \cap T, r)
  <2>1. PICK y \in S \cap T : y.key = r.key /\ y.id >= r.id
    BY <1>3 DEF Covers
  <2>2. y.id \in Nat /\ y.id < x.id
    BY <2>1, RecordIds
  <2>3. CASE y.key = x.key
    <3>1. x.key = r.key /\ x.id >= r.id
      BY <1>1, <2>1, <2>2, <2>3
    <3> QED BY <1>1, <3>1 DEF Covers
  <2>4. CASE y.key # x.key
    <3>1. y \in Updated(S, x) \cap T
      BY <2>1, <2>4 DEF Updated
    <3> QED BY <2>1, <3>1 DEF Covers
  <2> QED BY <2>3, <2>4
<1> QED BY <1>2, <1>3

\* The record of a write is in the hot log, and comes after the died one.
LEMMA WrittenIsHot ==
  ASSUME TypeInv, LogsInv, OrderInv, phase = "write", pc \in {"cache", "close", "rename"}
  PROVE  gather \in Held(hot_log) /\ gather \notin Held(died_log)
<1>1. gather \in Held(hot_log) /\ gather.id \in Nat
  BY RecordIds DEF LogsInv, Held
<1>2. Below(Held(died_log), Held(hot_log))
  BY DEF OrderInv
<1> QED BY <1>1, <1>2 DEF Below

\* The number of a write is new.
LEMMA WriteIsNew ==
  ASSUME TypeInv, OrderInv, LogRecord
  PROVE  gather' \notin Promised
<1>1. gather'.id = written + 1 /\ written \in Nat
  BY DEF LogRecord, TypeInv, GhostOK
<1>2. \A x \in Promised : x.id <= written
  BY DEF OrderInv
<1> QED BY <1>1, <1>2

LEMMA HotFrame ==
  ASSUME HotInv, Promised' \subseteq Promised, UNCHANGED <<replay, memtables>>,
         Held(hot_log)' = Held(hot_log),
         (phase' = "hot" /\ pc' # "open") \/ phase' = "write" =>
           (phase = "hot" /\ pc # "open") \/ phase = "write"
  PROVE  HotInv'
BY DEF HotInv

LEMMA HotStep ==
  ASSUME TypeInv, SlotInv, LogsInv, OrderInv, HotInv, [Next]_vars
  PROVE  HotInv'
<1> USE DEF diskVars, mainVars, dumpVars, ghostVars
<1>0. /\ DiskOK /\ MainOK /\ PhaseOK /\ Promised \subseteq Records /\ memtables \in SUBSET Records
      /\ ~ Cache => Promised' \subseteq Promised
  BY PromisedType, PromisedStep DEF TypeInv, MainOK
<1>1. CASE Boot \/ Crash \/ Abort
  <2>1. phase' = "died"
    BY <1>1 DEF Boot, Crash, Abort, Dies
  <2> QED BY <2>1 DEF HotInv
<1>2. CASE OpenLog
  <2>1. /\ pc = "open" /\ phase \in {"died", "hot"} /\ hot_log' = hot_log
        /\ phase = "died" => phase' = "died" \/ pc' = "open"
        /\ phase' \in {"died", "hot"}
    BY <1>0, <1>2 DEF OpenLog, NextLog, MainOK, PhaseOK
  <2>2. CASE phase = "hot" /\ hot_log = Absent
    BY <2>1, <2>2, AbsentHolds DEF HotInv
  <2>3. CASE phase = "hot" /\ hot_log # Absent
    <3>1. replay' = hot_log
      BY <1>2, <2>3 DEF OpenLog, LogToOpen
    <3> QED BY <2>1, <3>1 DEF HotInv, Held
  <2>4. CASE phase = "died"
    BY <2>1, <2>4 DEF HotInv
  <2> QED BY <2>1, <2>2, <2>3, <2>4
<1>3. CASE ReadRecord \/ ReadEnd
  <2>1. /\ UNCHANGED <<replay, memtables, hot_log>> /\ pc = "read"
        /\ (phase' = phase /\ phase # "write") \/ (phase = "died" /\ pc' = "open") \/ phase = "hot"
        /\ phase' # "write" /\ ~ Cache
    BY <1>0, <1>3 DEF ReadRecord, ReadEnd, CanRead, NextLog, Cache, MainOK, PhaseOK
  <2> QED BY <1>0, <2>1, HotFrame
<1>4. CASE Recover
  <2>1. /\ UNCHANGED <<hot_log, phase>> /\ memtables' = Updated(memtables, Head(replay)) /\ ~ Cache
    BY <1>4 DEF Recover, Cache
  <2>2. /\ Head(replay) \in Records /\ ToSet(replay) = {Head(replay)} \cup ToSet(replay')
        /\ pc = "recover" /\ phase # "write"
    BY <1>4, RecoverStep
  <2>3. SUFFICES ASSUME phase = "hot", NEW r \in Promised \cap Held(hot_log), r \notin ToSet(replay')
                 PROVE  Covers(memtables' \cap Held(hot_log), r)
    BY <1>0, <2>1, <2>2 DEF HotInv
  <2>4. Head(replay) \in Held(hot_log)
    BY <2>2, <2>3 DEF LogsInv, Fetching
  <2>5. \A y \in memtables : y.id < Head(replay).id
    BY <2>2 DEF OrderInv, Below
  <2>6. Covers(memtables \cap Held(hot_log), r) \/ r = Head(replay)
    BY <2>2, <2>3 DEF HotInv
  <2> QED BY <1>0, <2>1, <2>2, <2>4, <2>5, <2>6, CoverUpdated
<1>5. CASE LogRecord
  <2>1. UNCHANGED <<replay, memtables, phase>> /\ phase = "write" /\ ~ Cache
    BY <1>0, <1>5 DEF LogRecord, Cache, PhaseOK
  <2>2. Held(hot_log)' = Held(hot_log) \cup {gather'} /\ gather' \notin Promised
    BY <1>5, HeldStep, WriteIsNew
  <2>3. SUFFICES ASSUME NEW r \in Promised \cap Held(hot_log), r \notin ToSet(replay)
                 PROVE  Covers(memtables \cap Held(hot_log)', r)
    BY <1>0, <2>1, <2>2 DEF HotInv
  <2>4. Covers(memtables \cap Held(hot_log), r)
    BY <2>1, <2>3 DEF HotInv
  <2>5. memtables \cap Held(hot_log) \subseteq memtables \cap Held(hot_log)'
    BY <2>2
  <2> QED BY <2>4, <2>5, CoversGrows
<1>6. CASE Cache
  <2>1. /\ UNCHANGED <<replay, phase, hot_log>> /\ phase = "write" /\ pc = "cache"
        /\ memtables' = Updated(memtables, gather)
    BY <1>0, <1>6 DEF Cache, PhaseOK
  <2>2. gather \in Held(hot_log) /\ gather \in Records
    BY <2>1, WrittenIsHot DEF Held
  <2>3. SUFFICES ASSUME NEW r \in Promised \cup {gather}, r \in Held(hot_log), r \notin ToSet(replay)
                 PROVE  Covers(memtables' \cap Held(hot_log), r)
    BY <2>1, PromisedStep DEF HotInv
  <2>4. \A y \in memtables : y.id < gather.id
    BY <2>1 DEF OrderInv, Below
  <2>5. Covers(memtables \cap Held(hot_log), r) \/ r = gather
    BY <2>1, <2>3 DEF HotInv
  <2> QED BY <1>0, <2>1, <2>2, <2>3, <2>4, <2>5, CoverUpdated
<1>7. CASE RenameLog
  BY <1>7, HeldStep DEF HotInv
<1>8. CASE SubmitDump
  <2>1. UNCHANGED <<hot_log, phase>> /\ pc = "submit"
    BY <1>8 DEF SubmitDump
  <2>2. phase # "died" => hot_log = << >>
    BY <2>1 DEF LogsInv
  <2>3. Held(<< >>) = {}
    BY DEF Held, ToSet
  <2> QED BY <2>1, <2>2, <2>3 DEF HotInv
<1>9. CASE OpenAppend \/ CloseLog \/ ReopenLog \/ DumperStep \/ UNCHANGED vars
  <2>1. /\ UNCHANGED <<replay, memtables>> /\ ~ Cache
        /\ \/ pc = "append" /\ phase' = "write"
           \/ phase' = phase /\ pc \in {"close", "reopen"}
           \/ UNCHANGED <<phase, pc>>
    BY <1>9 DEF OpenAppend, CloseLog, ReopenLog, DumperStep, TakeJob, DumpKeys, DumpRecord,
      TruncateManifist, WriteManifist, EndDumping, Cache, Return, vars
  <2>2. Held(hot_log)' = Held(hot_log)
    <3>1. ~ LogRecord /\ ~ RenameLog
      BY <1>9 DEF OpenAppend, CloseLog, ReopenLog, DumperStep, TakeJob, DumpKeys, DumpRecord,
        TruncateManifist, WriteManifist, EndDumping, LogRecord, RenameLog, vars
    <3> QED BY <3>1, HeldStep
  <2> QED BY <1>0, <2>1, <2>2, HotFrame, <1>9 DEF PhaseOK
<1> QED
  BY <1>1, <1>2, <1>3, <1>4, <1>5, <1>6, <1>7, <1>8, <1>9 DEF Next, InitStep, SwitchStep

\* Without a dump the dumper waits.
LEMMA QuietDumper ==
  ASSUME ~ Busy, DumperStep
  PROVE  FALSE
BY DEF Busy, DumperStep, TakeJob, DumpKeys, DumpRecord, TruncateManifist, WriteManifist, EndDumping

\* The replay of the died log ends before its first job only when the slots have
\* run out, and what was promised has been read by then.
LEMMA PromisedIsRead ==
  ASSUME TypeInv, FirstInv, FirstReplay, pc = "submit"
  PROVE  ToSet(replay) \cap Promised = {}
<1>1. /\ died_log # Absent /\ Len(replay) <= Len(died_log)
      /\ slots + Len(died_log) - Len(replay) + 0 = RECORD_BUFF_SIZE /\ slots = 0
      /\ \A i \in DOMAIN replay : replay[i] = died_log[Len(died_log) - Len(replay) + i]
  BY DEF FirstReplay
<1>2. /\ died_log \in Seq(Records) /\ replay \in Seq(Records)
  BY <1>1 DEF TypeInv, DiskOK, MainOK
<1>3. /\ DOMAIN died_log = 1 .. Len(died_log) /\ DOMAIN replay = 1 .. Len(replay)
      /\ Len(died_log) \in Nat /\ Len(replay) \in Nat
  BY <1>2, LenProperties
<1>4. \A i \in DOMAIN replay : replay[i] \notin Promised
  <2>1. TAKE i \in DOMAIN replay
  <2>2. /\ Len(died_log) - Len(replay) = RECORD_BUFF_SIZE /\ i \in Nat /\ i >= 1 /\ i <= Len(replay)
    BY <1>1, <1>3, DBRecoveryAssumption
  <2>3. /\ RECORD_BUFF_SIZE + i \in DOMAIN died_log /\ ~ (RECORD_BUFF_SIZE + i <= RECORD_BUFF_SIZE)
    BY <1>3, <2>2, DBRecoveryAssumption
  <2>4. replay[i] = died_log[RECORD_BUFF_SIZE + i]
    BY <1>1, <2>2
  <2> QED BY <2>3, <2>4 DEF FirstInv
<1> QED BY <1>4 DEF ToSet

\* A step of the replay of the died log, before its first job.
LEMMA ReplayStep ==
  ASSUME TypeInv, SlotInv, OrderInv, FirstReplay, phase = "died",
         Recover \/ ReadRecord, Promised' \subseteq Promised
  PROVE  FirstReplay'
<1> USE DEF diskVars, mainVars, dumpVars, ghostVars
<1>0. /\ died_log # Absent /\ died_log \in Seq(Records) /\ Len(died_log) \in Nat
      /\ DOMAIN died_log = 1 .. Len(died_log)
      /\ replay \in Seq(Records) /\ Len(replay) \in Nat /\ Len(replay) <= Len(died_log)
      /\ DOMAIN replay = 1 .. Len(replay)
      /\ slots \in Nat /\ RECORD_BUFF_SIZE \in Nat
      /\ memtables \in SUBSET Records /\ Promised \subseteq Records
  BY LenProperties, DBRecoveryAssumption, PromisedType
    DEF TypeInv, DiskOK, MainOK, FirstReplay, SlotInv, SlotsOK
<1>1. CASE ReadRecord
  <2>1. /\ UNCHANGED <<died_log, replay, memtables>> /\ slots' = slots - 1
        /\ pc = "read" /\ pc' = "recover"
    BY <1>1 DEF ReadRecord, CanRead
  <2>2. slots + Len(died_log) - Len(replay) + 0 = RECORD_BUFF_SIZE
    BY <2>1 DEF FirstReplay
  <2>3. slots' + Len(died_log') - Len(replay') + 1 = RECORD_BUFF_SIZE
    BY <1>0, <2>1, <2>2
  <2> QED BY <2>1, <2>3 DEF FirstReplay
<1>2. CASE Recover
  <2> DEFINE first == Head(replay)
             gone == Len(died_log) - Len(replay)
  <2>1. /\ UNCHANGED <<died_log, slots>> /\ memtables' = Updated(memtables, first)
    BY <1>2 DEF Recover
  <2>2. /\ first \in Records /\ first = replay[1]
        /\ Len(replay) \in Nat \ {0} /\ Len(replay') = Len(replay) - 1
        /\ DOMAIN replay' = 1 .. Len(replay) - 1
        /\ \A i \in 1 .. Len(replay) - 1 : replay'[i] = replay[i + 1]
        /\ ToSet(replay) = {first} \cup ToSet(replay')
        /\ pc = "recover"
        /\ (pc' = "read" \/ (pc' = "submit" /\ slots = 0))
    BY <1>2, RecoverStep
  <2>3. \A i \in 1 .. Len(replay) : replay[i] = died_log[gone + i]
    BY <1>0 DEF FirstReplay
  <2> HIDE DEF first
  <2>4. slots + Len(died_log) - Len(replay) + 1 = RECORD_BUFF_SIZE
    BY <2>2 DEF FirstReplay
  <2>5. /\ slots' + Len(died_log') - Len(replay') + 0 = RECORD_BUFF_SIZE
        /\ Len(replay') <= Len(died_log')
        /\ pc' = "submit" => slots' = 0
    BY <1>0, <2>1, <2>2, <2>4
  <2>6. \A i \in DOMAIN replay' : replay'[i] = died_log'[Len(died_log') - Len(replay') + i]
    <3>1. TAKE i \in DOMAIN replay'
    <3>2. i \in 1 .. Len(replay) - 1
      BY <2>2
    <3>3. /\ i + 1 \in 1 .. Len(replay)
          /\ gone + (i + 1) = Len(died_log) - (Len(replay) - 1) + i
      BY <1>0, <3>2
    <3> QED BY <2>1, <2>2, <2>3, <3>2, <3>3
  <2>7. first \in Held(died_log)
    <3>1. gone + 1 \in DOMAIN died_log /\ 1 \in 1 .. Len(replay)
      BY <1>0, <2>2
    <3> QED BY <2>2, <2>3, <3>1 DEF Held, ToSet
  <2>8. \A r \in Promised \cap Held(died_log) :
          r \in ToSet(replay') \/ Covers(memtables' \cap Held(died_log), r)
    <3>1. SUFFICES ASSUME NEW r \in Promised \cap Held(died_log), r \notin ToSet(replay')
                   PROVE  Covers(memtables' \cap Held(died_log), r)
      OBVIOUS
    <3>2. Covers(memtables \cap Held(died_log), r) \/ r = first
      BY <2>2, <3>1 DEF FirstReplay
    <3>3. \A y \in memtables : y.id < first.id
      BY <2>2 DEF OrderInv, Below
    <3> QED BY <1>0, <2>1, <2>2, <2>7, <3>2, <3>3, CoverUpdated
  <2>9. pc' # "recover" /\ died_log' # Absent
    BY <1>0, <2>1, <2>2
  <2> HIDE DEF gone
  <2> QED BY <2>1, <2>5, <2>6, <2>8, <2>9 DEF FirstReplay
<1> QED BY <1>1, <1>2

LEMMA DiedStep ==
  ASSUME TypeInv, SlotInv, LogsInv, OrderInv, FirstInv, DiedInv, GateInv, [Next]_vars
  PROVE  DiedInv'
<1> USE DEF diskVars, mainVars, dumpVars, ghostVars
<1>0. /\ DiskOK /\ MainOK /\ PhaseOK /\ died_jobs \in Nat
      /\ ~ Cache => Promised' \subseteq Promised
  BY PromisedStep DEF TypeInv, GateInv
<1>1. CASE Crash \/ Abort
  <2>1. pc' = "down" /\ died_jobs' = 0 /\ jobs' = << >> /\ dumper' = "off"
    BY <1>1 DEF Crash, Abort, Dies
  <2> QED BY <2>1 DEF DiedInv, Busy
<1>2. CASE Boot
  <2>1. /\ pc' = "open" /\ died_jobs' = died_jobs /\ jobs' = << >> /\ dumper' = "take"
        /\ slots' = RECORD_BUFF_SIZE /\ phase = "died" /\ pc = "down"
    BY <1>0, <1>2 DEF Boot, PhaseOK, TypeInv, DownIsEmpty
  <2>2. died_jobs = 0
    BY <2>1 DEF DiedInv
  <2> QED BY <2>1, <2>2 DEF DiedInv, Busy
<1>3. CASE OpenLog
  <2>1. SUFFICES ASSUME phase' = "died" PROVE DiedInv'
    BY DEF DiedInv
  <2>2. /\ phase = "died" /\ pc = "open" /\ pc' = "read" /\ died_log # Absent /\ replay' = died_log
        /\ UNCHANGED <<died_log, slots, memtables, jobs, dumper, died_jobs>>
    BY <1>3, <2>1 DEF OpenLog, NextLog, LogToOpen
  <2>3. died_jobs = 0 /\ ~ Busy /\ slots = RECORD_BUFF_SIZE
    BY <2>2 DEF DiedInv
  <2>4. Len(died_log) \in Nat
    BY <1>0, <2>2, LenProperties DEF DiskOK
  <2>5. /\ Len(replay') <= Len(died_log')
        /\ slots' + Len(died_log') - Len(replay') + 0 = RECORD_BUFF_SIZE
        /\ \A i \in DOMAIN replay' : i \in Int => Len(died_log') - Len(replay') + i = i
    BY <2>2, <2>3, <2>4, DBRecoveryAssumption
  <2>6. \A i \in DOMAIN replay' : i \in Int
    BY <1>0, <2>2, LenProperties DEF DiskOK
  <2>7. \A r \in Promised' \cap Held(died_log') : r \in ToSet(replay')
    BY <2>2 DEF Held
  <2>8. FirstReplay'
    BY <2>2, <2>5, <2>6, <2>7 DEF FirstReplay
  <2> QED BY <2>2, <2>3, <2>8 DEF DiedInv, Busy
<1>4. CASE ReadRecord \/ Recover
  <2>1. /\ UNCHANGED <<phase, died_log, jobs, dumper, died_jobs>> /\ ~ Cache
        /\ pc \in {"read", "recover"}
    BY <1>4 DEF ReadRecord, CanRead, Recover, Cache
  <2>2. SUFFICES ASSUME phase = "died" PROVE DiedInv'
    BY <2>1 DEF DiedInv
  <2>3. pc' \in {"read", "recover", "submit"} /\ ToSet(replay') \subseteq ToSet(replay)
    <3>1. CASE ReadRecord
      BY <3>1 DEF ReadRecord
    <3>2. CASE Recover
      BY <2>2, <3>2, RecoverStep
    <3> QED BY <1>4, <3>1, <3>2
  <2>4. CASE died_jobs = 0
    <3>1. ~ Busy /\ FirstReplay
      BY <2>1, <2>2, <2>4 DEF DiedInv
    <3>2. FirstReplay'
      BY <1>0, <1>4, <2>1, <2>2, <3>1, ReplayStep
    <3> QED BY <2>1, <2>3, <2>4, <3>1, <3>2 DEF DiedInv, Busy
  <2>5. CASE died_jobs # 0
    <3>1. ToSet(replay) \cap Promised = {} /\ (~ Busy => died_log = Absent)
      BY <2>2, <2>5 DEF DiedInv
    <3> QED BY <1>0, <2>1, <2>3, <2>5, <3>1 DEF DiedInv, Busy
  <2> QED BY <2>4, <2>5
<1>5. CASE ReadEnd \/ OpenAppend \/ LogRecord \/ Cache \/ CloseLog \/ RenameLog \/ ReopenLog
  <2>1. phase' # "died"
    BY <1>0, <1>5 DEF ReadEnd, NextLog, OpenAppend, LogRecord, Cache, CloseLog, RenameLog, ReopenLog,
      PhaseOK, LogsInv
  <2> QED BY <2>1 DEF DiedInv
<1>6. CASE SubmitDump
  <2>1. /\ UNCHANGED <<phase, died_log, replay, dumper>> /\ pc = "submit" /\ ~ Cache
        /\ jobs' = Append(jobs, memtables)
    BY <1>6 DEF SubmitDump, Cache
  <2>2. SUFFICES ASSUME phase = "died" PROVE DiedInv'
    BY <2>1 DEF DiedInv
  <2>3. died_jobs' = died_jobs + 1 /\ pc' = "read"
    BY <1>6, <2>2 DEF SubmitDump
  <2>4. ToSet(replay) \cap Promised = {}
    <3>1. CASE died_jobs = 0
      BY <2>1, <2>2, <3>1, PromisedIsRead DEF DiedInv
    <3>2. CASE died_jobs # 0
      BY <2>2, <3>2 DEF DiedInv
    <3> QED BY <3>1, <3>2
  <2>5. jobs' # << >>
    BY <1>0, <2>1, AppendProperties DEF MainOK
  <2>6. died_jobs' # 0
    BY <1>0, <2>3
  <2> QED BY <1>0, <2>1, <2>3, <2>4, <2>5, <2>6 DEF DiedInv, Busy
<1>7. CASE DumperStep
  <2>1. /\ UNCHANGED <<phase, pc, replay, died_jobs>> /\ ~ Cache
        /\ \/ dumper' \notin {"off", "take"}
           \/ died_log' = Absent
    BY <1>7 DEF DumperStep, TakeJob, DumpKeys, DumpRecord, TruncateManifist, WriteManifist, EndDumping,
      Cache, Return
  <2>2. SUFFICES ASSUME phase = "died" PROVE DiedInv'
    BY <2>1 DEF DiedInv
  <2>3. died_jobs # 0
    BY <1>7, <2>2, QuietDumper DEF DiedInv
  <2>4. ToSet(replay) \cap Promised = {} /\ pc \notin {"down", "open"}
    BY <2>2, <2>3 DEF DiedInv
  <2> QED BY <1>0, <2>1, <2>3, <2>4 DEF DiedInv, Busy
<1>8. CASE UNCHANGED vars
  BY <1>8 DEF vars, DiedInv, Busy, FirstReplay, Promised
<1> QED
  BY <1>1, <1>2, <1>3, <1>4, <1>5, <1>6, <1>7, <1>8 DEF Next, InitStep, SwitchStep

LEMMA GateStep ==
  ASSUME TypeInv, SlotInv, LogsInv, KvsInv, DiedInv, GateInv, [Next]_vars
  PROVE  GateInv'
<1> USE DEF diskVars, mainVars, dumpVars, ghostVars
<1>0. DiskOK /\ MainOK /\ PhaseOK /\ LogIsOpen /\ died_jobs \in Nat
  BY DEF TypeInv, GateInv
<1>1. CASE Boot \/ Crash \/ Abort
  <2>1. phase' = "died" /\ jobs' = << >> /\ dumper' \in {"off", "take"} /\ died_jobs' \in Nat
    BY <1>0, <1>1 DEF Boot, Crash, Abort, Dies, TypeInv, DownIsEmpty
  <2> QED BY <2>1 DEF GateInv, Busy, Switched
<1>2. CASE OpenLog \/ ReadRecord \/ ReadEnd \/ Recover \/ OpenAppend \/ LogRecord \/ Cache \/ CloseLog
  <2>1. UNCHANGED <<died_log, jobs, dumper, died_jobs>>
    BY <1>2 DEF OpenLog, ReadRecord, ReadEnd, Recover, OpenAppend, LogRecord, Cache, CloseLog
  <2>2. phase' = "died" \/ pc' \notin {"reopen", "submit"}
    <3>1. CASE Recover
      BY <3>1, RecoverStep
    <3> QED BY <1>2, <3>1 DEF OpenLog, NextLog, ReadRecord, ReadEnd, OpenAppend, LogRecord, Cache,
      Return, CloseLog
  <2> QED BY <2>1, <2>2 DEF GateInv, Busy, Switched
<1>3. CASE RenameLog
  <2>1. /\ UNCHANGED <<jobs, dumper, died_jobs>> /\ pc = "rename"
        /\ died_log = Absent /\ died_log' = hot_log
    BY <1>3 DEF RenameLog
  <2>2. hot_log # Absent
    BY <1>0, <2>1, LogRecords DEF LogsInv, MainOK, LogIsOpen
  <2> QED BY <2>1, <2>2 DEF GateInv, Busy
<1>4. CASE ReopenLog
  <2>1. UNCHANGED <<died_log, jobs, dumper, died_jobs>> /\ (Switched' => Switched)
    BY <1>4 DEF ReopenLog, Switched
  <2> QED BY <2>1 DEF GateInv, Busy
<1>5. CASE SubmitDump
  <2>1. /\ UNCHANGED <<phase, died_log, dumper>> /\ pc = "submit" /\ jobs' = Append(jobs, memtables)
        /\ died_jobs' = (IF phase = "died" THEN died_jobs + 1 ELSE died_jobs)
        /\ pc' \in {"ready", "read"}
    BY <1>5 DEF SubmitDump, Return
  <2>2. ~ Switched' /\ died_jobs' \in Nat
    BY <1>0, <2>1 DEF Switched
  <2>3. SUFFICES ASSUME died_jobs' <= 1
                 PROVE  died_log # Absent /\ jobs = << >> /\ dumper \in {"off", "take"}
    <3>1. jobs = << >> => Len(jobs') = 1
      BY <1>0, <2>1, AppendProperties DEF MainOK
    <3> QED BY <2>1, <2>2, <2>3, <3>1 DEF GateInv
  <2>4. CASE phase = "died"
    <3>1. died_jobs = 0
      BY <1>0, <2>1, <2>3, <2>4
    <3> QED BY <2>1, <2>4, <3>1 DEF DiedInv, FirstReplay, Busy
  <2>5. CASE phase # "died"
    <3>1. Switched /\ died_jobs <= 1
      BY <2>1, <2>3, <2>5 DEF Switched
    <3> QED BY <3>1 DEF GateInv, Busy
  <2> QED BY <2>4, <2>5
<1>6. CASE DumperStep
  <2>1. UNCHANGED <<phase, pc, died_jobs>>
    BY <1>6 DEF DumperStep, TakeJob, DumpKeys, DumpRecord, TruncateManifist, WriteManifist, EndDumping
  <2>2. Busy
    BY <1>6, QuietDumper
  <2>3. SUFFICES ASSUME died_jobs <= 1 PROVE GateInv'
    BY <1>0, <2>1 DEF GateInv
  <2>4. /\ died_log # Absent /\ ~ Switched /\ Len(jobs) <= 1
        /\ dumper \notin {"off", "take"} => jobs = << >>
    BY <2>2, <2>3 DEF GateInv
  <2>5. ~ Switched'
    BY <2>1, <2>4 DEF Switched
  <2>6. CASE TakeJob
    <3>1. jobs # << >> /\ jobs' = Tail(jobs) /\ jobs \in Seq(SUBSET Records) /\ died_log' = died_log
      BY <1>0, <2>6 DEF TakeJob, MainOK
    <3>2. Len(jobs) \in Nat /\ Len(jobs) # 0 /\ Len(jobs) <= 1
      BY <2>4, <3>1, LenProperties, EmptySeq
    <3>3. Len(jobs') = Len(jobs) - 1 /\ jobs' \in Seq(SUBSET Records)
      BY <3>1, HeadTailProperties
    <3>4. Len(jobs') = 0
      BY <3>2, <3>3
    <3>5. jobs' = << >>
      BY <3>3, <3>4, EmptySeq
    <3> QED BY <1>0, <2>1, <2>4, <2>5, <3>1, <3>4, <3>5 DEF GateInv, Busy
  <2>7. CASE DumpKeys \/ DumpRecord \/ TruncateManifist \/ WriteManifist
    <3>1. UNCHANGED <<died_log, jobs>> /\ dumper \notin {"off", "take"}
      BY <2>7 DEF DumpKeys, DumpRecord, TruncateManifist, WriteManifist
    <3> QED BY <1>0, <2>1, <2>4, <2>5, <3>1 DEF GateInv, Busy
  <2>8. CASE EndDumping
    <3>1. jobs' = jobs /\ jobs = << >> /\ dumper' = "take"
      BY <2>4, <2>8 DEF EndDumping
    <3> QED BY <1>0, <2>1, <2>4, <2>5, <3>1 DEF GateInv, Busy
  <2> QED BY <1>6, <2>6, <2>7, <2>8 DEF DumperStep
<1>7. CASE UNCHANGED vars
  BY <1>7 DEF vars, GateInv, Busy, Switched
<1> QED
  BY <1>1, <1>2, <1>3, <1>4, <1>5, <1>6, <1>7 DEF Next, InitStep, SwitchStep

-----------------------------------------------------------------------------
(* From the died log to a file                                             *)

\* Steps that leave the died log and the dumps on their way as they are.
LEMMA JobFrame ==
  ASSUME JobInv, Safe \subseteq Safe', unread \subseteq unread', died_log' = died_log,
         Due \subseteq Due', Busy' \/ Switched' => Busy \/ Switched,
         Promised' \cap Held(died_log) \subseteq Promised
  PROVE  JobInv'
<1>1. SUFFICES ASSUME Busy \/ Switched, NEW r \in Promised \cap Held(died_log)
               PROVE  \/ r \in unread' \/ Covers(Safe', r) \/ Covers(Held(died_log) \cap Due', r)
  BY DEF JobInv
<1>2. r \in unread \/ Covers(Safe, r) \/ Covers(Held(died_log) \cap Due, r)
  BY <1>1 DEF JobInv
<1>3. Held(died_log) \cap Due \subseteq Held(died_log) \cap Due'
  OBVIOUS
<1> QED BY <1>2, <1>3, CoversGrows

\* What the jobs hold when one comes or goes.
LEMMA AppendSet ==
  ASSUME NEW S, NEW s \in Seq(S), NEW j \in S
  PROVE  ToSet(Append(s, j)) = ToSet(s) \cup {j}
<1> DEFINE t == Append(s, j)
<1>1. /\ DOMAIN t = 1 .. Len(s) + 1 /\ DOMAIN s = 1 .. Len(s) /\ Len(s) \in Nat
      /\ \A i \in 1 .. Len(s) : t[i] = s[i]
      /\ t[Len(s) + 1] = j
  BY AppendProperties, LenProperties
<1> HIDE DEF t
<1>2. ToSet(t) = ToSet(s) \cup {j}
  BY <1>1 DEF ToSet
<1> QED BY <1>2 DEF t

LEMMA TailUnion ==
  ASSUME NEW S, NEW s \in Seq(S), s # << >>
  PROVE  UNION ToSet(s) = Head(s) \cup UNION ToSet(Tail(s))
<1> DEFINE t == Tail(s)
<1>1. /\ Len(s) \in Nat /\ Len(s) # 0 /\ Head(s) = s[1] /\ DOMAIN s = 1 .. Len(s)
      /\ DOMAIN t = 1 .. Len(s) - 1
      /\ \A i \in 1 .. Len(s) - 1 : t[i] = s[i + 1]
  BY HeadTailProperties, LenProperties, EmptySeq
<1> HIDE DEF t
<1>2. ToSet(s) = {Head(s)} \cup ToSet(t)
  <2>1. \A i \in 1 .. Len(s) : i = 1 \/ (i - 1 \in 1 .. Len(s) - 1 /\ s[i] = t[i - 1])
    <3>1. TAKE i \in 1 .. Len(s)
    <3>2. i = 1 \/ (i - 1 \in 1 .. Len(s) - 1 /\ (i - 1) + 1 = i)
      BY <1>1
    <3> QED BY <1>1, <3>2
  <2>2. (\A i \in 1 .. Len(s) - 1 : i + 1 \in 1 .. Len(s)) /\ 1 \in 1 .. Len(s)
    BY <1>1
  <2>3. \A x \in ToSet(s) : x = Head(s) \/ x \in ToSet(t)
    BY <1>1, <2>1 DEF ToSet
  <2>4. \A x \in ToSet(t) : x \in ToSet(s)
    BY <1>1, <2>2 DEF ToSet
  <2>5. Head(s) \in ToSet(s)
    BY <1>1, <2>2 DEF ToSet
  <2> QED BY <2>3, <2>4, <2>5
<1>3. UNION ToSet(s) = Head(s) \cup UNION ToSet(t)
  BY <1>2
<1> QED BY <1>3 DEF t

LEMMA JobStep ==
  ASSUME TypeInv, SlotInv, FilesInv, KvsInv, LogsInv, OrderInv, FirstInv, HotInv, DiedInv, GateInv,
         JobInv, [Next]_vars
  PROVE  JobInv'
<1> USE DEF diskVars, mainVars, dumpVars, ghostVars
<1>0. /\ DiskOK /\ MainOK /\ PhaseOK /\ Safe \subseteq Safe' /\ Promised \subseteq Records
      /\ ~ Cache => Promised' \subseteq Promised
  BY PromisedType, PromisedStep, SafeGrows DEF TypeInv
<1>1. CASE Boot \/ Crash \/ Abort
  <2>1. phase' = "died" /\ jobs' = << >> /\ dumper' \in {"off", "take"}
    BY <1>1 DEF Boot, Crash, Abort, Dies, TypeInv, DownIsEmpty
  <2> QED BY <2>1 DEF JobInv, Busy, Switched
<1>2. CASE OpenLog \/ ReadRecord \/ ReadEnd \/ OpenAppend \/ LogRecord \/ CloseLog
  <2>1. /\ UNCHANGED <<unread, died_log, kvs, jobs, dumper>> /\ ~ Cache
        /\ pc' \notin {"reopen", "submit"} /\ pc \notin {"reopen", "submit"}
    BY <1>2 DEF OpenLog, NextLog, ReadRecord, CanRead, ReadEnd, OpenAppend, LogRecord, CloseLog, Cache
  <2>2. Due' = Due /\ (Busy' \/ Switched' => Busy \/ Switched)
    BY <2>1 DEF Due, Busy, Switched
  <2> QED BY <1>0, <2>1, <2>2, JobFrame
<1>3. CASE Recover
  <2>1. UNCHANGED <<died_log, kvs, jobs, dumper>> /\ unread' = unread \ {Head(replay)} /\ ~ Cache
    BY <1>3 DEF Recover, Cache
  <2>2. /\ pc = "recover" /\ phase # "write" /\ ~ Switched /\ ~ Switched'
        /\ Head(replay) \in ToSet(replay) /\ Head(replay) \in Records
    BY <1>3, RecoverStep DEF Switched
  <2>3. Due' = Due /\ (Busy' => Busy)
    BY <2>1, <2>2 DEF Due, Busy
  <2>4. ASSUME Busy PROVE Head(replay) \notin Promised \cap Held(died_log)
    <3>1. CASE phase = "hot"
      <4>1. Head(replay) \in Held(hot_log) /\ Head(replay).id \in Nat
        BY <2>2, <3>1, RecordIds DEF LogsInv, Fetching
      <4>2. Below(Held(died_log), Held(hot_log))
        BY DEF OrderInv
      <4> QED BY <4>1, <4>2 DEF Below
    <3>2. CASE phase = "died"
      BY <2>2, <2>4, <3>2 DEF DiedInv
    <3> QED BY <1>0, <2>2, <3>1, <3>2 DEF MainOK
  <2>5. SUFFICES ASSUME Busy, NEW r \in Promised \cap Held(died_log)
                 PROVE  r \in unread' \/ Covers(Safe', r) \/ Covers(Held(died_log) \cap Due, r)
    BY <1>0, <2>1, <2>2, <2>3 DEF JobInv
  <2>6. r \in unread \/ Covers(Safe, r) \/ Covers(Held(died_log) \cap Due, r)
    BY <2>5 DEF JobInv
  <2> QED BY <1>0, <2>1, <2>4, <2>5, <2>6, CoversGrows
<1>4. CASE Cache
  <2>1. /\ UNCHANGED <<unread, died_log, kvs, jobs, dumper>> /\ phase = "write" /\ pc = "cache"
        /\ pc' \notin {"reopen", "submit"}
    BY <1>0, <1>4 DEF Cache, Return, PhaseOK
  <2>2. Due' = Due /\ (Busy' \/ Switched' => Busy \/ Switched)
    BY <2>1 DEF Due, Busy, Switched
  <2>3. Promised' \subseteq Promised \cup {gather} /\ gather \notin Held(died_log)
    BY <2>1, PromisedStep, WrittenIsHot
  <2> QED BY <1>0, <2>1, <2>2, <2>3, JobFrame
<1>5. CASE RenameLog
  <2>1. /\ pc = "rename" /\ pc' = "reopen" /\ UNCHANGED <<phase, replay, memtables>> /\ ~ Cache
        /\ unread' = unread \cup ToSet(replay) /\ phase # "died"
    BY <1>5 DEF RenameLog, Cache, LogsInv
  <2>2. Held(died_log)' = Held(hot_log) /\ Switched'
    BY <1>5, <2>1, HeldStep DEF Switched
  <2>3. memtables \subseteq Due'
    BY <2>1, <2>2 DEF Due
  <2>4. SUFFICES ASSUME NEW r \in Promised \cap Held(hot_log)
                 PROVE  r \in unread' \/ Covers(Held(hot_log) \cap Due', r)
    BY <1>0, <2>1, <2>2 DEF JobInv
  <2>5. r \in ToSet(replay) \/ Covers(memtables \cap Held(hot_log), r)
    BY <1>0, <2>1, <2>4 DEF HotInv, MainOK
  <2>6. memtables \cap Held(hot_log) \subseteq Held(hot_log) \cap Due'
    BY <2>3
  <2> QED BY <2>1, <2>5, <2>6, CoversGrows
<1>6. CASE ReopenLog
  <2>1. UNCHANGED <<unread, died_log, kvs, jobs, dumper, memtables, phase>> /\ ~ Cache
        /\ pc = "reopen" /\ pc' = "submit"
    BY <1>6 DEF ReopenLog, Cache
  <2>2. Due' = Due /\ (Busy' \/ Switched' => Busy \/ Switched)
    BY <2>1 DEF Due, Busy, Switched
  <2> QED BY <1>0, <2>1, <2>2, JobFrame
<1>7. CASE SubmitDump
  <2>1. /\ UNCHANGED <<unread, died_log, kvs, dumper, phase>> /\ ~ Cache
        /\ jobs' = Append(jobs, memtables) /\ pc = "submit" /\ pc' \notin {"reopen", "submit"}
    BY <1>7 DEF SubmitDump, Return, Cache
  <2>2. UNION ToSet(jobs') = (UNION ToSet(jobs)) \cup memtables
    <3>1. jobs \in Seq(SUBSET Records) /\ memtables \in SUBSET Records
      BY <1>0 DEF MainOK
    <3>2. ToSet(Append(jobs, memtables)) = ToSet(jobs) \cup {memtables}
      BY <3>1, AppendSet
    <3>3. ToSet(jobs') = ToSet(jobs) \cup {memtables}
      BY <2>1, <3>2
    <3> QED BY <3>3
  <2>3. Due \subseteq Due' /\ memtables \subseteq Due'
    BY <2>1, <2>2 DEF Due
  <2>4. CASE Busy \/ Switched
    BY <1>0, <2>1, <2>3, <2>4, JobFrame
  <2>5. CASE ~ Busy /\ ~ Switched
    <3>1. phase = "died"
      BY <2>1, <2>5 DEF Switched
    <3>2. CASE died_jobs # 0
      BY <2>1, <2>5, <3>1, <3>2, AbsentHolds DEF DiedInv, JobInv
    <3>3. CASE died_jobs = 0
      <4>1. FirstReplay
        BY <2>1, <3>1, <3>3 DEF DiedInv
      <4>2. ToSet(replay) \cap Promised = {}
        BY <2>1, <4>1, PromisedIsRead
      <4>3. \A r \in Promised \cap Held(died_log) : Covers(memtables \cap Held(died_log), r)
        BY <4>1, <4>2 DEF FirstReplay
      <4>4. memtables \cap Held(died_log) \subseteq Held(died_log) \cap Due'
        BY <2>3
      <4>5. \A r \in Promised \cap Held(died_log) : Covers(Held(died_log) \cap Due', r)
        BY <4>3, <4>4, CoversGrows
      <4> QED BY <1>0, <2>1, <4>5 DEF JobInv
    <3> QED BY <3>2, <3>3
  <2> QED BY <2>4, <2>5
<1>8. CASE TakeJob
  <2>1. /\ UNCHANGED <<unread, died_log, phase, pc, memtables>> /\ ~ Cache
        /\ jobs # << >> /\ kvs' = Head(jobs) /\ jobs' = Tail(jobs) /\ dumper = "take"
    BY <1>8 DEF TakeJob, Cache, Return
  <2>2. UNION ToSet(jobs) = Head(jobs) \cup UNION ToSet(Tail(jobs))
    BY <1>0, <2>1, TailUnion DEF MainOK
  <2>3. kvs = {}
    BY <2>1 DEF KvsInv
  <2>4. Due' = Due /\ Busy
    BY <2>1, <2>2, <2>3 DEF Due, Switched, Busy
  <2> QED BY <1>0, <2>1, <2>4, JobFrame
<1>9. CASE DumpKeys \/ DumpRecord \/ TruncateManifist \/ WriteManifist
  <2>1. /\ UNCHANGED <<unread, died_log, phase, pc, memtables, jobs, kvs>> /\ ~ Cache
        /\ dumper \notin {"off", "take"}
    BY <1>9 DEF DumpKeys, DumpRecord, TruncateManifist, WriteManifist, Cache, Return
  <2>2. Due' = Due /\ Busy
    BY <2>1 DEF Due, Switched, Busy
  <2> QED BY <1>0, <2>1, <2>2, JobFrame
<1>10. CASE EndDumping
  BY <1>10, HeldStep DEF JobInv
<1>11. CASE UNCHANGED vars
  <2>1. UNCHANGED <<unread, died_log, phase, pc, memtables, jobs, kvs, dumper, acked, gather>>
    BY <1>11 DEF vars
  <2>2. Due' = Due /\ (Busy' \/ Switched' => Busy \/ Switched) /\ Promised' = Promised
    BY <2>1 DEF Due, Switched, Busy, Promised
  <2> QED BY <1>0, <2>1, <2>2, JobFrame
<1> QED
  BY <1>1, <1>2, <1>3, <1>4, <1>5, <1>6, <1>7, <1>8, <1>9, <1>10, <1>11
    DEF Next, InitStep, SwitchStep, DumperStep

\* The end of a dump takes a died log only with records that have arrived, but
\* for the losses known.
LEMMA EndKeeps ==
  ASSUME TypeInv, KvsInv, GateInv, JobInv, EndDumping, Safe \subseteq Safe',
         NEW r \in Promised \cap Held(died_log)
  PROVE  Covers(Safe', r)
<1>1. /\ dumper = "end" /\ Busy
      /\ damaged' = damaged \cup (NotYetDumped \cap ToSet(died_log))
  BY DEF EndDumping, Busy
<1>2. \A x \in NotYetDumped \cap Held(died_log) : x \in Safe'
  BY <1>1 DEF Safe, Held
<1>3. CASE r \in unread
  <2>1. r \in Safe' /\ r.id \in Nat
    BY <1>2, <1>3, RecordIds DEF NotYetDumped, Held
  <2> QED BY <2>1 DEF Covers
<1>4. CASE Covers(Safe, r)
  BY <1>4, CoversGrows
<1>5. CASE Covers(Held(died_log) \cap Due, r)
  <2>1. Held(died_log) \cap Due \subseteq Safe'
    <3>1. SUFFICES ASSUME NEW x \in Held(died_log) \cap Due PROVE x \in Safe'
      OBVIOUS
    <3>2. CASE x \in kvs
      BY <1>1, <3>2 DEF KvsInv
    <3>3. CASE died_jobs > 1 /\ x \notin kvs
      <4>1. x \in NotYetDumped
        BY <3>1, <3>3 DEF Due, NotYetDumped
      <4> QED BY <1>2, <3>1, <4>1
    <3>4. CASE died_jobs <= 1 /\ x \notin kvs
      <4>1. jobs = << >> /\ ~ Switched
        BY <1>1, <3>4 DEF GateInv
      <4>2. ToSet(<< >>) = {}
        BY DEF ToSet
      <4> QED BY <3>1, <3>4, <4>1, <4>2 DEF Due
    <3>5. died_jobs \in Nat
      BY DEF GateInv
    <3> QED BY <3>2, <3>3, <3>4, <3>5
  <2> QED BY <1>5, <2>1, CoversGrows
<1> QED BY <1>1, <1>3, <1>4, <1>5 DEF JobInv

LEMMA KeptStep ==
  ASSUME TypeInv, SlotInv, FilesInv, KvsInv, LogsInv, OrderInv, GateInv, JobInv, KeptInv,
         [Next]_vars
  PROVE  KeptInv'
<1> USE DEF diskVars, mainVars, dumpVars, ghostVars
<1>0. PhaseOK /\ Safe \subseteq Safe'
  BY SafeGrows DEF TypeInv
<1>1. SUFFICES ASSUME NEW r \in Promised'
               PROVE  r \in (Held(hot_log) \cup Held(died_log))' \/ Covers(Safe', r)
  BY DEF KeptInv
<1>2. r \in Held(hot_log) \cup Held(died_log) \/ Covers(Safe, r)
  <2>1. CASE r \in Promised
    BY <2>1 DEF KeptInv
  <2>2. CASE r \notin Promised
    <3>1. Cache /\ r = gather
      BY <1>1, <2>2, PromisedStep
    <3>2. phase = "write" /\ pc = "cache"
      BY <1>0, <3>1 DEF Cache, PhaseOK
    <3> QED BY <3>1, <3>2, WrittenIsHot
  <2> QED BY <2>1, <2>2
<1>3. CASE Covers(Safe, r)
  BY <1>0, <1>3, CoversGrows
<1>4. CASE r \in Held(hot_log) \cup Held(died_log) /\ ~ EndDumping
  <2>1. (Held(hot_log) \cup Held(died_log)) \subseteq (Held(hot_log) \cup Held(died_log))'
    <3>1. CASE RenameLog
      BY <3>1, HeldStep
    <3>2. CASE ~ RenameLog
      <4>1. died_log' = died_log
        BY <1>4, <3>2, HeldStep
      <4>2. Held(hot_log) \subseteq Held(hot_log)'
        BY <3>2, HeldStep
      <4> QED BY <4>1, <4>2
    <3> QED BY <3>1, <3>2
  <2> QED BY <1>4, <2>1
<1>5. CASE r \in Held(hot_log) \cup Held(died_log) /\ EndDumping
  <2>1. Promised' = Promised /\ hot_log' = hot_log
    BY <1>5 DEF EndDumping, Promised
  <2>2. CASE r \in Held(hot_log)
    BY <2>1, <2>2
  <2>3. CASE r \in Held(died_log)
    BY <1>0, <1>1, <1>5, <2>1, <2>3, EndKeeps
  <2> QED BY <1>5, <2>2, <2>3
<1> QED BY <1>2, <1>3, <1>4, <1>5

-----------------------------------------------------------------------------
(* The whole invariant                                                     *)

AckedInv ==
  /\ KvsInv /\ LogsInv /\ OrderInv /\ CountInv /\ FirstInv
  /\ HotInv /\ DiedInv /\ GateInv /\ JobInv /\ KeptInv

LEMMA InitAckedInv == Init => AckedInv
<1> SUFFICES ASSUME Init PROVE AckedInv
  OBVIOUS
<1>1. /\ hot_log = Absent /\ died_log = Absent /\ phase = "died" /\ pc = "down"
      /\ replay = << >> /\ memtables = {} /\ jobs = << >> /\ dumper = "off" /\ kvs = {}
      /\ acked = {} /\ died_jobs = 0
  BY DEF Init
<1>2. /\ Held(hot_log) = {} /\ Held(died_log) = {} /\ Promised = {} /\ ~ Busy /\ ~ Switched
      /\ ~ Fetching /\ ToSet(replay) = {}
  BY <1>1, AbsentHolds DEF Promised, Busy, Switched, Fetching, ToSet
<1>3. KvsInv /\ LogsInv /\ CountInv /\ FirstInv
  BY <1>1, <1>2 DEF KvsInv, LogsInv, CountInv, FirstInv
<1>4. OrderInv
  BY <1>1, <1>2, EndsAscend DEF OrderInv, Below
<1>5. HotInv /\ DiedInv /\ JobInv /\ KeptInv
  BY <1>1, <1>2 DEF HotInv, DiedInv, JobInv, KeptInv
<1>6. GateInv
  BY <1>1, <1>2 DEF GateInv
<1> QED BY <1>3, <1>4, <1>5, <1>6 DEF AckedInv

LEMMA AckedInvStep ==
  TypeInv /\ SlotInv /\ FilesInv /\ AckedInv /\ [Next]_vars /\ TypeInv' /\ SlotInv' => AckedInv'
BY KvsStep, LogsStep, OrderStep, CountStep, FirstStep, HotStep, DiedStep, GateStep, JobStep, KeptStep
  DEF AckedInv

LEMMA KeptMeansSurvives == TypeInv /\ KeptInv => AckedSurvives
<1> SUFFICES ASSUME TypeInv, KeptInv, NEW r \in acked
             PROVE  \E later \in Records :
                      later.key = r.key /\ later.id >= r.id /\ (OnDisk(later) \/ later \in damaged)
  BY DEF AckedSurvives
<1>0. /\ r \in Promised /\ r \in Records /\ r.id \in Nat /\ damaged \subseteq Records /\ DiskOK
      /\ DumperOK
  BY RecordIds DEF Promised, TypeInv, GhostOK
<1>1. CASE r \in Held(hot_log) \cup Held(died_log)
  <2>1. OnDisk(r) /\ r.id >= r.id
    BY <1>0, <1>1 DEF OnDisk, Held
  <2> QED BY <1>0, <2>1
<1>2. CASE Covers(Safe, r)
  <2>1. PICK x \in Safe : x.key = r.key /\ x.id >= r.id
    BY <1>2 DEF Covers
  <2>2. CASE x \in damaged
    BY <1>0, <2>1, <2>2
  <2>3. CASE x \notin damaged
    <3>1. PICK n \in Listed : x \in FileRecords(n)
      BY <2>1, <2>3 DEF Safe
    <3>2. n \in 0 .. Len(files) - 1
      BY <1>0, LenProperties DEF Listed, DiskOK, DumperOK
    <3>3. x \in Records
      BY <1>0, <3>1, <3>2, FileRecordsType
    <3>4. OnDisk(x)
      BY <3>1 DEF OnDisk
    <3> QED BY <2>1, <3>3, <3>4
  <2> QED BY <2>2, <2>3
<1> QED BY <1>0, <1>1, <1>2 DEF KeptInv

\* A record whose write has returned, or a later record of its key, is in a log
\* or in a listed file at every moment, or is one that the losses described at
\* AckedSurvives take: switching the log, dumping, and replaying the logs after
\* any crash lose nothing else, whatever the size of the cache and the number of
\* crashes.
THEOREM AckedIsKept == Spec => []AckedSurvives
<1>1. Init => FilesInv /\ AckedInv
  BY InitAckedInv DEF Init, FilesInv
<1>2. TypeInv /\ SlotInv /\ FilesInv /\ AckedInv /\ [Next]_vars /\ (TypeInv /\ SlotInv)'
        => (FilesInv /\ AckedInv)'
  BY FilesInvStep, AckedInvStep
<1>3. TypeInv /\ AckedInv => AckedSurvives
  BY KeptMeansSurvives DEF AckedInv
<1> QED BY <1>1, <1>2, <1>3, TypesAndSlots, PTL DEF Spec
=============================================================================
