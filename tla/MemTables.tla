------------------------------ MODULE MemTables ------------------------------
(***************************************************************************)
(* The life of the memtables: class MemTables from its constructor to its  *)
(* destructor, with the thread that makes empty lists and the thread that  *)
(* dumps full ones.  What is in a list, and what a dump does with it, is   *)
(* the matter of DBSystem; here a list is its number in the order of       *)
(* creation, and a dump is one step.                                       *)
(*                                                                         *)
(* The destructor runs when no writer is in a call; the two threads may be *)
(* anywhere.                                                               *)
(***************************************************************************)
EXTENDS WaitQueue, Integers, FiniteSets

CONSTANTS
  Writers,
  MEMTABLE_CO_WRITE_NUM,   \* lists that are written to at a time
  CanInsertCapacity, WaitForDumpCapacity,
  MaxDumps                 \* bound: number of calls of submit_dump

Main    == "main"
Creator == "creater_thread"
Dumper  == "dumper_thread"
Threads == Writers \cup {Main, Creator, Dumper}
Nobody  == "nobody"

ASSUME MemTablesAssumption ==
  /\ MEMTABLE_CO_WRITE_NUM \in Nat \ {0} /\ CanInsertCapacity \in Nat \ {0}
  /\ WaitForDumpCapacity \in Nat /\ WaitForDumpCapacity >= 2
  /\ MaxDumps \in Nat
  /\ Writers \cap {Main, Creator, Dumper, Nobody} = {}

VARIABLES
  memtables_can_insert, memtables_wait_for_dump, \* the queues
  if_working,
  current_memtables,
  list_mutex,   \* who holds current_memtable_list_mutex
  pc,
  created,      \* number of lists made
  dump_seq,     \* the lists a writer has taken to submit
  curr_writing, \* the job of the dumper
  tmp,          \* the lists stop_working has taken and dropped
  died_log,     \* the died log exists
  dumped,       \* lists that were dumped
  dumps         \* number of calls of submit_dump

queues == <<memtables_can_insert, memtables_wait_for_dump>>
vars == <<queues, if_working, current_memtables, list_mutex, pc, created, dump_seq,
          curr_writing, tmp, died_log, dumped, dumps>>

nullptr == << >>   \* no job

Init ==
  /\ memtables_can_insert = EmptyQueue /\ memtables_wait_for_dump = EmptyQueue
  /\ if_working = TRUE
  /\ current_memtables = << >> /\ list_mutex = Nobody
  /\ pc = [t \in Threads |->
             CASE t = Main -> "start" [] t \in Writers -> "idle" [] OTHER -> "off"]
  /\ created = 0
  /\ dump_seq = [w \in Writers |-> nullptr] /\ curr_writing = nullptr /\ tmp = << >>
  /\ died_log = FALSE /\ dumped = {} /\ dumps = 0

Goto(t, label) == pc' = [pc EXCEPT ![t] = label]

-----------------------------------------------------------------------------
(* The queues *)

AtListPop(t) == pc[t] \in {"fill", "drain", "refill"}
AtJobPush(t) == pc[t] \in {"submit", "stop"}

\* wait_and_pop of a list.
PopList(t, l) ==
  /\ AtListPop(t) /\ ~ Asleep(memtables_can_insert, t)
  /\ ~ IsEmpty(memtables_can_insert) /\ l = Front(memtables_can_insert)
  /\ memtables_can_insert' \in Popped(memtables_can_insert)
  /\ UNCHANGED memtables_wait_for_dump

\* wait_and_push of a job.  No one sleeps here: LeftJobHasLog keeps the queue
\* from being full.
PushJob(t, job) ==
  /\ AtJobPush(t) /\ ~ Asleep(memtables_wait_for_dump, t)
  /\ ~ IsFull(memtables_wait_for_dump, WaitForDumpCapacity)
  /\ memtables_wait_for_dump' \in Pushed(memtables_wait_for_dump, job)
  /\ UNCHANGED memtables_can_insert

SleepOnLists(t) ==
  /\ ~ Asleep(memtables_can_insert, t)
  /\ \/ /\ AtListPop(t) /\ IsEmpty(memtables_can_insert)
        /\ memtables_can_insert' = SleepToPop(memtables_can_insert, t)
     \/ /\ pc[t] = "push" /\ IsFull(memtables_can_insert, CanInsertCapacity)
        /\ memtables_can_insert' = SleepToPush(memtables_can_insert, t)
  /\ UNCHANGED <<memtables_wait_for_dump, if_working, current_memtables, list_mutex, pc,
                 created, dump_seq, curr_writing, tmp, died_log, dumped, dumps>>

SleepOnJobs(t) ==
  /\ ~ Asleep(memtables_wait_for_dump, t)
  /\ pc[t] = "take" /\ IsEmpty(memtables_wait_for_dump)
  /\ memtables_wait_for_dump' = SleepToPop(memtables_wait_for_dump, t)
  /\ UNCHANGED <<memtables_can_insert, if_working, current_memtables, list_mutex, pc,
                 created, dump_seq, curr_writing, tmp, died_log, dumped, dumps>>

SpuriousWakeup ==
  /\ \/ /\ memtables_can_insert' \in WokenSpuriously(memtables_can_insert)
        /\ UNCHANGED memtables_wait_for_dump
     \/ /\ memtables_wait_for_dump' \in WokenSpuriously(memtables_wait_for_dump)
        /\ UNCHANGED memtables_can_insert
  /\ UNCHANGED <<if_working, current_memtables, list_mutex, pc,
                 created, dump_seq, curr_writing, tmp, died_log, dumped, dumps>>

-----------------------------------------------------------------------------
(* The constructor *)

StartWorking ==
  /\ pc[Main] = "start"
  /\ if_working' = TRUE
  /\ pc' = [pc EXCEPT ![Main] = "fill", ![Creator] = "test", ![Dumper] = "test"]
  /\ UNCHANGED <<queues, current_memtables, list_mutex, created, dump_seq, curr_writing,
                 tmp, died_log, dumped, dumps>>

Fill ==
  /\ pc[Main] = "fill"
  /\ \E l \in 1 .. created :
       PopList(Main, l) /\ current_memtables' = <<l>> \o current_memtables
  /\ IF Len(current_memtables') = MEMTABLE_CO_WRITE_NUM THEN Goto(Main, "open")
                                                        ELSE UNCHANGED pc
  /\ UNCHANGED <<if_working, list_mutex, created, dump_seq, curr_writing, tmp, died_log,
                 dumped, dumps>>

-----------------------------------------------------------------------------
(* buffers_creater and buffers_dumper *)

\* while (if_working); the creator then makes a list.
TestWorking(t) ==
  /\ pc[t] = "test"
  /\ Goto(t, IF ~ if_working THEN "exited" ELSE IF t = Creator THEN "push" ELSE "take")
  /\ created' = IF if_working /\ t = Creator THEN created + 1 ELSE created
  /\ UNCHANGED <<queues, if_working, current_memtables, list_mutex, dump_seq, curr_writing,
                 tmp, died_log, dumped, dumps>>

PushList ==
  /\ pc[Creator] = "push" /\ ~ Asleep(memtables_can_insert, Creator)
  /\ ~ IsFull(memtables_can_insert, CanInsertCapacity)
  /\ memtables_can_insert' \in Pushed(memtables_can_insert, created)
  /\ Goto(Creator, "test")
  /\ UNCHANGED <<memtables_wait_for_dump, if_working, current_memtables, list_mutex,
                 created, dump_seq, curr_writing, tmp, died_log, dumped, dumps>>

TakeJob ==
  /\ pc[Dumper] = "take" /\ ~ Asleep(memtables_wait_for_dump, Dumper)
  /\ ~ IsEmpty(memtables_wait_for_dump)
  /\ curr_writing' = Front(memtables_wait_for_dump)
  /\ memtables_wait_for_dump' \in Popped(memtables_wait_for_dump)
  /\ Goto(Dumper, IF curr_writing' = nullptr THEN "test" ELSE "dump")
  /\ UNCHANGED <<memtables_can_insert, if_working, current_memtables, list_mutex,
                 created, dump_seq, tmp, died_log, dumped, dumps>>

\* Merge, dump_all and, at its end, the removal of the died log.
Dump ==
  /\ pc[Dumper] = "dump"
  /\ dumped' = dumped \cup {curr_writing[i] : i \in DOMAIN curr_writing}
  /\ curr_writing' = nullptr /\ died_log' = FALSE
  /\ Goto(Dumper, "test")
  /\ UNCHANGED <<queues, if_working, current_memtables, list_mutex, created, dump_seq,
                 tmp, dumps>>

-----------------------------------------------------------------------------
(* A writer that has filled the cache *)

\* Mutant: the died log is not waited for.
SwitchLogWithoutWait(w) ==
  /\ pc[w] = "idle" /\ pc[Main] = "open" /\ dumps < MaxDumps
  /\ died_log' = TRUE /\ dumps' = dumps + 1
  /\ Goto(w, "lock")
  /\ UNCHANGED <<queues, if_working, current_memtables, list_mutex, created, dump_seq,
                 curr_writing, tmp, dumped>>

\* switch_log, once the died log is gone.
SwitchLog(w) ==
  /\ pc[w] = "idle" /\ pc[Main] = "open" /\ dumps < MaxDumps
  /\ ~ died_log /\ died_log' = TRUE
  /\ dumps' = dumps + 1
  /\ Goto(w, "lock")
  /\ UNCHANGED <<queues, if_working, current_memtables, list_mutex, created, dump_seq,
                 curr_writing, tmp, dumped>>

\* Mutant: the lists stay where they are.
TakeListsKeeping(w) ==
  /\ pc[w] = "lock" /\ list_mutex = Nobody
  /\ list_mutex' = w
  /\ dump_seq' = [dump_seq EXCEPT ![w] = current_memtables]
  /\ current_memtables' = Tail(current_memtables)
  /\ Goto(w, "refill")
  /\ UNCHANGED <<queues, if_working, created, curr_writing, tmp, died_log, dumped, dumps>>

\* submit_dump takes all the lists,
TakeLists(w) ==
  /\ pc[w] = "lock" /\ list_mutex = Nobody
  /\ list_mutex' = w
  /\ dump_seq' = [dump_seq EXCEPT ![w] = current_memtables]
  /\ current_memtables' = << >>
  /\ Goto(w, "refill")
  /\ UNCHANGED <<queues, if_working, created, curr_writing, tmp, died_log, dumped, dumps>>

\* Mutant: the mutex is free from the first new list on.
RefillUnlocked(w) ==
  /\ pc[w] = "refill"
  /\ \E l \in 1 .. created :
       PopList(w, l) /\ current_memtables' = Append(current_memtables, l)
  /\ list_mutex' = Nobody
  /\ IF Len(current_memtables') = MEMTABLE_CO_WRITE_NUM
     THEN Goto(w, "submit")
     ELSE UNCHANGED pc
  /\ UNCHANGED <<if_working, created, dump_seq, curr_writing, tmp, died_log, dumped, dumps>>

\* puts new ones in their place, with the mutex held while it waits for them,
Refill(w) ==
  /\ pc[w] = "refill"
  /\ \E l \in 1 .. created :
       PopList(w, l) /\ current_memtables' = Append(current_memtables, l)
  /\ IF Len(current_memtables') = MEMTABLE_CO_WRITE_NUM
     THEN list_mutex' = Nobody /\ Goto(w, "submit")
     ELSE UNCHANGED <<list_mutex, pc>>
  /\ UNCHANGED <<if_working, created, dump_seq, curr_writing, tmp, died_log, dumped, dumps>>

\* and hands the old ones to the dumper.
Submit(w) ==
  /\ pc[w] = "submit"
  /\ PushJob(w, dump_seq[w])
  /\ dump_seq' = [dump_seq EXCEPT ![w] = nullptr]
  /\ Goto(w, "idle")
  /\ UNCHANGED <<if_working, current_memtables, list_mutex, created, curr_writing, tmp,
                 died_log, dumped, dumps>>

-----------------------------------------------------------------------------
(* The destructor: stop_working *)

BeginStop ==
  /\ pc[Main] = "open" /\ \A w \in Writers : pc[w] = "idle"
  /\ if_working' = FALSE
  /\ Goto(Main, "drain")
  /\ UNCHANGED <<queues, current_memtables, list_mutex, created, dump_seq, curr_writing,
                 tmp, died_log, dumped, dumps>>

\* Mutant: no list is taken.
DrainNothing ==
  /\ pc[Main] = "drain"
  /\ Goto(Main, "join creater")
  /\ UNCHANGED <<queues, if_working, current_memtables, list_mutex, created, dump_seq,
                 curr_writing, tmp, died_log, dumped, dumps>>

\* A list is taken so that a creator asleep before a full queue can go on.
Drain ==
  /\ pc[Main] = "drain"
  /\ \E l \in 1 .. created : PopList(Main, l) /\ tmp' = <<l>>
  /\ Goto(Main, "join creater")
  /\ UNCHANGED <<if_working, current_memtables, list_mutex, created, dump_seq, curr_writing,
                 died_log, dumped, dumps>>

Join ==
  /\ \/ pc[Main] = "join creater" /\ pc[Creator] = "exited" /\ Goto(Main, "stop")
     \/ pc[Main] = "join dumper" /\ pc[Dumper] = "exited" /\ Goto(Main, "stopped")
  /\ UNCHANGED <<queues, if_working, current_memtables, list_mutex, created, dump_seq,
                 curr_writing, tmp, died_log, dumped, dumps>>

\* A null job, so that a dumper asleep before an empty queue can go on.
PushNull ==
  /\ pc[Main] = "stop"
  /\ PushJob(Main, nullptr)
  /\ Goto(Main, "join dumper")
  /\ UNCHANGED <<if_working, current_memtables, list_mutex, created, dump_seq, curr_writing,
                 tmp, died_log, dumped, dumps>>

-----------------------------------------------------------------------------
MainStep == StartWorking \/ Fill \/ Drain \/ Join \/ PushNull \/ SleepOnLists(Main)
CreatorStep == TestWorking(Creator) \/ PushList \/ SleepOnLists(Creator)
DumperStep == TestWorking(Dumper) \/ TakeJob \/ Dump \/ SleepOnJobs(Dumper)
WriterStep(w) == TakeLists(w) \/ Refill(w) \/ Submit(w) \/ SleepOnLists(w)

Next ==
  \/ MainStep \/ CreatorStep \/ DumperStep \/ BeginStop \/ SpuriousWakeup
  \/ \E w \in Writers : WriterStep(w) \/ SwitchLog(w)

Spec == Init /\ [][Next]_vars

\* Each thread is scheduled; nobody has to fill the cache, or to end the program.
FairSpec ==
  /\ Spec
  /\ WF_vars(MainStep) /\ WF_vars(CreatorStep) /\ WF_vars(DumperStep)
  /\ \A w \in Writers : WF_vars(WriterStep(w))

-----------------------------------------------------------------------------
Labels ==
  {"start", "fill", "open", "drain", "join creater", "stop", "join dumper", "stopped",
   "off", "test", "push", "take", "dump", "exited", "idle", "lock", "refill", "submit"}

Lists == 1 .. created

IsQueue(q, Values, capacity) ==
  /\ q \in [data_queue : Seq(Values),
            cnd_if_not_full : SUBSET Threads, cnd_if_not_empty : SUBSET Threads]
  /\ Len(q.data_queue) <= capacity

TypeOK ==
  /\ IsQueue(memtables_can_insert, Lists, CanInsertCapacity)
  /\ IsQueue(memtables_wait_for_dump, Seq(Lists), WaitForDumpCapacity)
  /\ if_working \in BOOLEAN /\ died_log \in BOOLEAN
  /\ current_memtables \in Seq(Lists) /\ Len(current_memtables) <= MEMTABLE_CO_WRITE_NUM
  /\ list_mutex \in Writers \cup {Nobody}
  /\ pc \in [Threads -> Labels]
  /\ created \in Nat /\ dumps \in 0 .. MaxDumps
  /\ dump_seq \in [Writers -> Seq(Lists)]
  /\ curr_writing \in Seq(Lists) /\ tmp \in Seq(Lists)
  /\ dumped \subseteq Lists

\* Where a list is.
In(l, s) == {i \in DOMAIN s : s[i] = l}
Places(l) ==
  ({"creator"} \X {0 : c \in {c \in {created} : c = l /\ pc[Creator] = "push"}})
  \cup ({"can_insert"} \X In(l, memtables_can_insert.data_queue))
  \cup ({"current"} \X In(l, current_memtables))
  \cup (UNION {{w} \X In(l, dump_seq[w]) : w \in Writers})
  \cup (UNION {{<<"job", j>>} \X In(l, memtables_wait_for_dump.data_queue[j]) :
                 j \in DOMAIN memtables_wait_for_dump.data_queue})
  \cup ({"dumper"} \X In(l, curr_writing))
  \cup ({"tmp"} \X In(l, tmp))
  \cup ({"dumped"} \X (IF l \in dumped THEN {0} ELSE {}))

\* A list is in one place: with the creator, in a queue, with those being
\* written to, on its way to the dumper, dumped.  None is dumped twice, or
\* written to once it was submitted, and none is lost on its way.
ListAccounting == \A l \in Lists : Cardinality(Places(l)) = 1

\* Whoever gets current_memtable_list_mutex finds all the lists there, however
\* many writers submit at the time: get_memtable takes begin() of them unasked.
ListsForWriters ==
  pc[Main] = "open" /\ list_mutex = Nobody
    => Len(current_memtables) = MEMTABLE_CO_WRITE_NUM

\* A dump that waits, or is under way, has its died log; so stop_working, which
\* lets the dumper leave a job in the queue, leaves the log with it, and at
\* most one.
LeftJobHasLog ==
  LET jobs == {j \in DOMAIN memtables_wait_for_dump.data_queue :
                 memtables_wait_for_dump.data_queue[j] # nullptr}
  IN  Cardinality(jobs) + (IF curr_writing # nullptr THEN 1 ELSE 0)
        <= (IF died_log THEN 1 ELSE 0)

\* submit_dump returns, although it waits for lists with the mutex held.
SubmitReturns == \A w \in Writers : pc[w] = "lock" ~> pc[w] = "idle"

\* What is submitted is dumped, unless the engine stops first.
SubmittedIsDumped ==
  \A w \in Writers : pc[w] = "lock" ~> ~ died_log \/ ~ if_working

\* The creator saw if_working false and left no list that stop_working could
\* take.
CreatorLeftNothing ==
  /\ pc[Main] = "drain" /\ pc[Creator] = "exited" /\ IsEmpty(memtables_can_insert)

\* stop_working returns, but for the race with the creator.
StopReturns == pc[Main] = "drain" ~> pc[Main] = "stopped" \/ CreatorLeftNothing
=============================================================================
