--------------------------- MODULE MemTablesProofs ---------------------------
(***************************************************************************)
(* What MemTables promises for every number of writers and of lists, every *)
(* capacity of the queues and every number of dumps.                       *)
(***************************************************************************)
EXTENDS MemTables, SequenceTheorems, FiniteSetTheorems, TLAPS

-----------------------------------------------------------------------------
(* The inductive invariant, in named parts.                                *)

\* Each thread is at a place of its own code.
LabelsOK ==
  /\ pc[Main] \in {"start", "fill", "open", "drain", "join creater", "stop",
                   "join dumper", "stopped"}
  /\ pc[Creator] \in {"off", "test", "push", "exited"}
  /\ pc[Dumper] \in {"off", "test", "take", "dump", "exited"}
  /\ \A w \in Writers : pc[w] \in {"idle", "lock", "refill", "submit"}

\* Between the constructor and the destructor only are there calls.
CallsWhileOpen == \A w \in Writers : pc[w] # "idle" => pc[Main] = "open"

\* Who refills the lists holds the mutex, and nobody else does.
MutexWhileRefilling == \A w \in Writers : list_mutex = w <=> pc[w] = "refill"

\* There is room for the list that is waited for.
RoomForLists ==
  /\ pc[Main] = "start" => current_memtables = << >>
  /\ pc[Main] = "fill" \/ list_mutex # Nobody
       => Len(current_memtables) < MEMTABLE_CO_WRITE_NUM

PushesWhatItMade == pc[Creator] = "push" => created # 0

TypeInv ==
  /\ TypeOK /\ LabelsOK /\ CallsWhileOpen /\ MutexWhileRefilling
  /\ RoomForLists /\ PushesWhatItMade

\* The threads run from start_working on, and end before they are waited for.
StartedAndJoined ==
  /\ pc[Main] = "start" => pc[Creator] = "off" /\ pc[Dumper] = "off"
  /\ pc[Main] \in {"stop", "join dumper", "stopped"} => pc[Creator] = "exited"
  /\ pc[Main] = "stopped" => pc[Dumper] = "exited"

\* The places of the jobs in the queue: what is not the null job.
Jobs == {j \in DOMAIN memtables_wait_for_dump.data_queue :
           memtables_wait_for_dump.data_queue[j] # nullptr}

\* There is one dump at a time: a writer's, one in the queue, or the dumper's;
\* and the died log is there as long as it is.
Submitting(w) == pc[w] \in {"lock", "refill", "submit"}
OneDump ==
  /\ \A w \in Writers : Submitting(w) => died_log /\ Jobs = {} /\ curr_writing = nullptr
  /\ \A v, w \in Writers : Submitting(v) /\ Submitting(w) => v = w
  /\ Jobs # {} => died_log /\ curr_writing = nullptr
  /\ \A i, j \in Jobs : i = j
  /\ curr_writing # nullptr => died_log

\* A writer that has taken lists has some, one that has not has none.
TakenLists ==
  /\ \A w \in Writers : dump_seq[w] # nullptr <=> pc[w] \in {"refill", "submit"}
  /\ curr_writing # nullptr <=> pc[Dumper] = "dump"

\* The null job is pushed once, by stop_working.
NullJobIsLast ==
  pc[Main] \notin {"join dumper", "stopped"} => Jobs = DOMAIN memtables_wait_for_dump.data_queue

DumpInv == ListsForWriters /\ OneDump /\ TakenLists /\ NullJobIsLast

-----------------------------------------------------------------------------
(* The queues                                                              *)

\* What a queue is after each of its operations, whoever is woken.
LEMMA SleepLemma ==
  ASSUME NEW V, NEW c \in Nat, NEW q, IsQueue(q, V, c), NEW t \in Threads
  PROVE  /\ IsQueue(SleepToPop(q, t), V, c) /\ IsQueue(SleepToPush(q, t), V, c)
         /\ SleepToPop(q, t).data_queue = q.data_queue
         /\ SleepToPush(q, t).data_queue = q.data_queue
BY DEF IsQueue, SleepToPop, SleepToPush

LEMMA WakeLemma ==
  ASSUME NEW V, NEW c \in Nat, NEW q, IsQueue(q, V, c), NEW r \in WokenSpuriously(q)
  PROVE  IsQueue(r, V, c) /\ r.data_queue = q.data_queue
BY DEF IsQueue, WokenSpuriously

LEMMA NotifyLemma ==
  ASSUME NEW s \in SUBSET Threads, NEW r \in NotifyOne(s)
  PROVE  r \in SUBSET Threads
BY DEF NotifyOne

LEMMA PopLemma ==
  ASSUME NEW V, NEW c \in Nat, NEW q, IsQueue(q, V, c), ~ IsEmpty(q), NEW r \in Popped(q)
  PROVE  Front(q) \in V /\ IsQueue(r, V, c) /\ r.data_queue = Tail(q.data_queue)
<1>1. q.data_queue \in Seq(V) /\ q.data_queue # << >>
  BY DEF IsQueue, IsEmpty
<1>2. /\ Head(q.data_queue) \in V /\ Tail(q.data_queue) \in Seq(V)
      /\ Len(Tail(q.data_queue)) = Len(q.data_queue) - 1
  BY <1>1, HeadTailProperties
<1>3. r.data_queue = Tail(q.data_queue)
  BY DEF Popped, IsQueue
<1>4. r \in [data_queue : Seq(V), cnd_if_not_full : SUBSET Threads,
             cnd_if_not_empty : SUBSET Threads]
  <2>1. PICK s \in NotifyOne(q.cnd_if_not_full) :
               r = [q EXCEPT !.data_queue = Tail(@), !.cnd_if_not_full = s]
    BY DEF Popped
  <2>2. s \in SUBSET Threads
    BY NotifyLemma DEF IsQueue
  <2> QED BY <1>2, <2>1, <2>2 DEF IsQueue
<1>5. Len(q.data_queue) \in Nat \ {0}
  BY <1>1, EmptySeq
<1> QED BY <1>2, <1>3, <1>4, <1>5 DEF IsQueue, Front

LEMMA PushLemma ==
  ASSUME NEW V, NEW c \in Nat, NEW q, IsQueue(q, V, c), ~ IsFull(q, c),
         NEW v \in V, NEW r \in Pushed(q, v)
  PROVE  IsQueue(r, V, c)
<1>1. q.data_queue \in Seq(V) /\ Len(q.data_queue) \in Nat /\ Len(q.data_queue) < c
  BY LenProperties DEF IsQueue, IsFull
<1>2. /\ Append(q.data_queue, v) \in Seq(V)
      /\ Len(Append(q.data_queue, v)) = Len(q.data_queue) + 1
  BY <1>1, AppendProperties
<1>3. r.data_queue = Append(q.data_queue, v)
  BY DEF Pushed, IsQueue
<1>4. r \in [data_queue : Seq(V), cnd_if_not_full : SUBSET Threads,
             cnd_if_not_empty : SUBSET Threads]
  <2>1. PICK s \in NotifyOne(q.cnd_if_not_empty) :
               r = [q EXCEPT !.data_queue = Append(@, v), !.cnd_if_not_empty = s]
    BY DEF Pushed
  <2>2. s \in SUBSET Threads
    BY NotifyLemma DEF IsQueue
  <2> QED BY <1>2, <2>1, <2>2 DEF IsQueue
<1> QED BY <1>1, <1>2, <1>3, <1>4 DEF IsQueue

-----------------------------------------------------------------------------
(* Type correctness                                                        *)

LEMMA InitTypeInv == Init => TypeInv
<1> SUFFICES ASSUME Init PROVE TypeInv
  OBVIOUS
<1> USE MemTablesAssumption DEF Init
<1>1. IsQueue(memtables_can_insert, Lists, CanInsertCapacity)
  BY DEF IsQueue, EmptyQueue
<1>2. IsQueue(memtables_wait_for_dump, Seq(Lists), WaitForDumpCapacity)
  BY DEF IsQueue, EmptyQueue
<1>3. /\ pc[Main] = "start" /\ pc[Creator] = "off" /\ pc[Dumper] = "off"
      /\ \A w \in Writers : pc[w] = "idle"
      /\ pc \in [Threads -> Labels]
  BY DEF Threads, Main, Creator, Dumper, Labels
<1>4. TypeOK
  <2>1. << >> \in Seq(Lists) /\ Len(<< >>) = 0
    BY EmptySeq
  <2>2. if_working \in BOOLEAN /\ died_log \in BOOLEAN
    BY Zenon
  <2> QED BY <1>1, <1>2, <1>3, <2>1, <2>2 DEF TypeOK, nullptr, Nobody
<1>5. LabelsOK /\ CallsWhileOpen /\ PushesWhatItMade
  BY <1>3 DEF LabelsOK, CallsWhileOpen, PushesWhatItMade
<1>6. MutexWhileRefilling /\ RoomForLists
  BY <1>3 DEF MutexWhileRefilling, RoomForLists, Nobody
<1> QED BY <1>4, <1>5, <1>6 DEF TypeInv

\* A list is popped by a thread that has room for it.
LEMMA PopListLemma ==
  ASSUME TypeInv, NEW t \in Threads, NEW l, PopList(t, l)
  PROVE  /\ l \in Lists
         /\ IsQueue(memtables_can_insert', Lists, CanInsertCapacity)
         /\ memtables_can_insert'.data_queue = Tail(memtables_can_insert.data_queue)
<1>1. CanInsertCapacity \in Nat /\ IsQueue(memtables_can_insert, Lists, CanInsertCapacity)
  BY MemTablesAssumption DEF TypeInv, TypeOK
<1>2. /\ ~ IsEmpty(memtables_can_insert) /\ l = Front(memtables_can_insert)
      /\ memtables_can_insert' \in Popped(memtables_can_insert)
  BY DEF PopList
<1>3. IsQueue(memtables_can_insert', Lists, CanInsertCapacity)
  BY <1>1, <1>2, PopLemma
<1> QED BY <1>1, <1>2, <1>3, PopLemma

LEMMA PushJobLemma ==
  ASSUME TypeInv, NEW t \in Threads, NEW job \in Seq(Lists), PushJob(t, job)
  PROVE  /\ IsQueue(memtables_wait_for_dump', Seq(Lists), WaitForDumpCapacity)
         /\ memtables_wait_for_dump'.data_queue = Append(memtables_wait_for_dump.data_queue, job)
<1>1. /\ WaitForDumpCapacity \in Nat
      /\ IsQueue(memtables_wait_for_dump, Seq(Lists), WaitForDumpCapacity)
  BY MemTablesAssumption DEF TypeInv, TypeOK
<1>2. /\ ~ IsFull(memtables_wait_for_dump, WaitForDumpCapacity)
      /\ memtables_wait_for_dump' \in Pushed(memtables_wait_for_dump, job)
  BY DEF PushJob
<1>3. IsQueue(memtables_wait_for_dump', Seq(Lists), WaitForDumpCapacity)
  BY <1>1, <1>2, PushLemma
<1>4. memtables_wait_for_dump'.data_queue = Append(memtables_wait_for_dump.data_queue, job)
  BY <1>1, <1>2 DEF Pushed, IsQueue
<1> QED BY <1>3, <1>4

\* When a list is made, what was a list stays one.
LEMMA ListsGrow ==
  ASSUME TypeInv, created' = created + 1 \/ created' = created
  PROVE  /\ Lists \subseteq Lists' /\ Seq(Lists) \subseteq Seq(Lists')
         /\ \A q, c : IsQueue(q, Lists, c) => IsQueue(q, Lists', c)
         /\ \A q, c : IsQueue(q, Seq(Lists), c) => IsQueue(q, Seq(Lists'), c)
<1>1. Lists \subseteq Lists'
  BY DEF Lists, TypeInv, TypeOK
<1>2. Seq(Lists) \subseteq Seq(Lists')
  BY <1>1, SeqMonotonic
<1>3. Seq(Seq(Lists)) \subseteq Seq(Seq(Lists'))
  BY <1>2, SeqMonotonic
<1> QED BY <1>1, <1>2, <1>3 DEF IsQueue

\* The steps that only move a thread.
LEMMA GotoTypes ==
  ASSUME TypeInv, NEW t \in Threads, NEW label \in Labels, Goto(t, label)
  PROVE  pc' \in [Threads -> Labels]
BY DEF Goto, TypeInv, TypeOK

LEMMA FillTypes ==
  ASSUME TypeInv, Fill
  PROVE  TypeInv'
<1> USE MemTablesAssumption
<1>0. TypeOK /\ LabelsOK /\ CallsWhileOpen /\ MutexWhileRefilling /\ RoomForLists
      /\ PushesWhatItMade
  BY DEF TypeInv
<1>1. Main \in Threads /\ "open" \in Labels
  BY DEF Threads, Labels
<1>2. PICK l : PopList(Main, l) /\ current_memtables' = <<l>> \o current_memtables
  BY DEF Fill
<1>3. /\ l \in Lists /\ IsQueue(memtables_can_insert', Lists, CanInsertCapacity)
  BY <1>1, <1>2, PopListLemma
<1>4. /\ current_memtables' \in Seq(Lists)
      /\ Len(current_memtables') = 1 + Len(current_memtables)
      /\ Len(current_memtables) \in Nat
  BY <1>0, <1>2, <1>3, ConcatProperties, LenProperties DEF TypeOK
<1>5. Len(current_memtables) < MEMTABLE_CO_WRITE_NUM
  BY <1>0 DEF RoomForLists, Fill
<1>6. pc' \in [Threads -> Labels]
  BY <1>0, <1>1, GotoTypes DEF Fill, TypeOK, TypeInv
<1>7. TypeOK'
  BY <1>0, <1>2, <1>3, <1>4, <1>5, <1>6 DEF TypeOK, Fill, PopList, Lists
<1>a. /\ pc[Main] = "fill" /\ pc'[Main] \in {"fill", "open"} /\ created' = created
      /\ \A t \in Threads \ {Main} : pc'[t] = pc[t]
  BY <1>0, <1>1 DEF Fill, Goto, TypeOK
<1>8. LabelsOK' /\ CallsWhileOpen' /\ PushesWhatItMade'
  BY <1>0, <1>a DEF LabelsOK, CallsWhileOpen, PushesWhatItMade, Threads, Main, Creator, Dumper
<1>9. MutexWhileRefilling' /\ RoomForLists'
  BY <1>0, <1>1, <1>4, <1>5
  DEF TypeOK, Fill, Goto, LabelsOK, CallsWhileOpen, MutexWhileRefilling, RoomForLists, Main,
    Creator, Dumper, Threads
<1> QED BY <1>7, <1>8, <1>9 DEF TypeInv

\* The steps that change neither the queues nor the lists.
LEMMA MainTypes ==
  ASSUME TypeInv, StartWorking \/ BeginStop \/ Join
  PROVE  TypeInv'
<1>0. TypeOK /\ LabelsOK /\ CallsWhileOpen /\ MutexWhileRefilling /\ RoomForLists
      /\ PushesWhatItMade
  BY DEF TypeInv
<1> USE MemTablesAssumption
<1>1. /\ UNCHANGED <<queues, current_memtables, list_mutex, created, dump_seq,
                     curr_writing, tmp, died_log, dumped, dumps>>
      /\ if_working' \in BOOLEAN
  <2>1. if_working' = TRUE \/ if_working' = FALSE \/ if_working' = if_working
    BY DEF StartWorking, BeginStop, Join
  <2>2. if_working \in BOOLEAN
    BY <1>0 DEF TypeOK
  <2>3. if_working' \in BOOLEAN
    BY <2>1, <2>2, Zenon
  <2> QED BY <2>3 DEF StartWorking, BeginStop, Join
<1>2. /\ pc' \in [Threads -> Labels]
      /\ \A w \in Writers : pc'[w] = pc[w]
      /\ pc'[Main] = "fill" => pc[Main] = "start"
      /\ pc'[Main] \in {"fill", "drain", "stop", "stopped"}
      /\ pc'[Creator] \in {"off", "test", "push", "exited"}
      /\ pc'[Dumper] \in {"off", "test", "take", "dump", "exited"}
      /\ pc'[Creator] = "push" => pc[Creator] = "push"
      /\ \A w \in Writers : pc[w] = "idle"
  BY <1>0 DEF StartWorking, BeginStop, Join, Goto, TypeOK, LabelsOK, CallsWhileOpen, Threads,
    Main, Creator, Dumper, Labels
<1>3. TypeOK'
  <2> USE DEF TypeOK, queues, Lists
  <2>1. if_working' \in BOOLEAN /\ died_log' \in BOOLEAN
    BY <1>0, <1>1, Zenon
  <2> QED BY <1>0, <1>1, <1>2, <2>1
<1>4. LabelsOK' /\ CallsWhileOpen' /\ PushesWhatItMade'
  BY <1>0, <1>1, <1>2 DEF LabelsOK, CallsWhileOpen, PushesWhatItMade
<1>5. MutexWhileRefilling' /\ RoomForLists'
  BY <1>0, <1>1, <1>2 DEF TypeOK, MutexWhileRefilling, RoomForLists, Nobody
<1> QED BY <1>3, <1>4, <1>5 DEF TypeInv

LEMMA StopTypes ==
  ASSUME TypeInv, Drain \/ PushNull
  PROVE  TypeInv'
<1>0. TypeOK /\ LabelsOK /\ CallsWhileOpen /\ MutexWhileRefilling /\ RoomForLists
      /\ PushesWhatItMade
  BY DEF TypeInv
<1> USE MemTablesAssumption
<1>1. Main \in Threads /\ << >> \in Seq(Lists)
  BY DEF Threads
<1>2. /\ UNCHANGED <<if_working, current_memtables, list_mutex, created, dump_seq,
                     curr_writing, died_log, dumped, dumps>>
      /\ IsQueue(memtables_can_insert', Lists, CanInsertCapacity)
      /\ IsQueue(memtables_wait_for_dump', Seq(Lists), WaitForDumpCapacity)
      /\ tmp' \in Seq(Lists)
  <2>1. CASE Drain
    <3>1. PICK l : PopList(Main, l) /\ tmp' = <<l>>
      BY <2>1 DEF Drain
    <3>2. l \in Lists /\ IsQueue(memtables_can_insert', Lists, CanInsertCapacity)
      BY <1>1, <3>1, PopListLemma
    <3>3. tmp' \in Seq(Lists)
      BY <3>1, <3>2
    <3>4. UNCHANGED memtables_wait_for_dump
      BY <3>1 DEF PopList
    <3> QED BY <1>0, <2>1, <3>2, <3>3, <3>4 DEF Drain, TypeOK
  <2>2. CASE PushNull
    <3>1. PushJob(Main, << >>)
      BY <2>2 DEF PushNull, nullptr
    <3>2. IsQueue(memtables_wait_for_dump', Seq(Lists), WaitForDumpCapacity)
      BY <1>1, <3>1, PushJobLemma
    <3>3. UNCHANGED memtables_can_insert
      BY <3>1 DEF PushJob
    <3> QED BY <1>0, <2>2, <3>2, <3>3 DEF PushNull, TypeOK
  <2> QED BY <2>1, <2>2
<1>3. /\ pc' \in [Threads -> Labels]
      /\ \A t \in Threads \ {Main} : pc'[t] = pc[t]
      /\ pc'[Main] \in {"join creater", "join dumper"}
      /\ pc[Main] \in {"drain", "stop"}
  BY <1>0, <1>1 DEF Drain, PushNull, Goto, TypeOK, Labels
<1>4. TypeOK'
  <2> USE DEF TypeOK, Lists
  <2>1. if_working' \in BOOLEAN /\ died_log' \in BOOLEAN
    BY <1>0, <1>2, Zenon
  <2> QED BY <1>0, <1>2, <1>3, <2>1
<1>5. LabelsOK' /\ CallsWhileOpen' /\ PushesWhatItMade'
  BY <1>0, <1>2, <1>3
  DEF LabelsOK, CallsWhileOpen, PushesWhatItMade, Threads, Main, Creator, Dumper
<1>6. MutexWhileRefilling' /\ RoomForLists'
  BY <1>0, <1>2, <1>3
  DEF TypeOK, CallsWhileOpen, MutexWhileRefilling, RoomForLists, Nobody, Threads, Main
<1> QED BY <1>4, <1>5, <1>6 DEF TypeInv

LEMMA CreatorTypes ==
  ASSUME TypeInv, TestWorking(Creator) \/ PushList
  PROVE  TypeInv'
<1>0. TypeOK /\ LabelsOK /\ CallsWhileOpen /\ MutexWhileRefilling /\ RoomForLists
      /\ PushesWhatItMade
  BY DEF TypeInv
<1> USE MemTablesAssumption
<1>1. /\ UNCHANGED <<if_working, current_memtables, list_mutex, dump_seq,
                     curr_writing, tmp, died_log, dumped, dumps>>
      /\ UNCHANGED memtables_wait_for_dump
      /\ created' = created + 1 \/ created' = created
      /\ created \in Nat
  BY <1>0 DEF TestWorking, PushList, TypeOK, queues
<1>2. /\ pc' \in [Threads -> Labels]
      /\ \A t \in Threads \ {Creator} : pc'[t] = pc[t]
      /\ pc'[Creator] \in {"test", "push", "exited"}
      /\ pc'[Creator] = "push" => created' # 0
  <2>1. CASE PushList
    BY <1>0, <2>1 DEF PushList, Goto, TypeOK, Labels, Threads
  <2>2. CASE TestWorking(Creator) /\ if_working
    <3>1. created' = created + 1 /\ Goto(Creator, "push")
      BY <2>2 DEF TestWorking
    <3>2. created' # 0
      BY <1>1, <3>1
    <3> QED BY <1>0, <3>1, <3>2 DEF Goto, TypeOK, Labels, Threads
  <2>3. CASE TestWorking(Creator) /\ ~ if_working
    <3>1. Goto(Creator, "exited")
      BY <2>3 DEF TestWorking
    <3> QED BY <1>0, <3>1 DEF Goto, TypeOK, Labels, Threads
  <2> QED BY <2>1, <2>2, <2>3
<1>3. IsQueue(memtables_can_insert', Lists', CanInsertCapacity)
  <2>1. CASE TestWorking(Creator)
    BY <1>0, <1>1, <2>1, ListsGrow DEF TypeOK, TestWorking, queues
  <2>2. CASE PushList
    <3>1. created \in Lists /\ Lists' = Lists
      BY <1>0, <2>2 DEF PushesWhatItMade, PushList, TypeOK, Lists
    <3>2. /\ CanInsertCapacity \in Nat
          /\ IsQueue(memtables_can_insert, Lists, CanInsertCapacity)
          /\ ~ IsFull(memtables_can_insert, CanInsertCapacity)
          /\ memtables_can_insert' \in Pushed(memtables_can_insert, created)
      BY <1>0, <2>2 DEF PushList, TypeOK
    <3>3. IsQueue(memtables_can_insert', Lists, CanInsertCapacity)
      BY <3>1, <3>2, PushLemma
    <3> QED BY <3>1, <3>3
  <2> QED BY <2>1, <2>2
<1>4. /\ Seq(Lists) \subseteq Seq(Lists') /\ Lists \subseteq Lists'
      /\ IsQueue(memtables_wait_for_dump', Seq(Lists'), WaitForDumpCapacity)
  BY <1>0, <1>1, ListsGrow DEF TypeOK
<1>5. TypeOK'
  <2>1. if_working' \in BOOLEAN /\ died_log' \in BOOLEAN
    BY <1>0, <1>1, Zenon DEF TypeOK
  <2>2. /\ current_memtables' \in Seq(Lists') /\ curr_writing' \in Seq(Lists')
        /\ tmp' \in Seq(Lists') /\ dumped' \subseteq Lists'
    BY <1>0, <1>1, <1>4 DEF TypeOK
  <2>3. dump_seq' \in [Writers -> Seq(Lists')]
    BY <1>0, <1>1, <1>4 DEF TypeOK
  <2>4. created' \in Nat
    BY <1>1
  <2>5. /\ Len(current_memtables') <= MEMTABLE_CO_WRITE_NUM
        /\ list_mutex' \in Writers \cup {Nobody} /\ dumps' \in 0 .. MaxDumps
    BY <1>0, <1>1 DEF TypeOK
  <2> QED BY <1>2, <1>3, <1>4, <2>1, <2>2, <2>3, <2>4, <2>5 DEF TypeOK
<1>6. LabelsOK' /\ CallsWhileOpen' /\ PushesWhatItMade'
  BY <1>0, <1>1, <1>2
  DEF LabelsOK, CallsWhileOpen, PushesWhatItMade, Threads, Main, Creator, Dumper
<1>7. MutexWhileRefilling' /\ RoomForLists'
  BY <1>0, <1>1, <1>2
  DEF TypeOK, MutexWhileRefilling, RoomForLists, Nobody, Threads, Main, Creator
<1> QED BY <1>5, <1>6, <1>7 DEF TypeInv

LEMMA DumperTypes ==
  ASSUME TypeInv, TestWorking(Dumper) \/ TakeJob \/ Dump
  PROVE  TypeInv'
<1>0. TypeOK /\ LabelsOK /\ CallsWhileOpen /\ MutexWhileRefilling /\ RoomForLists
      /\ PushesWhatItMade
  BY DEF TypeInv
<1> USE MemTablesAssumption
<1>1. /\ UNCHANGED <<if_working, current_memtables, list_mutex, dump_seq, created, tmp, dumps>>
      /\ UNCHANGED memtables_can_insert
  BY DEF TestWorking, TakeJob, Dump, queues, Dumper, Creator
<1>2. /\ pc' \in [Threads -> Labels]
      /\ \A t \in Threads \ {Dumper} : pc'[t] = pc[t]
      /\ pc'[Dumper] \in {"test", "take", "dump", "exited"}
  BY <1>0 DEF TestWorking, TakeJob, Dump, Goto, TypeOK, Labels, Threads, Dumper, Creator
<1>3. /\ IsQueue(memtables_wait_for_dump', Seq(Lists), WaitForDumpCapacity)
      /\ curr_writing' \in Seq(Lists) /\ dumped' \subseteq Lists
  <2>1. CASE TestWorking(Dumper)
    BY <1>0, <2>1 DEF TestWorking, TypeOK, queues
  <2>2. CASE TakeJob
    <3>1. /\ WaitForDumpCapacity \in Nat
          /\ IsQueue(memtables_wait_for_dump, Seq(Lists), WaitForDumpCapacity)
          /\ ~ IsEmpty(memtables_wait_for_dump)
          /\ memtables_wait_for_dump' \in Popped(memtables_wait_for_dump)
          /\ curr_writing' = Front(memtables_wait_for_dump)
      BY <1>0, <2>2 DEF TypeOK, TakeJob
    <3>2. IsQueue(memtables_wait_for_dump', Seq(Lists), WaitForDumpCapacity)
      BY <3>1, PopLemma
    <3>3. curr_writing' \in Seq(Lists)
      BY <3>1, PopLemma
    <3> QED BY <1>0, <2>2, <3>2, <3>3 DEF TakeJob, TypeOK
  <2>3. CASE Dump
    <3>1. \A i \in DOMAIN curr_writing : curr_writing[i] \in Lists
      BY <1>0, ElementOfSeq, LenProperties DEF TypeOK
    <3>2. dumped' \subseteq Lists
      BY <1>0, <2>3, <3>1 DEF Dump, TypeOK
    <3>3. curr_writing' \in Seq(Lists)
      BY <2>3, EmptySeq DEF Dump, nullptr
    <3>4. UNCHANGED memtables_wait_for_dump
      BY <2>3 DEF Dump, queues
    <3> QED BY <1>0, <3>2, <3>3, <3>4 DEF TypeOK
  <2> QED BY <2>1, <2>2, <2>3
<1>4. died_log' \in BOOLEAN
  <2>1. died_log' = died_log \/ died_log' = FALSE
    BY DEF TestWorking, TakeJob, Dump
  <2> QED BY <1>0, <2>1, Zenon DEF TypeOK
<1>5. TypeOK'
  <2>1. if_working' \in BOOLEAN
    BY <1>0, <1>1, Zenon DEF TypeOK
  <2> QED BY <1>0, <1>1, <1>2, <1>3, <1>4, <2>1 DEF TypeOK, Lists
<1>6. LabelsOK' /\ CallsWhileOpen' /\ PushesWhatItMade'
  BY <1>0, <1>1, <1>2
  DEF LabelsOK, CallsWhileOpen, PushesWhatItMade, Threads, Main, Creator, Dumper
<1>7. MutexWhileRefilling' /\ RoomForLists'
  BY <1>0, <1>1, <1>2
  DEF TypeOK, MutexWhileRefilling, RoomForLists, Nobody, Threads, Main, Dumper
<1> QED BY <1>5, <1>6, <1>7 DEF TypeInv

LEMMA WriterTypes ==
  ASSUME TypeInv, NEW w \in Writers,
         SwitchLog(w) \/ TakeLists(w) \/ Refill(w) \/ Submit(w)
  PROVE  TypeInv'
<1>0. TypeOK /\ LabelsOK /\ CallsWhileOpen /\ MutexWhileRefilling /\ RoomForLists
      /\ PushesWhatItMade
  BY DEF TypeInv
<1> USE MemTablesAssumption
<1>1. /\ UNCHANGED <<if_working, created, tmp, curr_writing, dumped>>
      /\ pc[Main] = "open" /\ w \in Threads
  BY <1>0 DEF SwitchLog, TakeLists, Refill, Submit, CallsWhileOpen, Threads
<1>2. /\ pc' \in [Threads -> Labels]
      /\ \A t \in Threads \ {w} : pc'[t] = pc[t]
      /\ pc'[w] \in {"idle", "lock", "refill", "submit"}
      /\ w \notin {Main, Creator, Dumper, Nobody}
  BY <1>0, <1>1 DEF SwitchLog, TakeLists, Refill, Submit, Goto, TypeOK, Labels
<1>3. /\ IsQueue(memtables_can_insert', Lists, CanInsertCapacity)
      /\ current_memtables' \in Seq(Lists)
      /\ Len(current_memtables') <= MEMTABLE_CO_WRITE_NUM
      /\ list_mutex' # Nobody => Len(current_memtables') < MEMTABLE_CO_WRITE_NUM
      /\ list_mutex' \in Writers \cup {Nobody}
      /\ \A v \in Writers : list_mutex' = v <=> pc'[v] = "refill"
  <2>1. CASE SwitchLog(w) \/ Submit(w)
    <3>1. UNCHANGED <<memtables_can_insert, current_memtables, list_mutex>>
      BY <2>1 DEF SwitchLog, Submit, PushJob, queues
    <3>2. pc[w] # "refill" /\ pc'[w] # "refill"
      BY <1>0, <1>1, <2>1 DEF SwitchLog, Submit, Goto, TypeOK
    <3> QED BY <1>0, <1>1, <1>2, <3>1, <3>2 DEF TypeOK, MutexWhileRefilling, RoomForLists, Threads
  <2>2. CASE TakeLists(w)
    <3>1. current_memtables' \in Seq(Lists) /\ Len(current_memtables') = 0
      BY <2>2, EmptySeq DEF TakeLists
    <3>2. UNCHANGED memtables_can_insert /\ list_mutex' = w /\ pc'[w] = "refill"
      BY <1>0, <1>1, <2>2 DEF TakeLists, Goto, TypeOK, queues
    <3>3. list_mutex = Nobody /\ w # Nobody
      BY <1>2, <2>2 DEF TakeLists
    <3> QED BY <1>0, <1>1, <1>2, <3>1, <3>2, <3>3 DEF TypeOK, MutexWhileRefilling, Threads
  <2>3. CASE Refill(w)
    <3>1. PICK l : PopList(w, l) /\ current_memtables' = Append(current_memtables, l)
      BY <2>3 DEF Refill
    <3>2. l \in Lists /\ IsQueue(memtables_can_insert', Lists, CanInsertCapacity)
      BY <1>1, <3>1, PopListLemma
    <3>3. /\ current_memtables' \in Seq(Lists)
          /\ Len(current_memtables') = Len(current_memtables) + 1
          /\ Len(current_memtables) \in Nat
      BY <1>0, <3>1, <3>2, AppendProperties, LenProperties DEF TypeOK
    <3>4. list_mutex = w /\ w # Nobody /\ pc[w] = "refill"
      BY <1>0, <1>2, <2>3 DEF Refill, MutexWhileRefilling
    <3>5. Len(current_memtables) < MEMTABLE_CO_WRITE_NUM
      BY <1>0, <3>4 DEF RoomForLists
    <3>6. CASE Len(current_memtables') = MEMTABLE_CO_WRITE_NUM
      <4>1. list_mutex' = Nobody /\ pc'[w] = "submit"
        BY <1>0, <1>1, <2>3, <3>6 DEF Refill, Goto, TypeOK
      <4> QED BY <1>0, <1>1, <1>2, <3>2, <3>3, <3>4, <3>5, <4>1
              DEF MutexWhileRefilling, Threads
    <3>7. CASE Len(current_memtables') # MEMTABLE_CO_WRITE_NUM
      <4>1. UNCHANGED <<list_mutex, pc>>
        BY <2>3, <3>7 DEF Refill
      <4> QED BY <1>0, <3>2, <3>3, <3>5, <3>7, <4>1 DEF MutexWhileRefilling, TypeOK
    <3> QED BY <3>6, <3>7
  <2> QED BY <2>1, <2>2, <2>3
<1>4. /\ IsQueue(memtables_wait_for_dump', Seq(Lists), WaitForDumpCapacity)
      /\ dump_seq' \in [Writers -> Seq(Lists)]
      /\ dumps' \in 0 .. MaxDumps
  <2>1. CASE SwitchLog(w)
    BY <1>0, <2>1 DEF SwitchLog, TypeOK, queues
  <2>2. CASE TakeLists(w)
    BY <1>0, <2>2 DEF TakeLists, TypeOK, queues
  <2>3. CASE Refill(w)
    BY <1>0, <2>3 DEF Refill, PopList, TypeOK
  <2>4. CASE Submit(w)
    <3>1. PushJob(w, dump_seq[w]) /\ dump_seq[w] \in Seq(Lists)
      BY <1>0, <2>4 DEF Submit, TypeOK
    <3>2. IsQueue(memtables_wait_for_dump', Seq(Lists), WaitForDumpCapacity)
      BY <1>1, <3>1, PushJobLemma
    <3>3. << >> \in Seq(Lists)
      BY EmptySeq
    <3> QED BY <1>0, <2>4, <3>2, <3>3 DEF Submit, TypeOK, nullptr
  <2> QED BY <2>1, <2>2, <2>3, <2>4
<1>5. died_log' \in BOOLEAN /\ if_working' \in BOOLEAN
  <2>1. died_log' = died_log \/ died_log' = TRUE
    BY DEF SwitchLog, TakeLists, Refill, Submit
  <2> QED BY <1>0, <1>1, <2>1, Zenon DEF TypeOK
<1>6. TypeOK'
  BY <1>0, <1>1, <1>2, <1>3, <1>4, <1>5 DEF TypeOK, Lists
<1>7. LabelsOK' /\ CallsWhileOpen' /\ PushesWhatItMade'
  BY <1>0, <1>1, <1>2 DEF LabelsOK, CallsWhileOpen, PushesWhatItMade, Threads
<1>8. MutexWhileRefilling' /\ RoomForLists'
  BY <1>1, <1>2, <1>3 DEF MutexWhileRefilling, RoomForLists, Threads, Main
<1> QED BY <1>6, <1>7, <1>8 DEF TypeInv

\* Threads fall asleep, and wake, where they are.
LEMMA SleepTypes ==
  ASSUME TypeInv,
         SpuriousWakeup \/ SleepOnJobs(Dumper) \/ (\E t \in Threads : SleepOnLists(t))
  PROVE  TypeInv' /\ UNCHANGED <<if_working, current_memtables, list_mutex, pc, created,
                                 dump_seq, curr_writing, tmp, died_log, dumped, dumps>>
         /\ memtables_can_insert'.data_queue = memtables_can_insert.data_queue
         /\ memtables_wait_for_dump'.data_queue = memtables_wait_for_dump.data_queue
<1>0. TypeOK /\ LabelsOK /\ CallsWhileOpen /\ MutexWhileRefilling /\ RoomForLists
      /\ PushesWhatItMade
  BY DEF TypeInv
<1> USE MemTablesAssumption
<1>1. UNCHANGED <<if_working, current_memtables, list_mutex, pc, created,
                  dump_seq, curr_writing, tmp, died_log, dumped, dumps>>
  BY DEF SpuriousWakeup, SleepOnJobs, SleepOnLists
<1>2. /\ IsQueue(memtables_can_insert, Lists, CanInsertCapacity)
      /\ IsQueue(memtables_wait_for_dump, Seq(Lists), WaitForDumpCapacity)
      /\ CanInsertCapacity \in Nat /\ WaitForDumpCapacity \in Nat
  BY <1>0 DEF TypeOK
<1>3. /\ IsQueue(memtables_can_insert', Lists, CanInsertCapacity)
      /\ memtables_can_insert'.data_queue = memtables_can_insert.data_queue
      /\ IsQueue(memtables_wait_for_dump', Seq(Lists), WaitForDumpCapacity)
      /\ memtables_wait_for_dump'.data_queue = memtables_wait_for_dump.data_queue
  <2>1. CASE \E t \in Threads : SleepOnLists(t)
    <3>1. PICK t \in Threads : \/ memtables_can_insert' = SleepToPop(memtables_can_insert, t)
                               \/ memtables_can_insert' = SleepToPush(memtables_can_insert, t)
      BY <2>1 DEF SleepOnLists
    <3>2. UNCHANGED memtables_wait_for_dump
      BY <2>1 DEF SleepOnLists
    <3>3. IsQueue(memtables_can_insert', Lists, CanInsertCapacity)
      BY <1>2, <3>1, SleepLemma
    <3>4. memtables_can_insert'.data_queue = memtables_can_insert.data_queue
      BY <1>2, <3>1 DEF IsQueue, SleepToPop, SleepToPush
    <3> QED BY <1>2, <3>2, <3>3, <3>4
  <2>2. CASE SleepOnJobs(Dumper)
    <3>1. Dumper \in Threads
      BY DEF Threads
    <3>2. /\ memtables_wait_for_dump' = SleepToPop(memtables_wait_for_dump, Dumper)
          /\ UNCHANGED memtables_can_insert
      BY <2>2 DEF SleepOnJobs
    <3> QED BY <1>2, <3>1, <3>2, SleepLemma
  <2>3. CASE SpuriousWakeup
    <3>1. CASE /\ memtables_can_insert' \in WokenSpuriously(memtables_can_insert)
              /\ UNCHANGED memtables_wait_for_dump
      BY <1>2, <3>1, WakeLemma
    <3>2. CASE /\ memtables_wait_for_dump' \in WokenSpuriously(memtables_wait_for_dump)
              /\ UNCHANGED memtables_can_insert
      BY <1>2, <3>2, WakeLemma
    <3> QED BY <2>3, <3>1, <3>2 DEF SpuriousWakeup
  <2> QED BY <2>1, <2>2, <2>3
<1>4. TypeOK'
  <2>1. if_working' \in BOOLEAN /\ died_log' \in BOOLEAN
    BY <1>0, <1>1, Zenon DEF TypeOK
  <2> QED BY <1>0, <1>1, <1>3, <2>1 DEF TypeOK, Lists
<1>5. LabelsOK' /\ CallsWhileOpen' /\ PushesWhatItMade' /\ MutexWhileRefilling' /\ RoomForLists'
  BY <1>0, <1>1 DEF LabelsOK, CallsWhileOpen, PushesWhatItMade, MutexWhileRefilling, RoomForLists
<1> QED BY <1>1, <1>3, <1>4, <1>5 DEF TypeInv

LEMMA StutterTypes == TypeInv /\ UNCHANGED vars => TypeInv'
BY DEF vars, queues, TypeInv, TypeOK, LabelsOK, CallsWhileOpen, PushesWhatItMade,
   MutexWhileRefilling, RoomForLists, Lists

LEMMA TypeInvStep == TypeInv /\ [Next]_vars => TypeInv'
<1> SUFFICES ASSUME TypeInv, [Next]_vars PROVE TypeInv'
  OBVIOUS
<1>1. Main \in Threads /\ Creator \in Threads /\ Writers \subseteq Threads
  BY DEF Threads
<1>2. CASE MainStep \/ BeginStop
  BY <1>1, <1>2, MainTypes, FillTypes, StopTypes, SleepTypes DEF MainStep
<1>3. CASE CreatorStep
  BY <1>1, <1>3, CreatorTypes, SleepTypes DEF CreatorStep
<1>4. CASE DumperStep
  BY <1>1, <1>4, DumperTypes, SleepTypes DEF DumperStep
<1>5. CASE SpuriousWakeup
  BY <1>5, SleepTypes
<1>6. CASE \E w \in Writers : WriterStep(w) \/ SwitchLog(w)
  BY <1>1, <1>6, WriterTypes, SleepTypes DEF WriterStep
<1>7. CASE UNCHANGED vars
  BY <1>7, StutterTypes
<1> QED BY <1>2, <1>3, <1>4, <1>5, <1>6, <1>7 DEF Next

\* Every variable of MemTables keeps its type: no queue outgrows its capacity,
\* there are never more than MEMTABLE_CO_WRITE_NUM lists to write to, and what
\* is in any of them is a list that was made.
THEOREM TypesAreRight == Spec => []TypeOK
<1>1. TypeInv => TypeOK
  BY DEF TypeInv
<1> QED BY <1>1, InitTypeInv, TypeInvStep, PTL DEF Spec

-----------------------------------------------------------------------------
(* The destructor waits for the two threads                                *)

LEMMA InitStartedAndJoined == Init => StartedAndJoined
BY MemTablesAssumption DEF Init, StartedAndJoined, Main, Creator, Dumper, Threads

LEMMA JoinStep == TypeInv /\ StartedAndJoined /\ [Next]_vars => StartedAndJoined'
<1> SUFFICES ASSUME TypeInv, StartedAndJoined, [Next]_vars PROVE StartedAndJoined'
  OBVIOUS
<1> USE MemTablesAssumption DEF StartedAndJoined
<1>0. pc \in [Threads -> Labels] /\ LabelsOK /\ CallsWhileOpen
      /\ Main \in Threads /\ Creator \in Threads /\ Dumper \in Threads
      /\ Writers \subseteq Threads
  BY DEF TypeInv, TypeOK, Threads
<1>1. CASE StartWorking \/ BeginStop \/ Join \/ Fill \/ Drain \/ PushNull
  <2>1. CASE UNCHANGED pc
    BY <2>1
  <2>2. CASE Join
    BY <1>0, <2>2 DEF Join, Goto, Main, Creator, Dumper
  <2>3. CASE StartWorking \/ BeginStop \/ Fill \/ Drain
    <3>1. pc' = pc \/ pc'[Main] \in {"fill", "drain", "open", "join creater"}
      BY <1>0, <2>3 DEF StartWorking, BeginStop, Fill, Drain, Goto, Main, Creator, Dumper
    <3> QED BY <3>1
  <2>4. CASE PushNull
    BY <1>0, <2>4 DEF PushNull, Goto, Main, Creator, Dumper
  <2> QED BY <1>1, <2>2, <2>3, <2>4
<1>2. CASE TestWorking(Creator) \/ PushList
  <2>1. pc[Creator] \notin {"exited", "off"} /\ \A t \in Threads \ {Creator} : pc'[t] = pc[t]
    BY <1>0, <1>2 DEF TestWorking, PushList, Goto
  <2> QED BY <1>0, <2>1 DEF Main, Creator, Dumper
<1>3. CASE TestWorking(Dumper) \/ TakeJob \/ Dump
  <2>1. pc[Dumper] \notin {"exited", "off"} /\ \A t \in Threads \ {Dumper} : pc'[t] = pc[t]
    BY <1>0, <1>3 DEF TestWorking, TakeJob, Dump, Goto
  <2> QED BY <1>0, <2>1 DEF Main, Creator, Dumper
<1>4. CASE \E w \in Writers : SwitchLog(w) \/ TakeLists(w) \/ Refill(w) \/ Submit(w)
  <2>1. PICK w \in Writers : SwitchLog(w) \/ TakeLists(w) \/ Refill(w) \/ Submit(w)
    BY <1>4
  <2>2. \A t \in Threads \ {w} : pc'[t] = pc[t]
    BY <1>0, <2>1 DEF SwitchLog, TakeLists, Refill, Submit, Goto
  <2> QED BY <1>0, <2>2
<1>5. CASE SpuriousWakeup \/ SleepOnJobs(Dumper) \/ (\E t \in Threads : SleepOnLists(t))
  BY <1>5, SleepTypes
<1>6. CASE UNCHANGED vars
  BY <1>6 DEF vars
<1> QED BY <1>0, <1>1, <1>2, <1>3, <1>4, <1>5, <1>6
        DEF Next, MainStep, CreatorStep, DumperStep, WriterStep

-----------------------------------------------------------------------------
(* One dump at a time, and it has its log                                  *)

\* The jobs when one is pushed, and when the first is popped.
LEMMA JobsPushed ==
  ASSUME TypeInv, NEW job \in Seq(Lists),
         memtables_wait_for_dump'.data_queue = Append(memtables_wait_for_dump.data_queue, job)
  PROVE  /\ job = nullptr => Jobs' = Jobs
         /\ job # nullptr => Jobs' = Jobs \cup {Len(memtables_wait_for_dump.data_queue) + 1}
         /\ DOMAIN memtables_wait_for_dump'.data_queue
              = (DOMAIN memtables_wait_for_dump.data_queue)
                  \cup {Len(memtables_wait_for_dump.data_queue) + 1}
<1> DEFINE q == memtables_wait_for_dump.data_queue  r == Append(q, job)
<1>1. q \in Seq(Seq(Lists))
  BY DEF TypeInv, TypeOK, IsQueue
<1> HIDE DEF q
<1>2. /\ Len(q) \in Nat /\ DOMAIN q = 1 .. Len(q) /\ DOMAIN r = 1 .. Len(q) + 1
      /\ \A i \in 1 .. Len(q) : r[i] = q[i]
      /\ r[Len(q) + 1] = job
  BY <1>1, AppendProperties, LenProperties
<1> DEFINE J(s) == {j \in DOMAIN s : s[j] # nullptr}
<1>3. /\ job = nullptr => J(r) = J(q)
      /\ job # nullptr => J(r) = J(q) \cup {Len(q) + 1}
      /\ DOMAIN r = DOMAIN q \cup {Len(q) + 1}
  <2> HIDE DEF r
  <2> QED BY <1>2
<1> QED BY <1>3 DEF Jobs, q

LEMMA JobsPopped ==
  ASSUME TypeInv, memtables_wait_for_dump.data_queue # << >>,
         memtables_wait_for_dump'.data_queue = Tail(memtables_wait_for_dump.data_queue)
  PROVE  /\ Jobs \subseteq Nat \ {0} /\ 1 \in DOMAIN memtables_wait_for_dump.data_queue
         /\ \A j \in Jobs' : j \in Nat \ {0} /\ j + 1 \in Jobs
         /\ DOMAIN memtables_wait_for_dump.data_queue = Jobs
              => DOMAIN memtables_wait_for_dump'.data_queue = Jobs'
<1> DEFINE q == memtables_wait_for_dump.data_queue  r == Tail(q)
<1>1. q \in Seq(Seq(Lists)) /\ q # << >>
  BY DEF TypeInv, TypeOK, IsQueue
<1> HIDE DEF q
<1>2. /\ Len(q) \in Nat \ {0} /\ DOMAIN q = 1 .. Len(q) /\ DOMAIN r = 1 .. Len(q) - 1
      /\ \A i \in 1 .. Len(q) - 1 : r[i] = q[i + 1]
  BY <1>1, HeadTailProperties, LenProperties, EmptySeq
<1> DEFINE J(s) == {j \in DOMAIN s : s[j] # nullptr}
<1>3. /\ J(q) \subseteq Nat \ {0} /\ 1 \in DOMAIN q
      /\ \A j \in J(r) : j \in Nat \ {0} /\ j + 1 \in J(q)
      /\ DOMAIN q = J(q) => DOMAIN r = J(r)
  <2> HIDE DEF r
  <2>1. J(q) \subseteq Nat \ {0} /\ 1 \in DOMAIN q
    BY <1>2
  <2>2. \A j \in DOMAIN r : j \in Nat \ {0} /\ j + 1 \in DOMAIN q /\ r[j] = q[j + 1]
    BY <1>2
  <2>3. \A j \in J(r) : j \in Nat \ {0} /\ j + 1 \in J(q)
    BY <2>2
  <2>4. ASSUME DOMAIN q = J(q) PROVE DOMAIN r = J(r)
    <3>1. \A j \in DOMAIN q : q[j] # nullptr
      BY <2>4
    <3> QED BY <2>2, <3>1
  <2> QED BY <2>1, <2>3, <2>4
<1> QED BY <1>3 DEF Jobs, q

\* The steps that touch neither a job nor a writer.
LEMMA DumpUntouched ==
  ASSUME TypeInv, TypeInv', DumpInv,
         UNCHANGED <<memtables_wait_for_dump.data_queue, dump_seq, curr_writing, died_log>>,
         \A w \in Writers : pc'[w] = pc[w],
         pc'[Dumper] = "dump" <=> pc[Dumper] = "dump",
         pc'[Main] \notin {"join dumper", "stopped"} => pc[Main] \notin {"join dumper", "stopped"},
         ListsForWriters'
  PROVE  DumpInv'
<1>1. Jobs' = Jobs
  BY DEF Jobs
<1>2. OneDump'
  BY <1>1 DEF DumpInv, OneDump, Submitting
<1>3. TakenLists' /\ NullJobIsLast'
  BY <1>1 DEF DumpInv, TakenLists, NullJobIsLast
<1> QED BY <1>2, <1>3 DEF DumpInv

LEMMA DumpWriter ==
  ASSUME TypeInv, TypeInv', DumpInv, NEW w \in Writers,
         SwitchLog(w) \/ TakeLists(w) \/ Refill(w) \/ Submit(w)
  PROVE  DumpInv'
<1> DEFINE q == memtables_wait_for_dump.data_queue
<1>0. /\ pc \in [Threads -> Labels] /\ w \in Threads /\ Writers \subseteq Threads
      /\ w \notin {Main, Creator, Dumper, Nobody} /\ Nobody \notin Writers
      /\ Main \in Threads /\ Dumper \in Threads
      /\ OneDump /\ TakenLists /\ NullJobIsLast /\ ListsForWriters
      /\ LabelsOK /\ CallsWhileOpen /\ MutexWhileRefilling /\ RoomForLists
      /\ dump_seq \in [Writers -> Seq(Lists)]
  BY MemTablesAssumption DEF TypeInv, TypeOK, Threads, DumpInv
<1>1. /\ \A t \in Threads \ {w} : pc'[t] = pc[t]
      /\ pc[Main] = "open" /\ pc'[Main] = "open" /\ pc'[Dumper] = pc[Dumper]
      /\ curr_writing' = curr_writing
  BY <1>0 DEF SwitchLog, TakeLists, Refill, Submit, Goto, CallsWhileOpen
<1>2. CASE SwitchLog(w)
  <2>1. pc[w] = "idle" /\ pc'[w] = "lock" /\ ~ died_log /\ died_log' /\ Jobs' = Jobs
    BY <1>0, <1>2 DEF SwitchLog, Goto, Jobs, queues
  <2>2. Jobs = {} /\ curr_writing = nullptr /\ \A v \in Writers : ~ Submitting(v)
    BY <1>0, <2>1 DEF OneDump
  <2>3. \A v \in Writers : Submitting(v)' => v = w
    BY <1>0, <1>1, <2>2 DEF Submitting
  <2>4. OneDump'
    BY <1>1, <2>1, <2>2, <2>3 DEF OneDump
  <2>5. TakenLists' /\ NullJobIsLast' /\ ListsForWriters'
    BY <1>0, <1>1, <1>2, <2>1 DEF TakenLists, NullJobIsLast, ListsForWriters, SwitchLog, queues
  <2> QED BY <2>4, <2>5 DEF DumpInv
<1>3. CASE TakeLists(w)
  <2>1. /\ pc[w] = "lock" /\ pc'[w] = "refill" /\ died_log' = died_log /\ Jobs' = Jobs
        /\ UNCHANGED memtables_wait_for_dump
        /\ list_mutex' = w /\ list_mutex = Nobody
        /\ dump_seq' = [dump_seq EXCEPT ![w] = current_memtables]
    BY <1>0, <1>3 DEF TakeLists, Goto, Jobs, queues
  <2>2. \A v \in Writers : Submitting(v)' <=> Submitting(v)
    BY <1>0, <1>1, <2>1 DEF Submitting
  <2>3. OneDump'
    BY <1>0, <1>1, <2>1, <2>2 DEF OneDump
  <2>4. current_memtables # nullptr
    <3>1. Len(current_memtables) = MEMTABLE_CO_WRITE_NUM
      BY <1>0, <1>1, <2>1 DEF ListsForWriters
    <3> QED BY <3>1, EmptySeq, MemTablesAssumption DEF nullptr
  <2>5. TakenLists'
    BY <1>0, <1>1, <2>1, <2>4 DEF TakenLists
  <2>6. NullJobIsLast' /\ ListsForWriters'
    BY <1>0, <1>1, <2>1 DEF NullJobIsLast, ListsForWriters
  <2> QED BY <2>3, <2>5, <2>6 DEF DumpInv
<1>4. CASE Refill(w)
  <2>1. /\ pc[w] = "refill" /\ pc'[w] \in {"refill", "submit"} /\ died_log' = died_log
        /\ UNCHANGED <<memtables_wait_for_dump, dump_seq>> /\ Jobs' = Jobs
    BY <1>0, <1>4 DEF Refill, Goto, Jobs, PopList
  <2>2. \A v \in Writers : Submitting(v)' <=> Submitting(v)
    BY <1>0, <1>1, <2>1 DEF Submitting
  <2>3. OneDump'
    BY <1>0, <1>1, <2>1, <2>2 DEF OneDump
  <2>4. TakenLists'
    BY <1>0, <1>1, <2>1 DEF TakenLists
  <2>5. ListsForWriters'
    <3>1. list_mutex = w
      BY <1>0, <2>1 DEF MutexWhileRefilling
    <3>2. list_mutex' = Nobody => Len(current_memtables') = MEMTABLE_CO_WRITE_NUM
      BY <1>0, <1>4, <3>1 DEF Refill
    <3> QED BY <3>2 DEF ListsForWriters
  <2>6. NullJobIsLast'
    BY <1>0, <1>1, <2>1 DEF NullJobIsLast
  <2> QED BY <2>3, <2>4, <2>5, <2>6 DEF DumpInv
<1>5. CASE Submit(w)
  <2>1. /\ pc[w] = "submit" /\ pc'[w] = "idle" /\ died_log' = died_log
        /\ dump_seq' = [dump_seq EXCEPT ![w] = nullptr]
        /\ UNCHANGED <<current_memtables, list_mutex>>
        /\ PushJob(w, dump_seq[w])
    BY <1>0, <1>5 DEF Submit, Goto
  <2>2. dump_seq[w] # nullptr /\ dump_seq[w] \in Seq(Lists)
    BY <1>0, <2>1 DEF TakenLists
  <2>3. /\ died_log /\ Jobs = {} /\ curr_writing = nullptr
        /\ \A v \in Writers : Submitting(v) => v = w
    BY <1>0, <2>1 DEF OneDump, Submitting
  <2>4. memtables_wait_for_dump'.data_queue = Append(q, dump_seq[w])
    BY <1>0, <2>1, <2>2, PushJobLemma
  <2>5. Jobs' = {Len(q) + 1} /\ DOMAIN memtables_wait_for_dump'.data_queue = (DOMAIN q) \cup {Len(q) + 1}
    BY <2>2, <2>3, <2>4, JobsPushed
  <2>6. \A v \in Writers : ~ Submitting(v)'
    BY <1>0, <1>1, <2>1, <2>3 DEF Submitting
  <2>7. OneDump'
    BY <1>0, <1>1, <2>1, <2>3, <2>5, <2>6 DEF OneDump
  <2>8. TakenLists'
    BY <1>0, <1>1, <2>1 DEF TakenLists
  <2>9. NullJobIsLast' /\ ListsForWriters'
    BY <1>0, <1>1, <2>1, <2>3, <2>5 DEF NullJobIsLast, ListsForWriters
  <2> QED BY <2>7, <2>8, <2>9 DEF DumpInv
<1> QED BY <1>2, <1>3, <1>4, <1>5

LEMMA DumpDumper ==
  ASSUME TypeInv, TypeInv', DumpInv, TakeJob \/ Dump
  PROVE  DumpInv'
<1> DEFINE q == memtables_wait_for_dump.data_queue
<1>0. /\ pc \in [Threads -> Labels] /\ Writers \subseteq Threads
      /\ Main \in Threads /\ Dumper \in Threads /\ Main # Dumper /\ Dumper \notin Writers
      /\ OneDump /\ TakenLists /\ NullJobIsLast /\ ListsForWriters
      /\ q \in Seq(Seq(Lists))
  BY MemTablesAssumption DEF TypeInv, TypeOK, Threads, DumpInv, IsQueue, Main, Dumper
<1>1. /\ \A t \in Threads \ {Dumper} : pc'[t] = pc[t]
      /\ UNCHANGED <<list_mutex, current_memtables, dump_seq>>
  BY <1>0 DEF TakeJob, Dump, Goto
<1>2. \A v \in Writers : Submitting(v)' <=> Submitting(v)
  BY <1>0, <1>1 DEF Submitting
<1>3. ListsForWriters'
  BY <1>0, <1>1 DEF ListsForWriters
<1>4. CASE TakeJob
  <2>1. /\ q # << >> /\ curr_writing' = q[1] /\ died_log' = died_log
        /\ memtables_wait_for_dump'.data_queue = Tail(q)
        /\ pc[Dumper] = "take"
        /\ pc'[Dumper] = IF curr_writing' = nullptr THEN "test" ELSE "dump"
    <3>1. /\ q # << >> /\ curr_writing' = Head(q) /\ died_log' = died_log
          /\ memtables_wait_for_dump' \in Popped(memtables_wait_for_dump)
          /\ pc[Dumper] = "take"
          /\ pc'[Dumper] = IF curr_writing' = nullptr THEN "test" ELSE "dump"
      BY <1>0, <1>4 DEF TakeJob, Goto, IsEmpty, Front
    <3>2. memtables_wait_for_dump'.data_queue = Tail(q)
      BY <3>1 DEF Popped, TypeInv, TypeOK, IsQueue
    <3>3. Head(q) = q[1]
      BY <1>0, <3>1
    <3> QED BY <3>1, <3>2, <3>3
  <2>2. /\ Jobs \subseteq Nat \ {0} /\ 1 \in DOMAIN q
        /\ \A j \in Jobs' : j \in Nat \ {0} /\ j + 1 \in Jobs
        /\ DOMAIN q = Jobs => DOMAIN memtables_wait_for_dump'.data_queue = Jobs'
    BY <2>1, JobsPopped
  <2>3. curr_writing = nullptr
    BY <1>0, <2>1 DEF TakenLists
  <2>4. TakenLists'
    BY <1>0, <1>1, <2>1 DEF TakenLists
  <2>5. NullJobIsLast'
    BY <1>0, <1>1, <2>2 DEF NullJobIsLast
  <2>6. \A i, j \in Jobs' : i = j
    <3>1. SUFFICES ASSUME NEW i \in Jobs', NEW j \in Jobs' PROVE i = j
      OBVIOUS
    <3>2. i + 1 = j + 1 /\ i \in Nat /\ j \in Nat
      BY <1>0, <2>2 DEF OneDump
    <3> QED BY <3>2
  <2>7. curr_writing' # nullptr => 1 \in Jobs /\ Jobs' = {}
    <3>1. SUFFICES ASSUME curr_writing' # nullptr PROVE 1 \in Jobs /\ Jobs' = {}
      OBVIOUS
    <3>2. 1 \in Jobs
      BY <2>1, <2>2, <3>1 DEF Jobs
    <3>3. ASSUME NEW j \in Jobs' PROVE FALSE
      <4>1. j + 1 = 1 /\ j \in Nat \ {0}
        BY <1>0, <2>2, <3>2 DEF OneDump
      <4> QED BY <4>1
    <3> QED BY <3>2, <3>3
  <2>8. (Jobs' # {} \/ curr_writing' # nullptr) => Jobs # {}
    BY <2>2, <2>7
  <2>9. OneDump'
    BY <1>0, <1>2, <2>1, <2>3, <2>6, <2>7, <2>8 DEF OneDump
  <2> QED BY <1>3, <2>4, <2>5, <2>9 DEF DumpInv
<1>5. CASE Dump
  <2>1. /\ UNCHANGED memtables_wait_for_dump /\ Jobs' = Jobs
        /\ curr_writing' = nullptr /\ pc'[Dumper] = "test" /\ pc[Dumper] = "dump"
    BY <1>0, <1>5 DEF Dump, Goto, queues, Jobs
  <2>2. curr_writing # nullptr
    BY <1>0, <2>1 DEF TakenLists
  <2>3. Jobs = {} /\ \A v \in Writers : ~ Submitting(v)
    BY <1>0, <2>2 DEF OneDump
  <2>4. OneDump'
    BY <1>2, <2>1, <2>3 DEF OneDump
  <2>5. TakenLists' /\ NullJobIsLast'
    BY <1>0, <1>1, <2>1 DEF TakenLists, NullJobIsLast
  <2> QED BY <1>3, <2>4, <2>5 DEF DumpInv
<1> QED BY <1>4, <1>5

LEMMA DumpMain ==
  ASSUME TypeInv, TypeInv', StartedAndJoined, DumpInv,
         StartWorking \/ Fill \/ BeginStop \/ Drain \/ Join \/ PushNull
  PROVE  DumpInv'
<1> DEFINE q == memtables_wait_for_dump.data_queue
<1>0. /\ pc \in [Threads -> Labels] /\ Writers \subseteq Threads
      /\ Main \in Threads /\ Dumper \in Threads /\ Creator \in Threads
      /\ Main # Dumper /\ Main # Creator /\ Creator # Dumper
      /\ Writers \cap {Main, Creator, Dumper} = {}
      /\ OneDump /\ TakenLists /\ NullJobIsLast /\ ListsForWriters
      /\ LabelsOK
  BY MemTablesAssumption DEF TypeInv, TypeOK, Threads, DumpInv, Main, Dumper, Creator
<1>1. /\ UNCHANGED <<dump_seq, curr_writing, died_log, list_mutex>>
      /\ \A w \in Writers : pc'[w] = pc[w]
      /\ pc'[Dumper] = "dump" <=> pc[Dumper] = "dump"
      /\ ~ Fill => pc'[Main] # "open"
  <2>1. CASE Fill
    <3>1. pc' = pc \/ pc' = [pc EXCEPT ![Main] = "open"]
      BY <2>1 DEF Fill, Goto
    <3>2. UNCHANGED <<dump_seq, curr_writing, died_log, list_mutex>>
      BY <2>1 DEF Fill
    <3> QED BY <1>0, <2>1, <3>1, <3>2
  <2>2. CASE StartWorking \/ BeginStop \/ Drain \/ Join \/ PushNull
    BY <1>0, <2>2 DEF StartedAndJoined, StartWorking, BeginStop, Drain, Join, PushNull, Goto
  <2> QED BY <2>1, <2>2
<1>2. ListsForWriters'
  <2>1. CASE Fill /\ pc'[Main] = "open"
    <3>1. pc[Main] = "fill"
      BY <2>1 DEF Fill
    <3>2. Len(current_memtables') = MEMTABLE_CO_WRITE_NUM
      BY <2>1, <3>1 DEF Fill
    <3> QED BY <3>2 DEF ListsForWriters
  <2>2. CASE ~ (Fill /\ pc'[Main] = "open")
    BY <1>1, <2>2 DEF ListsForWriters
  <2> QED BY <2>1, <2>2
<1>3. CASE PushNull
  <2>1. PushJob(Main, nullptr) /\ pc'[Main] = "join dumper"
    BY <1>0, <1>3 DEF PushNull, Goto
  <2>2. nullptr \in Seq(Lists)
    BY EmptySeq DEF nullptr
  <2>3. memtables_wait_for_dump'.data_queue = Append(q, nullptr)
    BY <1>0, <2>1, <2>2, PushJobLemma
  <2>4. Jobs' = Jobs
    BY <2>2, <2>3, JobsPushed
  <2>5. OneDump'
    BY <1>0, <1>1, <2>4 DEF OneDump, Submitting
  <2>6. TakenLists' /\ NullJobIsLast'
    BY <1>0, <1>1, <2>1 DEF TakenLists, NullJobIsLast
  <2> QED BY <1>2, <2>5, <2>6 DEF DumpInv
<1>4. CASE StartWorking \/ Fill \/ BeginStop \/ Drain \/ Join
  <2>1. UNCHANGED memtables_wait_for_dump
    BY <1>4 DEF StartWorking, Fill, BeginStop, Drain, Join, PopList, queues
  <2>2. pc'[Main] \notin {"join dumper", "stopped"} => pc[Main] \notin {"join dumper", "stopped"}
    BY <1>0, <1>4 DEF StartWorking, Fill, BeginStop, Drain, Join, Goto
  <2> QED BY <1>1, <1>2, <2>1, <2>2, DumpUntouched
<1> QED BY <1>3, <1>4

LEMMA DumpStep == TypeInv /\ TypeInv' /\ StartedAndJoined /\ DumpInv /\ [Next]_vars => DumpInv'
<1> SUFFICES ASSUME TypeInv, TypeInv', StartedAndJoined, DumpInv, [Next]_vars PROVE DumpInv'
  OBVIOUS
<1>0. /\ Main \in Threads /\ Creator \in Threads /\ Writers \subseteq Threads
      /\ Dumper \in Threads /\ Main # Dumper /\ Main # Creator /\ Creator # Dumper
      /\ Writers \cap {Main, Creator, Dumper} = {}
      /\ pc \in [Threads -> Labels] /\ ListsForWriters
  BY MemTablesAssumption DEF Threads, Main, Creator, Dumper, TypeInv, TypeOK, DumpInv
<1>1. CASE \E w \in Writers : SwitchLog(w) \/ TakeLists(w) \/ Refill(w) \/ Submit(w)
  BY <1>1, DumpWriter
<1>2. CASE TakeJob \/ Dump
  BY <1>2, DumpDumper
<1>3. CASE StartWorking \/ Fill \/ BeginStop \/ Drain \/ Join \/ PushNull
  BY <1>3, DumpMain
<1>4. CASE \/ TestWorking(Creator) \/ PushList \/ TestWorking(Dumper)
           \/ SpuriousWakeup \/ SleepOnJobs(Dumper) \/ (\E t \in Threads : SleepOnLists(t))
           \/ UNCHANGED vars
  <2>1. /\ memtables_wait_for_dump'.data_queue = memtables_wait_for_dump.data_queue
        /\ UNCHANGED <<dump_seq, curr_writing, died_log, list_mutex, current_memtables>>
    BY <1>4, SleepTypes DEF TestWorking, PushList, vars, queues
  <2>2. /\ \A w \in Writers : pc'[w] = pc[w]
        /\ pc'[Dumper] = "dump" <=> pc[Dumper] = "dump"
        /\ pc'[Main] = pc[Main]
    BY <1>0, <1>4, SleepTypes DEF TestWorking, PushList, Goto, vars
  <2>3. ListsForWriters'
    BY <1>0, <2>1, <2>2 DEF ListsForWriters
  <2> QED BY <2>1, <2>2, <2>3, DumpUntouched
<1> QED BY <1>0, <1>1, <1>2, <1>3, <1>4
        DEF Next, MainStep, CreatorStep, DumperStep, WriterStep

LEMMA InitDumpInv == Init => DumpInv
<1> SUFFICES ASSUME Init PROVE DumpInv
  OBVIOUS
<1>1. /\ pc[Main] = "start" /\ pc[Dumper] = "off" /\ \A w \in Writers : pc[w] = "idle"
      /\ \A w \in Writers : dump_seq[w] = nullptr
      /\ curr_writing = nullptr /\ memtables_wait_for_dump.data_queue = << >>
  BY MemTablesAssumption DEF Init, Threads, Main, Creator, Dumper, EmptyQueue
<1>2. DOMAIN memtables_wait_for_dump.data_queue = {}
  BY <1>1
<1>3. Jobs = {}
  BY <1>2 DEF Jobs
<1> QED BY <1>1, <1>2, <1>3
        DEF DumpInv, ListsForWriters, OneDump, TakenLists, NullJobIsLast, Submitting

\* The mutex is never free with lists missing: get_memtable finds the list of
\* its key, however many writers submit at the time.
THEOREM ListsAreThere == Spec => []ListsForWriters
<1>1. DumpInv => ListsForWriters
  BY DEF DumpInv
<1> QED BY <1>1, InitTypeInv, InitStartedAndJoined, InitDumpInv, TypeInvStep,
           JoinStep, DumpStep, PTL DEF Spec

\* At most one dump waits or is under way, and the died log of its records is
\* there until it has ended: what stop_working leaves in the queue can be
\* replayed.
THEOREM DumpHasItsLog == Spec => []LeftJobHasLog
<1>1. TypeInv /\ DumpInv => LeftJobHasLog
  <2> SUFFICES ASSUME TypeInv, OneDump PROVE LeftJobHasLog
    BY DEF DumpInv
  <2>1. Cardinality(Jobs) = IF Jobs = {} THEN 0 ELSE 1
    <3>1. CASE Jobs = {}
      BY <3>1, FS_EmptySet
    <3>2. CASE Jobs # {}
      <4>1. PICK j : j \in Jobs
        BY <3>2
      <4>2. Jobs = {j}
        BY <4>1 DEF OneDump
      <4> QED BY <4>2, FS_Singleton
    <3> QED BY <3>1, <3>2
  <2>2. Jobs # {} => died_log /\ curr_writing = nullptr
    BY DEF OneDump
  <2>3. curr_writing # nullptr => died_log
    BY DEF OneDump
  <2> QED BY <2>1, <2>2, <2>3 DEF LeftJobHasLog, Jobs
<1> QED BY <1>1, InitTypeInv, InitStartedAndJoined, InitDumpInv, TypeInvStep,
           JoinStep, DumpStep, PTL DEF Spec

\* Whoever is about to push a job finds room for it.
JobPushesGoThrough ==
  \A t \in Threads : AtJobPush(t) => ~ IsFull(memtables_wait_for_dump, WaitForDumpCapacity)

\* wait_and_push of a job never waits, as the model has it: when a writer
\* submits the queue is empty, and stop_working finds one job in it at most.
THEOREM JobQueueIsNeverFull == Spec => []JobPushesGoThrough
<1>1. TypeInv /\ DumpInv => JobPushesGoThrough
  <2> SUFFICES ASSUME TypeInv, DumpInv, NEW t \in Threads, AtJobPush(t)
               PROVE  ~ IsFull(memtables_wait_for_dump, WaitForDumpCapacity)
    BY DEF JobPushesGoThrough
  <2> DEFINE q == memtables_wait_for_dump.data_queue
  <2>1. q \in Seq(Seq(Lists)) /\ LabelsOK /\ CallsWhileOpen /\ OneDump /\ NullJobIsLast
    BY DEF TypeInv, TypeOK, IsQueue, DumpInv
  <2>2. Len(q) \in Nat /\ DOMAIN q = 1 .. Len(q)
    BY <2>1, LenProperties
  <2>3. DOMAIN q = Jobs
    <3>1. pc[Main] \in {"open", "stop"}
      BY <2>1 DEF AtJobPush, LabelsOK, CallsWhileOpen, Threads
    <3> QED BY <2>1, <3>1 DEF NullJobIsLast
  <2>4. \A i, j \in DOMAIN q : i = j
    BY <2>1, <2>3 DEF OneDump
  <2>5. Len(q) < 2
    <3>1. SUFFICES ASSUME Len(q) >= 2 PROVE FALSE
      BY <2>2
    <3>2. 1 \in DOMAIN q /\ 2 \in DOMAIN q
      BY <2>2, <3>1
    <3>3. 1 = 2
      BY <2>4, <3>2
    <3> QED BY <3>3
  <2> HIDE DEF q
  <2>6. ~ (Len(q) >= WaitForDumpCapacity)
    BY <2>2, <2>5, MemTablesAssumption
  <2> QED BY <2>6 DEF IsFull, q
<1> QED BY <1>1, InitTypeInv, InitStartedAndJoined, InitDumpInv, TypeInvStep, JoinStep,
           DumpStep, PTL DEF Spec

-----------------------------------------------------------------------------
(* Every list is in one place                                              *)

NoRepeats(s) == \A i, j \in DOMAIN s : s[i] = s[j] => i = j

\* The lists at each stage of their life.
Elements(s) == {s[i] : i \in DOMAIN s}
Made     == IF pc[Creator] = "push" THEN {created} ELSE {}
Waiting  == Elements(memtables_can_insert.data_queue)
Current  == Elements(current_memtables)
OnTheWay == (UNION {Elements(dump_seq[w]) : w \in Writers})
              \cup (UNION {Elements(memtables_wait_for_dump.data_queue[j]) :
                            j \in DOMAIN memtables_wait_for_dump.data_queue})
              \cup Elements(curr_writing)
Dropped  == Elements(tmp)

\* S is divided into the six sets.
Stages(S, A, B, C, D, E, F) ==
  /\ S = A \cup B \cup C \cup D \cup E \cup F
  /\ A \cap (B \cup C \cup D \cup E \cup F) = {}
  /\ B \cap (C \cup D \cup E \cup F) = {}
  /\ C \cap (D \cup E \cup F) = {}
  /\ D \cap (E \cup F) = {}
  /\ E \cap F = {}

OneStage == Stages(Lists, Made, Waiting, Current, OnTheWay, Dropped, dumped)

OncePerQueue ==
  /\ NoRepeats(memtables_can_insert.data_queue)
  /\ NoRepeats(current_memtables)
  /\ \A w \in Writers : NoRepeats(dump_seq[w])
  /\ \A j \in DOMAIN memtables_wait_for_dump.data_queue :
       NoRepeats(memtables_wait_for_dump.data_queue[j])
  /\ NoRepeats(curr_writing)
  /\ NoRepeats(tmp)

DropsOne == pc[Main] \in {"start", "fill", "open", "drain"} => tmp = << >>

ListInv == OneStage /\ OncePerQueue /\ DropsOne

LEMMA TailElements ==
  ASSUME NEW S, NEW s \in Seq(S), s # << >>, NoRepeats(s)
  PROVE  /\ Elements(Tail(s)) = Elements(s) \ {Head(s)} /\ Head(s) \in Elements(s)
         /\ NoRepeats(Tail(s))
<1> DEFINE r == Tail(s)
<1>1. /\ Len(s) \in Nat \ {0} /\ DOMAIN s = 1 .. Len(s) /\ DOMAIN r = 1 .. Len(s) - 1
      /\ \A i \in 1 .. Len(s) - 1 : r[i] = s[i + 1]
      /\ Head(s) = s[1]
  BY HeadTailProperties, LenProperties, EmptySeq
<1> HIDE DEF r
<1>2. NoRepeats(r)
  <2>1. SUFFICES ASSUME NEW i \in 1 .. Len(s) - 1, NEW j \in 1 .. Len(s) - 1, r[i] = r[j]
                 PROVE  i = j
    BY <1>1 DEF NoRepeats
  <2>2. s[i + 1] = s[j + 1] /\ i + 1 \in 1 .. Len(s) /\ j + 1 \in 1 .. Len(s)
    BY <1>1, <2>1
  <2>3. i + 1 = j + 1
    BY <1>1, <2>2 DEF NoRepeats
  <2> QED BY <2>3
<1>3. Head(s) \in Elements(s)
  BY <1>1 DEF Elements
<1>4. Elements(r) \subseteq Elements(s) \ {Head(s)}
  <2>1. SUFFICES ASSUME NEW i \in 1 .. Len(s) - 1
                 PROVE  r[i] \in Elements(s) /\ r[i] # Head(s)
    BY <1>1 DEF Elements
  <2>2. r[i] = s[i + 1] /\ i + 1 \in 1 .. Len(s) /\ i + 1 # 1 /\ 1 \in 1 .. Len(s)
    BY <1>1
  <2> QED BY <1>1, <2>2 DEF Elements, NoRepeats
<1>5. Elements(s) \ {Head(s)} \subseteq Elements(r)
  <2>1. SUFFICES ASSUME NEW i \in 1 .. Len(s), s[i] # Head(s)
                 PROVE  s[i] \in Elements(r)
    BY <1>1 DEF Elements
  <2>2. i - 1 \in 1 .. Len(s) - 1 /\ (i - 1) + 1 = i
    BY <1>1, <2>1
  <2>3. r[i - 1] = s[i]
    BY <1>1, <2>2
  <2> QED BY <1>1, <2>2, <2>3 DEF Elements
<1> QED BY <1>2, <1>3, <1>4, <1>5 DEF r

LEMMA AppendElements ==
  ASSUME NEW S, NEW s \in Seq(S), NEW e \in S
  PROVE  /\ Elements(Append(s, e)) = Elements(s) \cup {e}
         /\ NoRepeats(s) /\ e \notin Elements(s) => NoRepeats(Append(s, e))
<1> DEFINE r == Append(s, e)
<1>1. /\ Len(s) \in Nat /\ DOMAIN s = 1 .. Len(s) /\ DOMAIN r = 1 .. Len(s) + 1
      /\ \A i \in 1 .. Len(s) : r[i] = s[i]
      /\ r[Len(s) + 1] = e
  BY AppendProperties, LenProperties
<1> HIDE DEF r
<1>2. DOMAIN r = DOMAIN s \cup {Len(s) + 1} /\ Len(s) + 1 \notin DOMAIN s
  BY <1>1
<1>3. Elements(r) = Elements(s) \cup {e}
  BY <1>1, <1>2 DEF Elements
<1>4. NoRepeats(s) /\ e \notin Elements(s) => NoRepeats(r)
  BY <1>1, <1>2 DEF Elements, NoRepeats
<1> QED BY <1>3, <1>4 DEF r

LEMMA PrependElements ==
  ASSUME NEW S, NEW s \in Seq(S), NEW e \in S
  PROVE  /\ Elements(<<e>> \o s) = Elements(s) \cup {e}
         /\ NoRepeats(s) /\ e \notin Elements(s) => NoRepeats(<<e>> \o s)
<1> DEFINE r == <<e>> \o s
<1>0. <<e>> \in Seq(S) /\ Len(<<e>>) = 1 /\ <<e>>[1] = e
  OBVIOUS
<1>1. /\ Len(s) \in Nat /\ DOMAIN s = 1 .. Len(s) /\ DOMAIN r = 1 .. Len(s) + 1
      /\ \A i \in 1 .. Len(s) + 1 : r[i] = IF i <= 1 THEN e ELSE s[i - 1]
  BY <1>0, ConcatProperties, LenProperties
<1> HIDE DEF r
<1>2. /\ r[1] = e /\ 1 \in DOMAIN r
      /\ \A i \in DOMAIN s : i + 1 \in DOMAIN r /\ i + 1 # 1 /\ r[i + 1] = s[i]
      /\ \A i \in DOMAIN r : i = 1 \/ (i - 1 \in DOMAIN s /\ r[i] = s[i - 1])
  BY <1>1
<1>3. Elements(r) = Elements(s) \cup {e}
  BY <1>2 DEF Elements
<1>4. ASSUME NoRepeats(s), e \notin Elements(s), NEW i \in DOMAIN r, NEW j \in DOMAIN r,
             r[i] = r[j]
      PROVE  i = j
  <2>1. CASE i = 1
    BY <1>2, <1>4, <2>1 DEF Elements
  <2>2. CASE j = 1
    BY <1>2, <1>4, <2>2 DEF Elements
  <2>3. CASE i # 1 /\ j # 1
    <3>1. i - 1 = j - 1
      BY <1>2, <1>4, <2>3 DEF NoRepeats
    <3> QED BY <1>1, <3>1
  <2> QED BY <2>1, <2>2, <2>3
<1> QED BY <1>3, <1>4 DEF r, NoRepeats

LEMMA NoElements == Elements(<< >>) = {} /\ NoRepeats(<< >>)
BY DEF Elements, NoRepeats

\* A list moves from one stage to another, or is new.
LEMMA StageMoves ==
  ASSUME NEW S, NEW A, NEW B, NEW C, NEW D, NEW E, NEW F, Stages(S, A, B, C, D, E, F)
  PROVE  /\ \A x \in A : Stages(S, A \ {x}, B \cup {x}, C, D, E, F)
         /\ \A x \in B : Stages(S, A, B \ {x}, C \cup {x}, D, E, F)
         /\ \A x \in B : E = {} => Stages(S, A, B \ {x}, C, D, {x}, F)
         /\ Stages(S, A, B, {}, D \cup C, E, F)
         /\ Stages(S, A, B, C, {}, E, F \cup D)
         /\ \A x : A = {} /\ x \notin S => Stages(S \cup {x}, {x}, B, C, D, E, F)
<1> USE DEF Stages
<1>1. \A x \in A : Stages(S, A \ {x}, B \cup {x}, C, D, E, F)
  OBVIOUS
<1>2. \A x \in B : Stages(S, A, B \ {x}, C \cup {x}, D, E, F)
  OBVIOUS
<1>3. \A x \in B : E = {} => Stages(S, A, B \ {x}, C, D, {x}, F)
  OBVIOUS
<1>4. Stages(S, A, B, {}, D \cup C, E, F) /\ Stages(S, A, B, C, {}, E, F \cup D)
  OBVIOUS
<1>5. \A x : A = {} /\ x \notin S => Stages(S \cup {x}, {x}, B, C, D, E, F)
  OBVIOUS
<1> QED BY <1>1, <1>2, <1>3, <1>4, <1>5

\* The steps that leave every list where it is.
LEMMA ListsUntouched ==
  ASSUME ListInv, DropsOne', UNCHANGED <<current_memtables, tmp, dumped, created>>,
         Made' = Made,
         memtables_can_insert'.data_queue = memtables_can_insert.data_queue,
         OnTheWay' = OnTheWay,
         \A w \in Writers : NoRepeats(dump_seq'[w]),
         \A j \in DOMAIN memtables_wait_for_dump'.data_queue :
            NoRepeats(memtables_wait_for_dump'.data_queue[j]),
         NoRepeats(curr_writing')
  PROVE  ListInv'
<1>1. OneStage'
  BY DEF ListInv, OneStage, Lists, Waiting, Current, Dropped
<1>2. OncePerQueue'
  BY DEF ListInv, OncePerQueue
<1> QED BY <1>1, <1>2 DEF ListInv

\* What a thread that pops a list finds.
LEMMA PopElements ==
  ASSUME TypeInv, ListInv, NEW t \in Threads, NEW l, PopList(t, l)
  PROVE  /\ l \in Waiting /\ Waiting' = Waiting \ {l} /\ l \in Lists /\ l \notin Current
         /\ NoRepeats(memtables_can_insert'.data_queue)
<1> DEFINE q == memtables_can_insert.data_queue
<1>1. q \in Seq(Lists) /\ q # << >> /\ NoRepeats(q) /\ l = Head(q)
  BY DEF TypeInv, TypeOK, IsQueue, ListInv, OncePerQueue, PopList, IsEmpty, Front
<1>2. memtables_can_insert'.data_queue = Tail(q) /\ l \in Lists
  BY PopListLemma
<1>3. /\ l \in Elements(q) /\ Elements(Tail(q)) = Elements(q) \ {l} /\ NoRepeats(Tail(q))
  BY <1>1, TailElements
<1>4. l \in Waiting /\ Waiting' = Waiting \ {l}
  BY <1>2, <1>3 DEF Waiting
<1>5. l \notin Current
  BY <1>4 DEF ListInv, OneStage, Stages
<1> QED BY <1>2, <1>3, <1>4, <1>5

LEMMA ListsFill ==
  ASSUME TypeInv, ListInv, Fill
  PROVE  ListInv'
<1>1. /\ Main \in Threads /\ Creator \in Threads /\ pc \in [Threads -> Labels]
      /\ current_memtables \in Seq(Lists) /\ NoRepeats(current_memtables)
  BY DEF Threads, TypeInv, TypeOK, ListInv, OncePerQueue
<1>2. PICK l : PopList(Main, l) /\ current_memtables' = <<l>> \o current_memtables
  BY DEF Fill
<1>3. /\ l \in Waiting /\ Waiting' = Waiting \ {l} /\ l \in Lists /\ l \notin Current
      /\ NoRepeats(memtables_can_insert'.data_queue)
  BY <1>1, <1>2, PopElements
<1>4. Current' = Current \cup {l} /\ NoRepeats(current_memtables')
  BY <1>1, <1>2, <1>3, PrependElements DEF Current
<1>5. /\ UNCHANGED <<tmp, dumped, created, dump_seq, curr_writing>>
      /\ UNCHANGED memtables_wait_for_dump
      /\ pc' = pc \/ pc' = [pc EXCEPT ![Main] = "open"]
      /\ pc[Main] = "fill" /\ Main # Creator
  BY <1>2 DEF Fill, PopList, Goto, Main, Creator
<1>6. Made' = Made /\ OnTheWay' = OnTheWay /\ Dropped' = Dropped /\ Lists' = Lists
  <2>1. pc'[Creator] = pc[Creator]
    BY <1>1, <1>5
  <2> QED BY <1>5, <2>1 DEF Made, OnTheWay, Dropped, Lists
<1>7. OneStage'
  BY <1>3, <1>4, <1>5, <1>6, StageMoves DEF ListInv, OneStage
<1>8. OncePerQueue' /\ DropsOne'
  BY <1>1, <1>3, <1>4, <1>5 DEF ListInv, OncePerQueue, DropsOne
<1> QED BY <1>7, <1>8 DEF ListInv

LEMMA ListsRefill ==
  ASSUME TypeInv, ListInv, NEW w \in Writers, Refill(w)
  PROVE  ListInv'
<1>1. /\ w \in Threads /\ current_memtables \in Seq(Lists) /\ NoRepeats(current_memtables)
      /\ w # Main /\ w # Creator
  BY MemTablesAssumption DEF Threads, TypeInv, TypeOK, ListInv, OncePerQueue
<1>2. PICK l : PopList(w, l) /\ current_memtables' = Append(current_memtables, l)
  BY DEF Refill
<1>3. /\ l \in Waiting /\ Waiting' = Waiting \ {l} /\ l \in Lists /\ l \notin Current
      /\ NoRepeats(memtables_can_insert'.data_queue)
  BY <1>1, <1>2, PopElements
<1>4. Current' = Current \cup {l} /\ NoRepeats(current_memtables')
  BY <1>1, <1>2, <1>3, AppendElements DEF Current
<1>5. /\ UNCHANGED <<tmp, dumped, created, dump_seq, curr_writing>>
      /\ UNCHANGED memtables_wait_for_dump
      /\ pc'[Main] = pc[Main] /\ pc'[Creator] = pc[Creator]
  BY <1>1, <1>2 DEF Refill, PopList, Goto, TypeInv, TypeOK, Threads
<1>6. Made' = Made /\ OnTheWay' = OnTheWay /\ Dropped' = Dropped /\ Lists' = Lists
  BY <1>5 DEF Made, OnTheWay, Dropped, Lists
<1>7. OneStage'
  BY <1>3, <1>4, <1>5, <1>6, StageMoves DEF ListInv, OneStage
<1>8. OncePerQueue' /\ DropsOne'
  BY <1>1, <1>3, <1>4, <1>5 DEF ListInv, OncePerQueue, DropsOne
<1> QED BY <1>7, <1>8 DEF ListInv

LEMMA ListsDrain ==
  ASSUME TypeInv, ListInv, Drain
  PROVE  ListInv'
<1>1. /\ Main \in Threads /\ Creator \in Threads /\ Main # Creator
      /\ tmp = << >> /\ pc \in [Threads -> Labels]
  BY DEF Threads, TypeInv, TypeOK, ListInv, DropsOne, Drain, Main, Creator
<1>2. PICK l : PopList(Main, l) /\ tmp' = <<l>>
  BY DEF Drain
<1>3. /\ l \in Waiting /\ Waiting' = Waiting \ {l} /\ l \in Lists
      /\ NoRepeats(memtables_can_insert'.data_queue)
  BY <1>1, <1>2, PopElements
<1>4. Dropped = {} /\ Dropped' = {l} /\ NoRepeats(tmp')
  BY <1>1, <1>2 DEF Dropped, Elements, NoRepeats
<1>5. /\ UNCHANGED <<current_memtables, dumped, created, dump_seq, curr_writing>>
      /\ UNCHANGED memtables_wait_for_dump
      /\ pc'[Main] = "join creater" /\ pc'[Creator] = pc[Creator]
  <2>1. UNCHANGED memtables_wait_for_dump
    BY <1>2 DEF PopList
  <2> QED BY <1>1, <2>1 DEF Drain, Goto
<1>6. Made' = Made /\ OnTheWay' = OnTheWay /\ Current' = Current /\ Lists' = Lists
  BY <1>5 DEF Made, OnTheWay, Current, Lists
<1>7. OneStage'
  BY <1>3, <1>4, <1>5, <1>6, StageMoves DEF ListInv, OneStage
<1>8. OncePerQueue' /\ DropsOne'
  BY <1>3, <1>4, <1>5 DEF ListInv, OncePerQueue, DropsOne
<1> QED BY <1>7, <1>8 DEF ListInv

LEMMA ListsCreator ==
  ASSUME TypeInv, ListInv, TestWorking(Creator) \/ PushList
  PROVE  ListInv'
<1>0. /\ Creator \in Threads /\ Main \in Threads /\ pc \in [Threads -> Labels] /\ Main # Creator
      /\ created \in Nat /\ IsQueue(memtables_can_insert, Lists, CanInsertCapacity)
      /\ PushesWhatItMade
  BY DEF Threads, TypeInv, TypeOK, Main, Creator
<1>1. /\ UNCHANGED <<current_memtables, tmp, dumped, dump_seq, curr_writing>>
      /\ UNCHANGED memtables_wait_for_dump
      /\ pc'[Main] = pc[Main]
  BY <1>0 DEF TestWorking, PushList, Goto, queues
<1>2. /\ OnTheWay' = OnTheWay /\ Current' = Current /\ Dropped' = Dropped /\ DropsOne'
  BY <1>1 DEF OnTheWay, Current, Dropped, DropsOne, ListInv
<1>3. CASE TestWorking(Creator) /\ if_working
  <2>1. /\ pc[Creator] = "test" /\ pc'[Creator] = "push" /\ created' = created + 1
        /\ UNCHANGED memtables_can_insert
    BY <1>0, <1>3 DEF TestWorking, Goto, queues
  <2>2. /\ Made = {} /\ Made' = {created + 1} /\ Waiting' = Waiting
        /\ created + 1 \notin Lists /\ Lists' = Lists \cup {created + 1}
    BY <1>0, <2>1 DEF Made, Waiting, Lists
  <2>3. OneStage'
    BY <1>1, <1>2, <2>2, StageMoves DEF ListInv, OneStage
  <2>4. OncePerQueue'
    BY <1>1, <2>1 DEF ListInv, OncePerQueue
  <2> QED BY <1>2, <2>3, <2>4 DEF ListInv
<1>4. CASE TestWorking(Creator) /\ ~ if_working
  <2>1. /\ pc[Creator] = "test" /\ pc'[Creator] = "exited" /\ created' = created
        /\ UNCHANGED memtables_can_insert
    BY <1>0, <1>4 DEF TestWorking, Goto, queues
  <2>2. Made = {} /\ Made' = {} /\ Waiting' = Waiting /\ Lists' = Lists
    BY <2>1 DEF Made, Waiting, Lists
  <2>3. OneStage'
    BY <1>1, <1>2, <2>2 DEF ListInv, OneStage
  <2>4. OncePerQueue'
    BY <1>1, <2>1 DEF ListInv, OncePerQueue
  <2> QED BY <1>2, <2>3, <2>4 DEF ListInv
<1>5. CASE PushList
  <2> DEFINE q == memtables_can_insert.data_queue
  <2>1. /\ pc[Creator] = "push" /\ pc'[Creator] = "test" /\ created' = created
        /\ memtables_can_insert'.data_queue = Append(q, created)
    BY <1>0, <1>5 DEF PushList, Goto, Pushed, IsQueue
  <2>2. Made = {created} /\ Made' = {} /\ Lists' = Lists
    BY <2>1 DEF Made, Lists
  <2>3. q \in Seq(Lists) /\ NoRepeats(q) /\ created \in Lists /\ created \notin Elements(q)
    BY <1>0, <2>1, <2>2
    DEF IsQueue, Lists, PushesWhatItMade, ListInv, OncePerQueue, OneStage, Stages, Waiting
  <2>4. Elements(Append(q, created)) = Elements(q) \cup {created} /\ NoRepeats(Append(q, created))
    BY <2>3, AppendElements
  <2>5. Waiting' = Waiting \cup {created}
    BY <2>1, <2>4 DEF Waiting
  <2>6. Made' = Made \ {created} /\ created \in Made /\ Lists' = Lists
    BY <2>2
  <2>7. OneStage'
    BY <1>1, <1>2, <2>5, <2>6, StageMoves DEF ListInv, OneStage
  <2>8. OncePerQueue'
    BY <1>1, <2>1, <2>4 DEF ListInv, OncePerQueue
  <2> QED BY <1>2, <2>7, <2>8 DEF ListInv
<1> QED BY <1>3, <1>4, <1>5

\* The steps that take lists to the dumper.
LEMMA ListsTaken ==
  ASSUME TypeInv, DumpInv, ListInv, NEW w \in Writers, TakeLists(w)
  PROVE  ListInv'
<1>1. /\ w \in Threads /\ w # Main /\ w # Creator /\ Main \in Threads /\ Creator \in Threads
      /\ pc \in [Threads -> Labels] /\ dump_seq \in [Writers -> Seq(Lists)]
  BY MemTablesAssumption DEF Threads, TypeInv, TypeOK
<1>2. /\ pc[w] = "lock" /\ pc'[Main] = pc[Main] /\ pc'[Creator] = pc[Creator]
      /\ dump_seq' = [dump_seq EXCEPT ![w] = current_memtables]
      /\ current_memtables' = << >>
      /\ UNCHANGED <<memtables_can_insert, memtables_wait_for_dump, tmp, dumped, created,
                     curr_writing>>
  BY <1>1 DEF TakeLists, Goto, queues
<1>3. dump_seq[w] = << >>
  BY <1>2 DEF DumpInv, TakenLists, nullptr
<1>4. (UNION {Elements(dump_seq'[v]) : v \in Writers})
        = (UNION {Elements(dump_seq[v]) : v \in Writers}) \cup Current
  <2>1. Elements(dump_seq[w]) = {} /\ Elements(dump_seq'[w]) = Current
    BY <1>1, <1>2, <1>3, NoElements DEF Current
  <2>2. \A v \in Writers \ {w} : Elements(dump_seq'[v]) = Elements(dump_seq[v])
    BY <1>1, <1>2
  <2> HIDE DEF Current
  <2> QED BY <2>1, <2>2
<1>5. OnTheWay' = OnTheWay \cup Current
  BY <1>2, <1>4 DEF OnTheWay
<1>6. /\ Current' = {} /\ Waiting' = Waiting /\ Dropped' = Dropped /\ Made' = Made
      /\ Lists' = Lists
  BY <1>2, NoElements DEF Current, Waiting, Dropped, Made, Lists
<1>7. OneStage'
  BY <1>2, <1>5, <1>6, StageMoves DEF ListInv, OneStage
<1>8. OncePerQueue'
  <2>1. \A v \in Writers : NoRepeats(dump_seq'[v])
    BY <1>1, <1>2 DEF ListInv, OncePerQueue
  <2> QED BY <1>2, <2>1, NoElements DEF ListInv, OncePerQueue
<1>9. DropsOne'
  BY <1>2 DEF ListInv, DropsOne
<1> QED BY <1>7, <1>8, <1>9 DEF ListInv

LEMMA ListsSubmitted ==
  ASSUME TypeInv, ListInv, NEW job \in Seq(Lists), NoRepeats(job), DropsOne',
         Made' = Made,
         memtables_wait_for_dump'.data_queue = Append(memtables_wait_for_dump.data_queue, job),
         UNCHANGED <<memtables_can_insert, current_memtables, tmp, dumped, created, curr_writing>>,
         \A w \in Writers : NoRepeats(dump_seq'[w]),
         (UNION {Elements(dump_seq[w]) : w \in Writers})
           = (UNION {Elements(dump_seq'[w]) : w \in Writers}) \cup Elements(job)
  PROVE  ListInv'
<1> DEFINE q == memtables_wait_for_dump.data_queue
           r == memtables_wait_for_dump'.data_queue
<1>1. q \in Seq(Seq(Lists))
  BY DEF TypeInv, TypeOK, IsQueue
<1>2. /\ DOMAIN r = DOMAIN q \cup {Len(q) + 1} /\ Len(q) + 1 \notin DOMAIN q
      /\ \A j \in DOMAIN q : r[j] = q[j]
      /\ r[Len(q) + 1] = job
  BY <1>1, AppendProperties, LenProperties
<1>3. (UNION {Elements(r[j]) : j \in DOMAIN r})
        = (UNION {Elements(q[j]) : j \in DOMAIN q}) \cup Elements(job)
  <2> HIDE DEF q, r
  <2> QED BY <1>2
<1>4. OnTheWay' = OnTheWay
  BY <1>3 DEF OnTheWay
<1>5. \A j \in DOMAIN r : NoRepeats(r[j])
  BY <1>2 DEF ListInv, OncePerQueue
<1> QED BY <1>4, <1>5, ListsUntouched DEF ListInv, OncePerQueue

LEMMA ListsSubmit ==
  ASSUME TypeInv, ListInv, NEW w \in Writers, Submit(w)
  PROVE  ListInv'
<1>1. /\ w \in Threads /\ w # Main /\ w # Creator /\ Main \in Threads /\ Creator \in Threads
      /\ pc \in [Threads -> Labels] /\ dump_seq \in [Writers -> Seq(Lists)]
  BY MemTablesAssumption DEF Threads, TypeInv, TypeOK
<1>2. /\ pc'[Main] = pc[Main] /\ pc'[Creator] = pc[Creator]
      /\ dump_seq' = [dump_seq EXCEPT ![w] = << >>]
      /\ PushJob(w, dump_seq[w])
      /\ UNCHANGED <<memtables_can_insert, current_memtables, tmp, dumped, created, curr_writing>>
  BY <1>1 DEF Submit, Goto, PushJob, nullptr
<1>3. memtables_wait_for_dump'.data_queue = Append(memtables_wait_for_dump.data_queue, dump_seq[w])
  BY <1>1, <1>2, PushJobLemma
<1>4. (UNION {Elements(dump_seq[v]) : v \in Writers})
        = (UNION {Elements(dump_seq'[v]) : v \in Writers}) \cup Elements(dump_seq[w])
  <2>1. Elements(dump_seq'[w]) = {}
    BY <1>1, <1>2, NoElements
  <2>2. \A v \in Writers \ {w} : Elements(dump_seq'[v]) = Elements(dump_seq[v])
    BY <1>1, <1>2
  <2> QED BY <2>1, <2>2
<1>5. /\ \A v \in Writers : NoRepeats(dump_seq'[v]) /\ NoRepeats(dump_seq[w])
      /\ dump_seq[w] \in Seq(Lists)
  BY <1>1, <1>2, NoElements DEF ListInv, OncePerQueue
<1>6. Made' = Made /\ DropsOne'
  BY <1>2 DEF Made, ListInv, DropsOne
<1> QED BY <1>2, <1>3, <1>4, <1>5, <1>6, ListsSubmitted

LEMMA ListsPushNull ==
  ASSUME TypeInv, ListInv, PushNull
  PROVE  ListInv'
<1>1. /\ Main # Creator /\ Main \in Threads /\ Creator \in Threads
      /\ pc \in [Threads -> Labels]
  BY DEF Threads, TypeInv, TypeOK, Main, Creator
<1>2. /\ pc'[Main] = "join dumper" /\ pc'[Creator] = pc[Creator]
      /\ PushJob(Main, << >>)
      /\ UNCHANGED <<memtables_can_insert, current_memtables, tmp, dumped, created, curr_writing,
                     dump_seq>>
  BY <1>1 DEF PushNull, Goto, PushJob, nullptr
<1>3. << >> \in Seq(Lists) /\ Elements(<< >>) = {} /\ NoRepeats(<< >>)
  BY EmptySeq, NoElements
<1>4. memtables_wait_for_dump'.data_queue = Append(memtables_wait_for_dump.data_queue, << >>)
  BY <1>1, <1>2, <1>3, PushJobLemma
<1>5. (UNION {Elements(dump_seq[v]) : v \in Writers})
        = (UNION {Elements(dump_seq'[v]) : v \in Writers}) \cup Elements(<< >>)
  BY <1>2, <1>3
<1>6. \A v \in Writers : NoRepeats(dump_seq'[v])
  BY <1>2 DEF ListInv, OncePerQueue
<1>7. Made' = Made /\ DropsOne'
  BY <1>2 DEF Made, DropsOne
<1> QED BY <1>2, <1>3, <1>4, <1>5, <1>6, <1>7, ListsSubmitted

LEMMA ListsTakeJob ==
  ASSUME TypeInv, DumpInv, ListInv, TakeJob
  PROVE  ListInv'
<1> DEFINE q == memtables_wait_for_dump.data_queue
           r == memtables_wait_for_dump'.data_queue
<1>1. /\ Dumper # Creator /\ Main # Dumper /\ Dumper \in Threads /\ Creator \in Threads
      /\ Main \in Threads /\ pc \in [Threads -> Labels] /\ q \in Seq(Seq(Lists))
      /\ IsQueue(memtables_wait_for_dump, Seq(Lists), WaitForDumpCapacity)
  BY DEF Threads, TypeInv, TypeOK, Main, Creator, Dumper, IsQueue
<1>2. /\ pc[Dumper] = "take" /\ pc'[Creator] = pc[Creator] /\ pc'[Main] = pc[Main]
      /\ q # << >> /\ curr_writing' = Head(q)
      /\ memtables_wait_for_dump' \in Popped(memtables_wait_for_dump)
      /\ UNCHANGED <<memtables_can_insert, current_memtables, tmp, dumped, created, dump_seq>>
  BY <1>1 DEF TakeJob, Goto, IsEmpty, Front
<1>3. r = Tail(q)
  BY <1>1, <1>2 DEF Popped, IsQueue
<1>4. curr_writing = << >>
  BY <1>2 DEF DumpInv, TakenLists, nullptr
<1>5. /\ Len(q) \in Nat \ {0} /\ DOMAIN q = 1 .. Len(q) /\ DOMAIN r = 1 .. Len(q) - 1
      /\ \A j \in 1 .. Len(q) - 1 : r[j] = q[j + 1]
      /\ curr_writing' = q[1]
  BY <1>1, <1>2, <1>3, HeadTailProperties, LenProperties, EmptySeq
<1>6. (UNION {Elements(r[j]) : j \in DOMAIN r}) \cup Elements(q[1])
        = (UNION {Elements(q[j]) : j \in DOMAIN q})
  <2> HIDE DEF q, r
  <2>1. \A j \in DOMAIN r : j + 1 \in DOMAIN q /\ r[j] = q[j + 1]
    BY <1>5
  <2>2. \A j \in DOMAIN q : j = 1 \/ (j - 1 \in DOMAIN r /\ r[j - 1] = q[j])
    BY <1>5
  <2>3. 1 \in DOMAIN q
    BY <1>5
  <2> QED BY <2>1, <2>2, <2>3
<1>7. OnTheWay' = OnTheWay
  BY <1>2, <1>4, <1>5, <1>6, NoElements DEF OnTheWay
<1>8. /\ \A j \in DOMAIN r : NoRepeats(r[j])
      /\ NoRepeats(curr_writing')
  BY <1>5 DEF ListInv, OncePerQueue
<1>9. Made' = Made /\ DropsOne'
  BY <1>2 DEF Made, DropsOne, ListInv
<1> QED BY <1>2, <1>7, <1>8, <1>9, ListsUntouched DEF ListInv, OncePerQueue

LEMMA ListsDump ==
  ASSUME TypeInv, DumpInv, ListInv, Dump
  PROVE  ListInv'
<1>1. /\ Dumper # Creator /\ Main # Dumper /\ Dumper \in Threads /\ Creator \in Threads
      /\ Main \in Threads /\ pc \in [Threads -> Labels]
  BY DEF Threads, TypeInv, TypeOK, Main, Creator, Dumper
<1>2. /\ pc[Dumper] = "dump" /\ pc'[Creator] = pc[Creator] /\ pc'[Main] = pc[Main]
      /\ dumped' = dumped \cup Elements(curr_writing) /\ curr_writing' = << >>
      /\ UNCHANGED <<memtables_can_insert, memtables_wait_for_dump, current_memtables, tmp,
                     created, dump_seq>>
  BY <1>1 DEF Dump, Goto, queues, Elements, nullptr
<1>3. /\ \A w \in Writers : dump_seq[w] = << >>
      /\ \A j \in DOMAIN memtables_wait_for_dump.data_queue :
           memtables_wait_for_dump.data_queue[j] = << >>
  <2>1. curr_writing # nullptr
    BY <1>2 DEF DumpInv, TakenLists
  <2>2. Jobs = {} /\ \A w \in Writers : ~ Submitting(w)
    BY <2>1 DEF DumpInv, OneDump
  <2>3. \A w \in Writers : dump_seq[w] = nullptr
    BY <2>2 DEF DumpInv, TakenLists, Submitting
  <2> QED BY <2>2, <2>3 DEF Jobs, nullptr
<1>4. OnTheWay = Elements(curr_writing) /\ OnTheWay' = {}
  BY <1>2, <1>3, NoElements DEF OnTheWay
<1>5. /\ Current' = Current /\ Waiting' = Waiting /\ Dropped' = Dropped /\ Made' = Made
      /\ Lists' = Lists /\ dumped' = dumped \cup OnTheWay
  BY <1>2, <1>4 DEF Current, Waiting, Dropped, Made, Lists
<1>6. OneStage'
  BY <1>4, <1>5, StageMoves DEF ListInv, OneStage
<1>7. OncePerQueue' /\ DropsOne'
  BY <1>2, NoElements DEF ListInv, OncePerQueue, DropsOne
<1> QED BY <1>6, <1>7 DEF ListInv

\* The steps that change neither a list nor who has made one.
LEMMA ListsQuiet ==
  ASSUME TypeInv, ListInv,
         \/ StartWorking \/ BeginStop \/ Join \/ TestWorking(Dumper)
         \/ \E w \in Writers : SwitchLog(w)
         \/ SpuriousWakeup \/ SleepOnJobs(Dumper) \/ (\E t \in Threads : SleepOnLists(t))
         \/ UNCHANGED vars,
         StartedAndJoined
  PROVE  ListInv'
<1>1. /\ Dumper # Creator /\ Main # Dumper /\ Main # Creator
      /\ Dumper \in Threads /\ Creator \in Threads
      /\ Main \in Threads /\ pc \in [Threads -> Labels]
      /\ \A w \in Writers : w \notin {Main, Creator, Dumper} /\ w \in Threads
  BY MemTablesAssumption DEF Threads, TypeInv, TypeOK, Main, Creator, Dumper
<1>2. /\ UNCHANGED <<current_memtables, tmp, dumped, created, dump_seq, curr_writing>>
      /\ memtables_can_insert'.data_queue = memtables_can_insert.data_queue
      /\ memtables_wait_for_dump'.data_queue = memtables_wait_for_dump.data_queue
      /\ (pc'[Creator] = "push" <=> pc[Creator] = "push")
      /\ (pc'[Main] \in {"start", "fill", "open", "drain"}
            => pc[Main] \in {"start", "fill", "open", "drain"})
  <2>1. CASE \/ SpuriousWakeup \/ SleepOnJobs(Dumper) \/ (\E t \in Threads : SleepOnLists(t))
    BY <2>1, SleepTypes
  <2>2. CASE StartWorking \/ BeginStop \/ Join
    BY <1>1, <2>2 DEF StartWorking, BeginStop, Join, Goto, queues, StartedAndJoined
  <2>3. CASE TestWorking(Dumper)
    BY <1>1, <2>3 DEF TestWorking, Goto, queues
  <2>4. CASE \E w \in Writers : SwitchLog(w)
    BY <1>1, <2>4 DEF SwitchLog, Goto, queues
  <2>5. CASE UNCHANGED vars
    BY <2>5 DEF vars, queues
  <2> QED BY <2>1, <2>2, <2>3, <2>4, <2>5
<1>3. Made' = Made /\ OnTheWay' = OnTheWay /\ DropsOne'
  BY <1>2 DEF Made, OnTheWay, DropsOne, ListInv
<1> QED BY <1>2, <1>3, ListsUntouched DEF ListInv, OncePerQueue

LEMMA ListStep == TypeInv /\ StartedAndJoined /\ DumpInv /\ ListInv /\ [Next]_vars => ListInv'
<1> SUFFICES ASSUME TypeInv, StartedAndJoined, DumpInv, ListInv, [Next]_vars PROVE ListInv'
  OBVIOUS
<1>1. CASE MainStep \/ BeginStop
  <2>1. Main \in Threads
    BY DEF Threads
  <2> QED BY <1>1, <2>1, ListsFill, ListsDrain, ListsPushNull, ListsQuiet DEF MainStep
<1>2. CASE CreatorStep
  <2>1. Creator \in Threads
    BY DEF Threads
  <2> QED BY <1>2, <2>1, ListsCreator, ListsQuiet DEF CreatorStep
<1>3. CASE DumperStep
  BY <1>3, ListsTakeJob, ListsDump, ListsQuiet DEF DumperStep
<1>4. CASE \E w \in Writers : WriterStep(w) \/ SwitchLog(w)
  <2>1. Writers \subseteq Threads
    BY DEF Threads
  <2> QED BY <1>4, <2>1, ListsTaken, ListsRefill, ListsSubmit, ListsQuiet DEF WriterStep
<1>5. CASE SpuriousWakeup \/ UNCHANGED vars
  BY <1>5, ListsQuiet
<1> QED BY <1>1, <1>2, <1>3, <1>4, <1>5 DEF Next

LEMMA InitListInv == Init => ListInv
<1> SUFFICES ASSUME Init PROVE ListInv
  OBVIOUS
<1>1. /\ pc[Creator] = "off" /\ created = 0 /\ tmp = << >> /\ current_memtables = << >>
      /\ memtables_can_insert.data_queue = << >> /\ memtables_wait_for_dump.data_queue = << >>
      /\ curr_writing = << >> /\ dumped = {}
      /\ \A w \in Writers : dump_seq[w] = << >>
  BY MemTablesAssumption DEF Init, Threads, Main, Creator, Dumper, EmptyQueue, nullptr
<1>2. Lists = {} /\ Made = {} /\ Waiting = {} /\ Current = {} /\ Dropped = {} /\ OnTheWay = {}
  BY <1>1, NoElements DEF Lists, Made, Waiting, Current, Dropped, OnTheWay
<1>3. OneStage
  BY <1>1, <1>2 DEF OneStage, Stages
<1>4. OncePerQueue /\ DropsOne
  BY <1>1, NoElements DEF OncePerQueue, DropsOne
<1> QED BY <1>3, <1>4 DEF ListInv

\* Where a list is in a sequence that holds it at most once.
LEMMA InLemma ==
  ASSUME NEW s, NEW l
  PROVE  /\ l \notin Elements(s) => In(l, s) = {}
         /\ l \in Elements(s) /\ NoRepeats(s) => \E i : In(l, s) = {i}
<1>1. l \notin Elements(s) => In(l, s) = {}
  BY DEF Elements, In
<1>2. ASSUME l \in Elements(s), NoRepeats(s)
      PROVE  \E i : In(l, s) = {i}
  <2>1. PICK i \in DOMAIN s : s[i] = l
    BY <1>2 DEF Elements
  <2>2. In(l, s) = {i}
    BY <1>2, <2>1 DEF In, NoRepeats
  <2> QED BY <2>2
<1> QED BY <1>1, <1>2

\* The places of a list on its way to the dumper.
OnTheWayPlaces(l) ==
  (UNION {{w} \X In(l, dump_seq[w]) : w \in Writers})
  \cup (UNION {{<<"job", j>>} \X In(l, memtables_wait_for_dump.data_queue[j]) :
                 j \in DOMAIN memtables_wait_for_dump.data_queue})
  \cup ({"dumper"} \X In(l, curr_writing))

LEMMA OneWay ==
  ASSUME TypeInv, DumpInv, ListInv, NEW l
  PROVE  /\ l \notin OnTheWay => OnTheWayPlaces(l) = {}
         /\ l \in OnTheWay => \E p : OnTheWayPlaces(l) = {p}
<1> DEFINE q == memtables_wait_for_dump.data_queue
           W == UNION {{w} \X In(l, dump_seq[w]) : w \in Writers}
           J == UNION {{<<"job", j>>} \X In(l, q[j]) : j \in DOMAIN q}
           D == {"dumper"} \X In(l, curr_writing)
<1>1. /\ \A w \in Writers : NoRepeats(dump_seq[w])
      /\ \A j \in DOMAIN q : NoRepeats(q[j])
      /\ NoRepeats(curr_writing)
  BY DEF ListInv, OncePerQueue
<1>2. /\ \A w \in Writers : l \notin Elements(dump_seq[w]) => {w} \X In(l, dump_seq[w]) = {}
      /\ \A j \in DOMAIN q : l \notin Elements(q[j]) => {<<"job", j>>} \X In(l, q[j]) = {}
      /\ l \notin Elements(curr_writing) => D = {}
  BY InLemma
<1>3. ASSUME l \notin OnTheWay PROVE OnTheWayPlaces(l) = {}
  <2>1. W = {} /\ J = {} /\ D = {}
    BY <1>2, <1>3 DEF OnTheWay
  <2> QED BY <2>1 DEF OnTheWayPlaces
<1>4. ASSUME NEW w \in Writers, l \in Elements(dump_seq[w]) PROVE \E p : OnTheWayPlaces(l) = {p}
  <2>1. dump_seq[w] # nullptr
    BY <1>4, NoElements DEF nullptr
  <2>2. Submitting(w)
    BY <2>1 DEF DumpInv, TakenLists, Submitting
  <2>3. /\ Jobs = {} /\ curr_writing = nullptr
        /\ \A v \in Writers \ {w} : dump_seq[v] = nullptr
    BY <2>2 DEF DumpInv, OneDump, TakenLists, Submitting
  <2>4. J = {} /\ D = {} /\ \A v \in Writers \ {w} : {v} \X In(l, dump_seq[v]) = {}
    BY <1>2, <2>3, NoElements DEF Jobs, nullptr
  <2>5. PICK i : In(l, dump_seq[w]) = {i}
    BY <1>1, <1>4, InLemma
  <2>6. W = {<<w, i>>}
    BY <2>4, <2>5
  <2> QED BY <2>4, <2>6 DEF OnTheWayPlaces
<1>5. ASSUME NEW k \in DOMAIN q, l \in Elements(q[k]) PROVE \E p : OnTheWayPlaces(l) = {p}
  <2>1. k \in Jobs
    BY <1>5, NoElements DEF Jobs, nullptr
  <2>2. /\ curr_writing = nullptr /\ \A j \in DOMAIN q \ {k} : q[j] = nullptr
        /\ \A v \in Writers : dump_seq[v] = nullptr
    BY <2>1 DEF DumpInv, OneDump, TakenLists, Submitting, Jobs
  <2>3. W = {} /\ D = {} /\ \A j \in DOMAIN q \ {k} : {<<"job", j>>} \X In(l, q[j]) = {}
    BY <1>2, <2>2, NoElements DEF nullptr
  <2>4. PICK i : In(l, q[k]) = {i}
    BY <1>1, <1>5, InLemma
  <2>5. J = {<<<<"job", k>>, i>>}
    BY <2>3, <2>4
  <2> QED BY <2>3, <2>5 DEF OnTheWayPlaces
<1>6. ASSUME l \in Elements(curr_writing) PROVE \E p : OnTheWayPlaces(l) = {p}
  <2>1. curr_writing # nullptr
    BY <1>6, NoElements DEF nullptr
  <2>2. Jobs = {} /\ \A v \in Writers : dump_seq[v] = nullptr
    BY <2>1 DEF DumpInv, OneDump, TakenLists, Submitting
  <2>3. W = {} /\ J = {}
    BY <1>2, <2>2, NoElements DEF nullptr, Jobs
  <2>4. PICK i : In(l, curr_writing) = {i}
    BY <1>1, <1>6, InLemma
  <2>5. D = {<<"dumper", i>>}
    BY <2>4
  <2> QED BY <2>3, <2>5 DEF OnTheWayPlaces
<1> QED BY <1>3, <1>4, <1>5, <1>6 DEF OnTheWay

\* No list is lost on its way from the creator to the file, dumped twice, or
\* written to once it was submitted.
THEOREM ListsAreAccountedFor == Spec => []ListAccounting
<1>1. TypeInv /\ DumpInv /\ ListInv => ListAccounting
  <2> SUFFICES ASSUME TypeInv, DumpInv, ListInv, NEW l \in Lists
               PROVE  Cardinality(Places(l)) = 1
    BY DEF ListAccounting
  <2> DEFINE A == {"creator"} \X {0 : c \in {c \in {created} : c = l /\ pc[Creator] = "push"}}
             B == {"can_insert"} \X In(l, memtables_can_insert.data_queue)
             C == {"current"} \X In(l, current_memtables)
             E == {"tmp"} \X In(l, tmp)
             F == {"dumped"} \X (IF l \in dumped THEN {0} ELSE {})
  <2>1. Places(l) = A \cup B \cup C \cup OnTheWayPlaces(l) \cup E \cup F
    BY DEF Places, OnTheWayPlaces
  <2>2. (l \notin Made => A = {}) /\ (l \in Made => \E p : A = {p})
    <3>1. l \in Made => A = {<<"creator", 0>>}
      BY DEF Made
    <3>2. l \notin Made => A = {}
      BY DEF Made
    <3> QED BY <3>1, <3>2
  <2>3. (l \notin Waiting => B = {}) /\ (l \in Waiting => \E p : B = {p})
    <3>1. NoRepeats(memtables_can_insert.data_queue)
      BY DEF ListInv, OncePerQueue
    <3>2. l \notin Waiting => B = {}
      BY InLemma DEF Waiting
    <3>3. ASSUME l \in Waiting PROVE \E p : B = {p}
      <4>1. PICK i : In(l, memtables_can_insert.data_queue) = {i}
        BY <3>1, <3>3, InLemma DEF Waiting
      <4>2. B = {<<"can_insert", i>>}
        BY <4>1
      <4> QED BY <4>2
    <3> QED BY <3>2, <3>3
  <2>4. (l \notin Current => C = {}) /\ (l \in Current => \E p : C = {p})
    <3>1. NoRepeats(current_memtables)
      BY DEF ListInv, OncePerQueue
    <3>2. l \notin Current => C = {}
      BY InLemma DEF Current
    <3>3. ASSUME l \in Current PROVE \E p : C = {p}
      <4>1. PICK i : In(l, current_memtables) = {i}
        BY <3>1, <3>3, InLemma DEF Current
      <4>2. C = {<<"current", i>>}
        BY <4>1
      <4> QED BY <4>2
    <3> QED BY <3>2, <3>3
  <2>5. (l \notin Dropped => E = {}) /\ (l \in Dropped => \E p : E = {p})
    <3>1. NoRepeats(tmp)
      BY DEF ListInv, OncePerQueue
    <3>2. l \notin Dropped => E = {}
      BY InLemma DEF Dropped
    <3>3. ASSUME l \in Dropped PROVE \E p : E = {p}
      <4>1. PICK i : In(l, tmp) = {i}
        BY <3>1, <3>3, InLemma DEF Dropped
      <4>2. E = {<<"tmp", i>>}
        BY <4>1
      <4> QED BY <4>2
    <3> QED BY <3>2, <3>3
  <2>6. (l \notin dumped => F = {}) /\ (l \in dumped => \E p : F = {p})
    <3>1. l \in dumped => F = {<<"dumped", 0>>}
      OBVIOUS
    <3>2. l \notin dumped => F = {}
      OBVIOUS
    <3> QED BY <3>1, <3>2
  <2>7. (l \notin OnTheWay => OnTheWayPlaces(l) = {})
        /\ (l \in OnTheWay => \E p : OnTheWayPlaces(l) = {p})
    BY OneWay
  <2>8. /\ l \in Made \cup Waiting \cup Current \cup OnTheWay \cup Dropped \cup dumped
        /\ l \in Made => l \notin Waiting \cup Current \cup OnTheWay \cup Dropped \cup dumped
        /\ l \in Waiting => l \notin Current \cup OnTheWay \cup Dropped \cup dumped
        /\ l \in Current => l \notin OnTheWay \cup Dropped \cup dumped
        /\ l \in OnTheWay => l \notin Dropped \cup dumped
        /\ l \in Dropped => l \notin dumped
    BY DEF ListInv, OneStage, Stages
  <2> HIDE DEF A, B, C, E, F
  <2>9. \E p : Places(l) = {p}
    BY <2>1, <2>2, <2>3, <2>4, <2>5, <2>6, <2>7, <2>8
  <2> QED BY <2>9, FS_Singleton
<1> QED BY <1>1, InitTypeInv, InitStartedAndJoined, InitDumpInv, InitListInv, TypeInvStep,
           JoinStep, DumpStep, ListStep, PTL DEF Spec
=============================================================================
