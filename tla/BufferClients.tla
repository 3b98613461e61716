---------------------------- MODULE BufferClients ----------------------------
(***************************************************************************)
(* The threads that share the record cache, down to its condition          *)
(* variables: writers (DBSystem::write), the thread that replays a log     *)
(* (DiskManager::init_log_file_and_fetch_data), and the dumper             *)
(* (MemTables::dump_all).  Each action is one critical section of Buffer.  *)
(* A thread that waits on a condition variable is in its wait set; a       *)
(* notified thread has left it and runs the loop's test again.             *)
(*                                                                         *)
(* The memtables, which carry a written slot from its writer to the        *)
(* dumper, are abstracted to the set of published slots.  DBSystem::read   *)
(* is not a client here: it may end another access than it began (see      *)
(* CacheReaders).                                                          *)
(***************************************************************************)
EXTENDS Buffer

CONSTANTS
  Writers,   \* threads that call DBSystem::write
  Loader,    \* the thread that runs DBSystem::init, before any write
  Dumper     \* the thread of MemTables::buffers_dumper

Fillers == Writers \cup {Loader}
Threads == Fillers \cup {Dumper}

ASSUME ThreadsAssumption ==
  /\ Loader \notin Writers
  /\ Dumper \notin Fillers

VARIABLES
  idx_waiter,   \* threads asleep in idx_waiter.wait
  slot_waiter,  \* threads asleep in slot_waiter.wait
  pc,           \* where each thread is
  idx,          \* the slot index each thread works on
  published     \* slots whose index the memtables carry to the dumper

vars == <<bufferVars, idx_waiter, slot_waiter, pc, idx, published>>

NoSlot == -1

Goto(t, label) == pc' = [pc EXCEPT ![t] = label]

\* notify_one: some sleeper wakes, if there is one.
NotifyOne(sleepers, sleepersNext) ==
  \/ sleepers = {} /\ sleepersNext = {}
  \/ \E t \in sleepers : sleepersNext = sleepers \ {t}

Init ==
  /\ BufferInit
  /\ idx_waiter = {}
  /\ slot_waiter = {}
  /\ \E start \in {"request", "done"} :   \* is there a log to replay?
       pc = [t \in Threads |-> IF t = Loader THEN start ELSE "idle"]
  /\ idx = [t \in Threads |-> NoSlot]
  /\ published = {}

-----------------------------------------------------------------------------
\* DBSystem::write reaches the cache; init has returned before the first write.
StartWrite(w) ==
  /\ pc[w] = "idle"
  /\ pc[Loader] = "done"
  /\ Goto(w, "request")
  /\ UNCHANGED <<bufferVars, idx_waiter, slot_waiter, idx, published>>

\* request_record_buff finds no free slot and waits.
SleepForSlot(t) ==
  /\ pc[t] = "request" /\ t \notin idx_waiter
  /\ idxes_empty = << >>
  /\ idx_waiter' = idx_waiter \cup {t}
  /\ UNCHANGED <<bufferVars, slot_waiter, pc, idx, published>>

\* request_record_buff hands out a slot, and notifies.
Request(t) ==
  /\ pc[t] = "request" /\ t \notin idx_waiter
  /\ \E s \in Slots :
       /\ RequestSlot(s)
       /\ idx' = [idx EXCEPT ![t] = s]
  /\ NotifyOne(idx_waiter, idx_waiter')
  /\ Goto(t, "access")
  /\ UNCHANGED <<accessing, slot_waiter, published>>

\* wait_for_access finds the slot in use and waits.
SleepForAccess(t) ==
  /\ pc[t] = "access" /\ t \notin slot_waiter
  /\ ~ Accessible(idx[t])
  /\ slot_waiter' = slot_waiter \cup {t}
  /\ UNCHANGED <<bufferVars, idx_waiter, pc, idx, published>>

\* wait_for_access enters the slot.
Access(t) ==
  /\ pc[t] = "access" /\ t \notin slot_waiter
  /\ Accessible(idx[t])
  /\ LockSlot(idx[t])
  /\ Goto(t, "inside")
  /\ UNCHANGED <<idxes_empty, idxes_wrote, idx_waiter, slot_waiter, idx, published>>

\* Mutant: nobody is notified.
EndAccessWithoutNotify(t, next) ==
  /\ UnlockSlot(idx[t])
  /\ Goto(t, next)
  /\ UNCHANGED <<slot_waiter, idxes_empty, idxes_wrote, idx_waiter>>

\* end_access: one condition variable serves every slot, so the sleeper that
\* is notified may be waiting for another one.
EndAccess(t, next) ==
  /\ UnlockSlot(idx[t])
  /\ NotifyOne(slot_waiter, slot_waiter')
  /\ Goto(t, next)
  /\ UNCHANGED <<idxes_empty, idxes_wrote, idx_waiter>>

\* Mutant: nobody is notified.
ReleaseWithoutNotify(t, next) ==
  /\ ReleaseSlot(idx[t])
  /\ Goto(t, next)
  /\ UNCHANGED <<idx_waiter, accessing, slot_waiter>>

\* release_buff
Release(t, next) ==
  /\ ReleaseSlot(idx[t])
  /\ NotifyOne(idx_waiter, idx_waiter')
  /\ Goto(t, next)
  /\ UNCHANGED <<accessing, slot_waiter>>

-----------------------------------------------------------------------------
\* A writer copied its record in, or the loader read a full one from the log.
EndFill(t) ==
  /\ t \in Fillers /\ pc[t] = "inside"
  /\ EndAccess(t, "publish")
  /\ UNCHANGED <<idx, published>>

\* The index enters a memtable.  The loader then asks for the next slot.
Publish(t) ==
  /\ t \in Fillers /\ pc[t] = "publish"
  /\ published' = published \cup {idx[t]}
  /\ idx' = [idx EXCEPT ![t] = NoSlot]
  /\ Goto(t, IF t = Loader THEN "request" ELSE "idle")
  /\ UNCHANGED <<bufferVars, idx_waiter, slot_waiter>>

\* The loader reached the end of the log: it leaves its last slot and gives it
\* back.
EndLoad ==
  /\ pc[Loader] = "inside"
  /\ EndAccess(Loader, "giveback")
  /\ UNCHANGED <<idx, published>>

GiveBack ==
  /\ pc[Loader] = "giveback"
  /\ Release(Loader, "done")
  /\ idx' = [idx EXCEPT ![Loader] = NoSlot]
  /\ UNCHANGED published

\* dump_all, for one record: wait for access, append it to the file, release
\* the slot, and only then end the access.
StartDump(s) ==
  /\ pc[Dumper] = "idle"
  /\ s \in published
  /\ published' = published \ {s}
  /\ idx' = [idx EXCEPT ![Dumper] = s]
  /\ Goto(Dumper, "access")
  /\ UNCHANGED <<bufferVars, idx_waiter, slot_waiter>>

DumpRelease ==
  /\ pc[Dumper] = "inside"
  /\ Release(Dumper, "ending")
  /\ UNCHANGED <<idx, published>>

DumpEnd ==
  /\ pc[Dumper] = "ending"
  /\ EndAccess(Dumper, "idle")
  /\ idx' = [idx EXCEPT ![Dumper] = NoSlot]
  /\ UNCHANGED published

-----------------------------------------------------------------------------
\* A condition variable may wake a thread nobody notified.
SpuriousWakeup(t) ==
  /\ \/ t \in idx_waiter /\ idx_waiter' = idx_waiter \ {t} /\ UNCHANGED slot_waiter
     \/ t \in slot_waiter /\ slot_waiter' = slot_waiter \ {t} /\ UNCHANGED idx_waiter
  /\ UNCHANGED <<bufferVars, pc, idx, published>>

Step(t) ==
  \/ SleepForSlot(t) \/ Request(t)
  \/ SleepForAccess(t) \/ Access(t)
  \/ EndFill(t) \/ Publish(t)

LoaderStep == EndLoad \/ GiveBack
DumperStep == DumpRelease \/ DumpEnd

Next ==
  \/ \E w \in Writers : StartWrite(w)
  \/ \E t \in Threads : Step(t) \/ SpuriousWakeup(t)
  \/ LoaderStep
  \/ \E s \in Slots : StartDump(s)
  \/ DumperStep

\* A thread that can run does.  Nobody has to start a write or a dump, and
\* nobody counts on a spurious wakeup.
Fairness ==
  /\ \A t \in Threads : WF_vars(Step(t))
  /\ WF_vars(DumperStep)

SafeSpec == Init /\ [][Next]_vars
Spec == SafeSpec /\ Fairness

-----------------------------------------------------------------------------
Labels == {"idle", "request", "access", "inside", "publish", "giveback", "ending", "done"}

TypeOK ==
  /\ BufferTypeOK
  /\ idx_waiter \in SUBSET Threads
  /\ slot_waiter \in SUBSET Threads
  /\ pc \in [Threads -> Labels]
  /\ idx \in [Threads -> Slots \cup {NoSlot}]
  /\ published \in SUBSET Slots

InAccess(t) == pc[t] \in {"inside", "ending"}

\* The thread owns its slot: it was handed it and has neither passed it on nor
\* released it.
Owns(t) == pc[t] \in {"access", "inside", "publish", "giveback"}

\* A slot that was handed out is published and waits for the dumper, or has
\* exactly one owner.
PublishedOrOwned ==
  /\ published \subseteq idxes_wrote
  /\ \A s \in idxes_wrote \ published : \E t \in Threads : Owns(t) /\ idx[t] = s
  /\ \A t \in Threads : Owns(t) => idx[t] \in idxes_wrote \ published
  /\ \A t, u \in Threads : Owns(t) /\ Owns(u) /\ idx[t] = idx[u] => t = u

\* Every slot is free exactly once, or published, or owned by one thread: none
\* is lost and none is handed out twice, whatever the order in which threads
\* run request_record_buff and release_buff.
SlotAccounting == FreeOnce /\ FreeOrHandedOut /\ PublishedOrOwned

\* The flag of a slot is set exactly while one thread is between
\* wait_for_access and end_access of that slot, also when the dumper has
\* already released it and a writer has been handed it again.
ExclusiveAccess ==
  /\ \A s \in Slots : accessing[s] = 1 => \E t \in Threads : InAccess(t) /\ idx[t] = s
  /\ \A t \in Threads : InAccess(t) => idx[t] \in Slots /\ accessing[idx[t]] = 1
  /\ \A t, u \in Threads : InAccess(t) /\ InAccess(u) /\ idx[t] = idx[u] => t = u

\* Why one condition variable and notify_one are enough for all slots: a
\* thread sleeps in wait_for_access only while the dumper is between releasing
\* and ending that very slot, so there is at most one sleeper, and the notify
\* of that end_access reaches it.
OneSleeperPerDump ==
  \A t \in slot_waiter :
    /\ pc[t] = "access"
    /\ pc[Dumper] = "ending"
    /\ idx[t] = idx[Dumper]

\* A free slot never sits idle while every thread that asked for one sleeps:
\* somebody awake is about to take it and will pass the notification on.
NoLostSlotWakeup ==
  idx_waiter # {} /\ idxes_empty # << >> =>
    \E t \in Threads \ idx_waiter : pc[t] = "request"

\* A thread that waits for a slot's flag gets in.
AccessServed == \A t \in Threads : pc[t] = "access" ~> pc[t] = "inside"
=============================================================================
