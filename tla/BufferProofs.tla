---------------------------- MODULE BufferProofs ----------------------------
(***************************************************************************)
(* What BufferClients promises, for every number of slots and of threads.  *)
(***************************************************************************)
EXTENDS BufferClients, BufferLemmas

-----------------------------------------------------------------------------
(* The inductive invariant *)

\* Which labels each kind of thread can be at.
Roles ==
  /\ \A w \in Writers : pc[w] \in {"idle", "request", "access", "inside", "publish"}
  /\ pc[Loader] \in {"request", "access", "inside", "publish", "giveback", "done"}
  /\ pc[Dumper] \in {"idle", "access", "inside", "ending"}

\* Whoever sleeps in request_record_buff is at that call.
SleepersRequest == \A t \in idx_waiter : pc[t] = "request"

IInv ==
  /\ TypeOK /\ Roles /\ SleepersRequest
  /\ SlotAccounting /\ ExclusiveAccess /\ OneSleeperPerDump /\ NoLostSlotWakeup

\* A notify never adds a sleeper, and wakes one if there is any.
LEMMA NotifyLemma ==
  ASSUME NEW old, NEW new, NotifyOne(old, new)
  PROVE  /\ new \subseteq old
         /\ old # {} => \E t \in old : new = old \ {t}
BY DEF NotifyOne

LEMMA ThreadKinds ==
  /\ Threads = Writers \cup {Loader, Dumper}
  /\ Loader \notin Writers /\ Dumper \notin Writers /\ Loader # Dumper
BY ThreadsAssumption DEF Threads, Fillers

LEMMA InitIInv == Init => IInv
<1> SUFFICES ASSUME Init PROVE IInv
  OBVIOUS
<1>1. /\ RECORD_BUFF_SIZE \in Nat
      /\ idxes_empty = [i \in 1 .. RECORD_BUFF_SIZE |-> i - 1]
      /\ idxes_empty \in Seq(Slots) /\ Len(idxes_empty) = RECORD_BUFF_SIZE
  BY BuffSizeAssumption DEF Init, BufferInit, Slots
<1>2. PICK start \in {"request", "done"} :
        pc = [t \in Threads |-> IF t = Loader THEN start ELSE "idle"]
  BY DEF Init
<1>3. TypeOK
  BY <1>1, <1>2 DEF Init, BufferInit, TypeOK, BufferTypeOK, Labels
<1>4. FreeOnce /\ FreeOrHandedOut
  <2>1. FreeOnce
    BY <1>1 DEF FreeOnce
  <2>2. \A s \in Slots : s + 1 \in 1 .. Len(idxes_empty) /\ idxes_empty[s + 1] = s
    BY <1>1 DEF Slots
  <2> QED BY <2>1, <2>2 DEF FreeOrHandedOut, Contains, Init, BufferInit
<1>5. PublishedOrOwned /\ ExclusiveAccess /\ Roles
  BY <1>2, ThreadKinds DEF PublishedOrOwned, ExclusiveAccess, Owns, InAccess, Roles,
     Init, BufferInit
<1> QED BY <1>3, <1>4, <1>5
        DEF IInv, SlotAccounting, OneSleeperPerDump, NoLostSlotWakeup, SleepersRequest, Init

LEMMA TypeOKStep == IInv /\ [Next]_vars => TypeOK'
<1> SUFFICES ASSUME IInv, [Next]_vars PROVE TypeOK'
  OBVIOUS
<1> USE DEF TypeOK, BufferTypeOK, Labels, Goto
<1>0. TypeOK /\ FreeOnce /\ FreeOrHandedOut /\ Loader \in Threads /\ Dumper \in Threads
      /\ \A t \in Threads : pc[t] \in {"access", "inside", "publish", "giveback", "ending"}
                             => idx[t] \in Slots
  BY ThreadKinds DEF IInv, SlotAccounting, PublishedOrOwned, ExclusiveAccess, Owns, InAccess
<1>1. ASSUME NEW w \in Writers, StartWrite(w) PROVE TypeOK'
  BY <1>0, <1>1, ThreadKinds DEF StartWrite, bufferVars
<1>2. ASSUME NEW t \in Threads, SleepForSlot(t) PROVE TypeOK'
  BY <1>0, <1>2 DEF SleepForSlot, bufferVars
<1>3. ASSUME NEW t \in Threads, Request(t) PROVE TypeOK'
  <2>1. PICK s \in Slots : RequestSlot(s) /\ idx' = [idx EXCEPT ![t] = s]
    BY <1>3 DEF Request
  <2>2. idxes_empty' \in Seq(Slots) /\ idxes_wrote' \in SUBSET Slots
    BY <1>0, <2>1, RequestSlotLemma
  <2>3. idx_waiter' \subseteq idx_waiter
    BY <1>3, NotifyLemma DEF Request
  <2> QED BY <1>0, <1>3, <2>1, <2>2, <2>3 DEF Request
<1>4. ASSUME NEW t \in Threads, SleepForAccess(t) PROVE TypeOK'
  BY <1>0, <1>4 DEF SleepForAccess, bufferVars
<1>5. ASSUME NEW t \in Threads, Access(t) PROVE TypeOK'
  BY <1>0, <1>5 DEF Access, LockSlot
<1>6. ASSUME NEW t \in Threads, NEW next \in Labels, EndAccess(t, next)
      PROVE  /\ accessing' \in [Slots -> {0, 1}] /\ slot_waiter' \in SUBSET Threads
             /\ pc' \in [Threads -> Labels] /\ UNCHANGED <<idxes_empty, idxes_wrote, idx_waiter>>
  <2>1. slot_waiter' \subseteq slot_waiter
    BY <1>6, NotifyLemma DEF EndAccess
  <2> QED BY <1>0, <1>6, <2>1 DEF EndAccess, UnlockSlot
<1>7. ASSUME NEW t \in Threads, NEW next \in Labels, idx[t] \in Slots, Release(t, next)
      PROVE  /\ idxes_empty' \in Seq(Slots) /\ idxes_wrote' \in SUBSET Slots
             /\ idx_waiter' \in SUBSET Threads
             /\ pc' \in [Threads -> Labels] /\ UNCHANGED <<accessing, slot_waiter>>
  <2>1. idx_waiter' \subseteq idx_waiter
    BY <1>7, NotifyLemma DEF Release
  <2>2. idxes_empty' \in Seq(Slots) /\ idxes_wrote' \in SUBSET Slots
    BY <1>0, <1>7, ReleaseSlotLemma DEF Release
  <2> QED BY <1>0, <1>7, <2>1, <2>2 DEF Release
<1>8. ASSUME NEW t \in Threads, EndFill(t) PROVE TypeOK'
  BY <1>0, <1>6, <1>8 DEF EndFill
<1>9. ASSUME NEW t \in Threads, Publish(t) PROVE TypeOK'
  BY <1>0, <1>9 DEF Publish, bufferVars
<1>10. CASE EndLoad
  BY <1>0, <1>6, <1>10 DEF EndLoad
<1>11. CASE GiveBack
  BY <1>0, <1>7, <1>11 DEF GiveBack
<1>12. ASSUME NEW s \in Slots, StartDump(s) PROVE TypeOK'
  BY <1>0, <1>12 DEF StartDump, bufferVars
<1>13. CASE DumpRelease
  BY <1>0, <1>7, <1>13 DEF DumpRelease
<1>14. CASE DumpEnd
  BY <1>0, <1>6, <1>14 DEF DumpEnd
<1>15. ASSUME NEW t \in Threads, SpuriousWakeup(t) PROVE TypeOK'
  BY <1>0, <1>15 DEF SpuriousWakeup, bufferVars
<1>16. CASE UNCHANGED vars
  BY <1>0, <1>16 DEF vars, bufferVars
<1> QED
  BY <1>1, <1>2, <1>3, <1>4, <1>5, <1>8, <1>9, <1>10, <1>11, <1>12, <1>13, <1>14, <1>15, <1>16
  DEF Next, Step, LoaderStep, DumperStep

\* The only labels a step can leave and reach, by kind of thread.
LEMMA RolesStep == IInv /\ [Next]_vars => Roles' /\ SleepersRequest'
<1> SUFFICES ASSUME IInv, [Next]_vars PROVE Roles' /\ SleepersRequest'
  OBVIOUS
<1>0. /\ Roles /\ SleepersRequest /\ pc \in [Threads -> Labels]
      /\ idx_waiter \in SUBSET Threads
  BY DEF IInv, TypeOK
<1> USE ThreadKinds DEF Roles, SleepersRequest, Goto
<1>1. ASSUME NEW w \in Writers, StartWrite(w) PROVE Roles' /\ SleepersRequest'
  BY <1>0, <1>1 DEF StartWrite
<1>2. ASSUME NEW t \in Threads, SleepForSlot(t) PROVE Roles' /\ SleepersRequest'
  BY <1>0, <1>2 DEF SleepForSlot
<1>3. ASSUME NEW t \in Threads, Request(t) PROVE Roles' /\ SleepersRequest'
  BY <1>0, <1>3, NotifyLemma DEF Request
<1>4. ASSUME NEW t \in Threads, SleepForAccess(t) \/ Access(t)
      PROVE  Roles' /\ SleepersRequest'
  BY <1>0, <1>4 DEF SleepForAccess, Access
<1>5. ASSUME NEW t \in Threads, EndFill(t) \/ Publish(t)
      PROVE  Roles' /\ SleepersRequest'
  BY <1>0, <1>5 DEF EndFill, EndAccess, Publish, Fillers
<1>6. CASE LoaderStep
  BY <1>0, <1>6, NotifyLemma DEF LoaderStep, EndLoad, EndAccess, GiveBack, Release
<1>7. ASSUME NEW s \in Slots, StartDump(s) PROVE Roles' /\ SleepersRequest'
  BY <1>0, <1>7 DEF StartDump
<1>8. CASE DumperStep
  BY <1>0, <1>8, NotifyLemma DEF DumperStep, DumpRelease, Release, DumpEnd, EndAccess
<1>9. ASSUME NEW t \in Threads, SpuriousWakeup(t) PROVE Roles' /\ SleepersRequest'
  BY <1>0, <1>9 DEF SpuriousWakeup
<1>10. CASE UNCHANGED vars
  BY <1>0, <1>10 DEF vars
<1> QED
  BY <1>1, <1>2, <1>3, <1>4, <1>5, <1>6, <1>7, <1>8, <1>9, <1>10 DEF Next, Step

\* Owners change only where a slot is handed out, published, taken by the
\* dumper or released.
LEMMA SlotAccountingStep == IInv /\ [Next]_vars => SlotAccounting'
<1> SUFFICES ASSUME IInv, [Next]_vars PROVE SlotAccounting'
  OBVIOUS
<1>0. /\ Roles /\ pc \in [Threads -> Labels] /\ idx \in [Threads -> Slots \cup {NoSlot}]
      /\ idxes_empty \in Seq(Slots) /\ idxes_wrote \in SUBSET Slots
      /\ FreeOnce /\ FreeOrHandedOut /\ PublishedOrOwned
      /\ Loader \in Threads /\ Dumper \in Threads
  BY ThreadKinds DEF IInv, TypeOK, BufferTypeOK, SlotAccounting
<1>f. ASSUME UNCHANGED <<idxes_empty, idxes_wrote>>
      PROVE  FreeOnce' /\ FreeOrHandedOut'
  BY <1>0, <1>f DEF FreeOnce, FreeOrHandedOut
<1>o. ASSUME UNCHANGED <<idxes_wrote, published, idx>>, pc' \in [Threads -> Labels],
             \A t \in Threads : Owns(t)' <=> Owns(t)
      PROVE  PublishedOrOwned'
  BY <1>0, <1>o DEF PublishedOrOwned
<1> USE DEF Goto, Labels, Owns
<1>1. ASSUME NEW w \in Writers, StartWrite(w) PROVE SlotAccounting'
  BY <1>0, <1>1, <1>f, <1>o, ThreadKinds DEF StartWrite, bufferVars, SlotAccounting
<1>2. ASSUME NEW t \in Threads, SleepForSlot(t) \/ SleepForAccess(t) \/ SpuriousWakeup(t)
      PROVE  SlotAccounting'
  BY <1>0, <1>2, <1>f, <1>o
  DEF SleepForSlot, SleepForAccess, SpuriousWakeup, bufferVars, SlotAccounting
<1>3. ASSUME NEW t \in Threads, Request(t) PROVE SlotAccounting'
  <2>1. PICK s \in Slots : RequestSlot(s) /\ idx' = [idx EXCEPT ![t] = s]
    BY <1>3 DEF Request
  <2>2. s \notin idxes_wrote /\ idxes_wrote' = idxes_wrote \cup {s}
        /\ FreeOnce' /\ FreeOrHandedOut'
    BY <1>0, <2>1, RequestSlotLemma DEF RequestSlot
  <2>3. published' = published /\ pc[t] = "request" /\ pc' = [pc EXCEPT ![t] = "access"]
    BY <1>3 DEF Request
  <2>4. PublishedOrOwned'
    BY <1>0, <2>1, <2>2, <2>3 DEF PublishedOrOwned
  <2> QED BY <2>2, <2>4 DEF SlotAccounting
<1>4. ASSUME NEW t \in Threads, Access(t) PROVE SlotAccounting'
  BY <1>0, <1>4, <1>f, <1>o DEF Access, SlotAccounting
<1>5. ASSUME NEW t \in Threads, EndFill(t) PROVE SlotAccounting'
  BY <1>0, <1>5, <1>f, <1>o DEF EndFill, EndAccess, SlotAccounting
<1>6. ASSUME NEW t \in Threads, Publish(t) PROVE SlotAccounting'
  <2>1. /\ pc[t] = "publish" /\ idx[t] \in idxes_wrote \ published
        /\ published' = published \cup {idx[t]}
        /\ idxes_wrote' = idxes_wrote
        /\ idx' = [idx EXCEPT ![t] = NoSlot]
        /\ pc' = [pc EXCEPT ![t] = IF t = Loader THEN "request" ELSE "idle"]
    BY <1>0, <1>6 DEF Publish, PublishedOrOwned, bufferVars
  <2>2. PublishedOrOwned'
    BY <1>0, <2>1 DEF PublishedOrOwned
  <2> QED BY <1>6, <1>f, <2>2 DEF Publish, bufferVars, SlotAccounting
<1>7. CASE EndLoad
  BY <1>0, <1>7, <1>f, <1>o DEF EndLoad, EndAccess, SlotAccounting
<1>8. ASSUME NEW t \in Threads, NEW next \in {"done", "ending"}, Owns(t), Release(t, next),
             published' = published,
             \A u \in Threads : u # t => idx'[u] = idx[u]
      PROVE  SlotAccounting'
  <2>1. idx[t] \in idxes_wrote \ published /\ idx[t] \in Slots
    BY <1>0, <1>8 DEF PublishedOrOwned
  <2>2. idxes_wrote' = idxes_wrote \ {idx[t]} /\ FreeOnce' /\ FreeOrHandedOut'
    BY <1>0, <1>8, <2>1, ReleaseSlotLemma DEF Release
  <2>3. ~ Owns(t)' /\ \A u \in Threads : u # t => (Owns(u)' <=> Owns(u))
    BY <1>0, <1>8 DEF Release
  <2>4. PublishedOrOwned'
    BY <1>0, <1>8, <2>1, <2>2, <2>3 DEF PublishedOrOwned
  <2> QED BY <2>2, <2>4 DEF SlotAccounting
<1>9. CASE GiveBack
  BY <1>0, <1>8, <1>9 DEF GiveBack
<1>10. ASSUME NEW s \in Slots, StartDump(s) PROVE SlotAccounting'
  <2>1. /\ s \in published /\ published' = published \ {s} /\ pc[Dumper] = "idle"
        /\ idx' = [idx EXCEPT ![Dumper] = s] /\ pc' = [pc EXCEPT ![Dumper] = "access"]
        /\ idxes_wrote' = idxes_wrote
    BY <1>10 DEF StartDump, bufferVars
  <2>2. PublishedOrOwned'
    BY <1>0, <2>1 DEF PublishedOrOwned
  <2> QED BY <1>10, <1>f, <2>2 DEF StartDump, bufferVars, SlotAccounting
<1>11. CASE DumpRelease
  BY <1>0, <1>8, <1>11 DEF DumpRelease
<1>12. CASE DumpEnd
  <2>1. /\ pc[Dumper] = "ending" /\ pc' = [pc EXCEPT ![Dumper] = "idle"]
        /\ idx' = [idx EXCEPT ![Dumper] = NoSlot]
        /\ UNCHANGED <<idxes_wrote, published>>
    BY <1>12 DEF DumpEnd, EndAccess
  <2>2. PublishedOrOwned'
    BY <1>0, <2>1 DEF PublishedOrOwned
  <2> QED BY <1>12, <1>f, <2>2 DEF DumpEnd, EndAccess, SlotAccounting
<1>13. CASE UNCHANGED vars
  BY <1>0, <1>13, <1>f, <1>o DEF vars, bufferVars, SlotAccounting
<1> QED
  BY <1>1, <1>2, <1>3, <1>4, <1>5, <1>6, <1>7, <1>9, <1>10, <1>11, <1>12, <1>13
  DEF Next, Step, LoaderStep, DumperStep

\* A thread enters a slot only while its flag is clear, and clears only the
\* flag it set.
LEMMA ExclusiveAccessStep == IInv /\ [Next]_vars => ExclusiveAccess'
<1> SUFFICES ASSUME IInv, [Next]_vars PROVE ExclusiveAccess'
  OBVIOUS
<1>0. /\ Roles /\ pc \in [Threads -> Labels] /\ idx \in [Threads -> Slots \cup {NoSlot}]
      /\ accessing \in [Slots -> {0, 1}] /\ NoSlot \notin Slots
      /\ ExclusiveAccess
      /\ \A t \in Threads : Owns(t) => idx[t] \in Slots
      /\ Loader \in Threads /\ Dumper \in Threads
  BY ThreadKinds DEF IInv, TypeOK, BufferTypeOK, SlotAccounting, PublishedOrOwned, NoSlot, Slots
<1>o. ASSUME accessing' = accessing,
             \A t \in Threads : /\ InAccess(t)' <=> InAccess(t)
                                /\ InAccess(t) => idx'[t] = idx[t]
      PROVE  ExclusiveAccess'
  BY <1>0, <1>o DEF ExclusiveAccess
<1> USE DEF Goto, Labels, InAccess
<1>1. ASSUME NEW w \in Writers, StartWrite(w) PROVE ExclusiveAccess'
  BY <1>0, <1>1, <1>o, ThreadKinds DEF StartWrite, bufferVars
<1>2. ASSUME NEW t \in Threads, SleepForSlot(t) \/ SleepForAccess(t) \/ SpuriousWakeup(t)
      PROVE  ExclusiveAccess'
  BY <1>0, <1>2, <1>o DEF SleepForSlot, SleepForAccess, SpuriousWakeup, bufferVars
<1>3. ASSUME NEW t \in Threads, Request(t) PROVE ExclusiveAccess'
  <2>1. pc[t] = "request" /\ \A u \in Threads : u # t => idx'[u] = idx[u]
    BY <1>0, <1>3 DEF Request
  <2> QED BY <1>0, <1>3, <1>o, <2>1 DEF Request
<1>4. ASSUME NEW t \in Threads, Access(t) PROVE ExclusiveAccess'
  <2>1. /\ pc[t] = "access" /\ pc' = [pc EXCEPT ![t] = "inside"] /\ idx' = idx
        /\ idx[t] \in Slots /\ accessing[idx[t]] = 0
        /\ accessing' = [accessing EXCEPT ![idx[t]] = 1]
    BY <1>0, <1>4 DEF Access, Accessible, LockSlot, Owns
  <2> QED BY <1>0, <2>1 DEF ExclusiveAccess
<1>5. ASSUME NEW t \in Threads, NEW next \in {"publish", "giveback", "idle"},
             InAccess(t), EndAccess(t, next),
             \A u \in Threads : u # t => idx'[u] = idx[u]
      PROVE  ExclusiveAccess'
  <2>1. /\ idx[t] \in Slots /\ accessing' = [accessing EXCEPT ![idx[t]] = 0]
        /\ ~ InAccess(t)' /\ \A u \in Threads : u # t => (InAccess(u)' <=> InAccess(u))
    BY <1>0, <1>5 DEF EndAccess, UnlockSlot, ExclusiveAccess
  <2> QED BY <1>0, <1>5, <2>1 DEF ExclusiveAccess
<1>6. ASSUME NEW t \in Threads, EndFill(t) PROVE ExclusiveAccess'
  BY <1>0, <1>5, <1>6 DEF EndFill
<1>7. ASSUME NEW t \in Threads, Publish(t) PROVE ExclusiveAccess'
  <2>1. pc[t] = "publish" /\ \A u \in Threads : u # t => idx'[u] = idx[u]
    BY <1>0, <1>7 DEF Publish
  <2> QED BY <1>0, <1>7, <1>o, <2>1 DEF Publish, bufferVars
<1>8. CASE EndLoad
  BY <1>0, <1>5, <1>8 DEF EndLoad
<1>9. CASE GiveBack
  BY <1>0, <1>9, <1>o DEF GiveBack, Release
<1>10. ASSUME NEW s \in Slots, StartDump(s) PROVE ExclusiveAccess'
  BY <1>0, <1>10, <1>o DEF StartDump, bufferVars
<1>11. CASE DumpRelease
  BY <1>0, <1>11, <1>o DEF DumpRelease, Release
<1>12. CASE DumpEnd
  BY <1>0, <1>5, <1>12 DEF DumpEnd
<1>13. CASE UNCHANGED vars
  BY <1>0, <1>13, <1>o DEF vars, bufferVars
<1> QED
  BY <1>1, <1>2, <1>3, <1>4, <1>6, <1>7, <1>8, <1>9, <1>10, <1>11, <1>12, <1>13
  DEF Next, Step, LoaderStep, DumperStep

\* A thread finds its own slot in use only by a dumper that has released it;
\* no other thread owns that slot, and the dumper's end_access wakes the one
\* sleeper.
LEMMA OneSleeperStep == IInv /\ [Next]_vars => OneSleeperPerDump'
<1> SUFFICES ASSUME IInv, [Next]_vars PROVE OneSleeperPerDump'
  OBVIOUS
<1>0. /\ Roles /\ pc \in [Threads -> Labels] /\ idx \in [Threads -> Slots \cup {NoSlot}]
      /\ accessing \in [Slots -> {0, 1}] /\ slot_waiter \in SUBSET Threads
      /\ ExclusiveAccess /\ PublishedOrOwned /\ OneSleeperPerDump
      /\ \A t \in Threads : Owns(t) => idx[t] \in Slots
      /\ Loader \in Threads /\ Dumper \in Threads
  BY ThreadKinds DEF IInv, TypeOK, BufferTypeOK, SlotAccounting, PublishedOrOwned
<1>o. ASSUME slot_waiter' \subseteq slot_waiter, pc'[Dumper] = pc[Dumper],
             \A t \in slot_waiter \cup {Dumper} : pc'[t] = pc[t] /\ idx'[t] = idx[t]
      PROVE  OneSleeperPerDump'
  BY <1>0, <1>o DEF OneSleeperPerDump
<1> USE DEF Goto, Labels, OneSleeperPerDump
<1>1. ASSUME NEW w \in Writers, StartWrite(w) PROVE OneSleeperPerDump'
  BY <1>0, <1>1, <1>o, ThreadKinds DEF StartWrite
<1>2. ASSUME NEW t \in Threads, SleepForSlot(t) \/ SpuriousWakeup(t)
      PROVE  OneSleeperPerDump'
  BY <1>0, <1>2, <1>o DEF SleepForSlot, SpuriousWakeup
<1>3. ASSUME NEW t \in Threads, Request(t) PROVE OneSleeperPerDump'
  <2>1. /\ pc[t] = "request" /\ slot_waiter' = slot_waiter
        /\ \A u \in Threads : u # t => idx'[u] = idx[u] /\ pc'[u] = pc[u]
    BY <1>0, <1>3 DEF Request
  <2> QED BY <1>0, <1>o, <2>1 DEF Roles
<1>4. ASSUME NEW t \in Threads, SleepForAccess(t) PROVE OneSleeperPerDump'
  <2>1. /\ pc[t] = "access" /\ accessing[idx[t]] # 0 /\ idx[t] \in Slots
        /\ slot_waiter' = slot_waiter \cup {t} /\ pc' = pc /\ idx' = idx
    BY <1>0, <1>4 DEF SleepForAccess, Accessible, Owns
  <2>2. PICK u \in Threads : InAccess(u) /\ idx[u] = idx[t]
    BY <1>0, <2>1 DEF ExclusiveAccess
  <2>3. pc[u] # "inside"
    BY <1>0, <2>1, <2>2 DEF PublishedOrOwned, Owns
  <2>4. u = Dumper /\ pc[u] = "ending"
    BY <1>0, <2>2, <2>3, ThreadKinds DEF InAccess, Roles
  <2> QED BY <1>0, <2>1, <2>2, <2>4
<1>5. ASSUME NEW t \in Threads, Access(t) PROVE OneSleeperPerDump'
  BY <1>0, <1>5 DEF Access, Roles
<1>6. ASSUME NEW t \in Threads, EndFill(t) \/ Publish(t) PROVE OneSleeperPerDump'
  <2>1. /\ t # Dumper /\ pc[t] \in {"inside", "publish"} /\ slot_waiter' \subseteq slot_waiter
        /\ \A u \in Threads : u # t => idx'[u] = idx[u] /\ pc'[u] = pc[u]
    BY <1>0, <1>6, NotifyLemma, ThreadKinds DEF EndFill, EndAccess, Publish, Fillers
  <2> QED BY <1>0, <1>o, <2>1
<1>7. CASE LoaderStep
  <2>1. /\ pc[Loader] \in {"inside", "giveback"} /\ slot_waiter' \subseteq slot_waiter
        /\ \A u \in Threads : u # Loader => idx'[u] = idx[u] /\ pc'[u] = pc[u]
    BY <1>0, <1>7, NotifyLemma DEF LoaderStep, EndLoad, EndAccess, GiveBack, Release
  <2> QED BY <1>0, <1>o, <2>1, ThreadKinds
<1>8. ASSUME NEW s \in Slots, StartDump(s) PROVE OneSleeperPerDump'
  BY <1>0, <1>8 DEF StartDump
<1>9. CASE DumpRelease
  BY <1>0, <1>9 DEF DumpRelease, Release
<1>10. CASE DumpEnd
  <2>1. \A t, u \in slot_waiter : t = u
    BY <1>0 DEF PublishedOrOwned, Owns
  <2>2. slot_waiter' = {}
    BY <1>0, <1>10, <2>1 DEF DumpEnd, EndAccess, NotifyOne
  <2> QED BY <2>2
<1>11. CASE UNCHANGED vars
  BY <1>0, <1>11, <1>o DEF vars
<1> QED
  BY <1>1, <1>2, <1>3, <1>4, <1>5, <1>6, <1>7, <1>8, <1>9, <1>10, <1>11
  DEF Next, Step, DumperStep

\* Whoever takes or frees a slot wakes a sleeper, if there is one; it is the
\* one awake at the call.
LEMMA NoLostSlotWakeupStep == IInv /\ [Next]_vars => NoLostSlotWakeup'
<1> SUFFICES ASSUME IInv, [Next]_vars PROVE NoLostSlotWakeup'
  OBVIOUS
<1>0. /\ Roles /\ SleepersRequest /\ NoLostSlotWakeup /\ pc \in [Threads -> Labels]
      /\ idx_waiter \in SUBSET Threads
      /\ Loader \in Threads /\ Dumper \in Threads
  BY ThreadKinds DEF IInv, TypeOK
<1>o. ASSUME UNCHANGED <<idx_waiter, idxes_empty>>,
             \A t \in Threads : pc[t] = "request" => pc'[t] = "request"
      PROVE  NoLostSlotWakeup'
  BY <1>o, <1>0 DEF NoLostSlotWakeup
<1>n. ASSUME NEW t \in Threads \ idx_waiter, NotifyOne(idx_waiter, idx_waiter'),
             NEW label \in Labels, pc' = [pc EXCEPT ![t] = label]
      PROVE  NoLostSlotWakeup'
  BY <1>0, <1>n, NotifyLemma DEF NoLostSlotWakeup, SleepersRequest
<1> USE DEF Goto, Labels
<1>1. ASSUME NEW w \in Writers, StartWrite(w) PROVE NoLostSlotWakeup'
  BY <1>0, <1>1, <1>o, ThreadKinds DEF StartWrite, bufferVars
<1>2. ASSUME NEW t \in Threads, SleepForSlot(t) PROVE NoLostSlotWakeup'
  BY <1>0, <1>2 DEF SleepForSlot, bufferVars, NoLostSlotWakeup
<1>3. ASSUME NEW t \in Threads, Request(t) PROVE NoLostSlotWakeup'
  BY <1>0, <1>3, <1>n DEF Request
<1>4. ASSUME NEW t \in Threads, SleepForAccess(t) \/ Access(t) PROVE NoLostSlotWakeup'
  BY <1>0, <1>4, <1>o DEF SleepForAccess, Access, bufferVars
<1>5. ASSUME NEW t \in Threads, EndFill(t) \/ Publish(t) PROVE NoLostSlotWakeup'
  BY <1>0, <1>5, <1>o DEF EndFill, EndAccess, Publish, bufferVars
<1>6. CASE EndLoad
  BY <1>0, <1>6, <1>o DEF EndLoad, EndAccess
<1>7. CASE GiveBack
  BY <1>0, <1>7, <1>n DEF GiveBack, Release, SleepersRequest
<1>8. ASSUME NEW s \in Slots, StartDump(s) PROVE NoLostSlotWakeup'
  BY <1>0, <1>8, <1>o DEF StartDump, bufferVars
<1>9. CASE DumpRelease
  BY <1>0, <1>9, <1>n DEF DumpRelease, Release, SleepersRequest
<1>10. CASE DumpEnd
  BY <1>0, <1>10, <1>o DEF DumpEnd, EndAccess
<1>11. ASSUME NEW t \in Threads, SpuriousWakeup(t) PROVE NoLostSlotWakeup'
  BY <1>0, <1>11 DEF SpuriousWakeup, bufferVars, NoLostSlotWakeup, SleepersRequest
<1>12. CASE UNCHANGED vars
  BY <1>0, <1>12, <1>o DEF vars, bufferVars
<1> QED
  BY <1>1, <1>2, <1>3, <1>4, <1>5, <1>6, <1>7, <1>8, <1>9, <1>10, <1>11, <1>12
  DEF Next, Step, LoaderStep, DumperStep

-----------------------------------------------------------------------------
(* The theorems *)

\* The conjuncts of IInv hold together in every reachable state.
THEOREM BufferInvariant == SafeSpec => []IInv
<1>1. IInv /\ [Next]_vars => IInv'
  BY TypeOKStep, RolesStep, SlotAccountingStep, ExclusiveAccessStep, OneSleeperStep,
     NoLostSlotWakeupStep
  DEF IInv
<1> QED BY InitIInv, <1>1, PTL DEF SafeSpec

\* Type correctness of the cache and its clients.
THEOREM BufferTypes == Spec => []TypeOK
<1>1. IInv => TypeOK BY DEF IInv
<1> QED BY BufferInvariant, <1>1, PTL DEF Spec

\* No slot is lost and none is handed out twice: request_record_buff and
\* release_buff.
THEOREM SlotsAccountedFor == Spec => []SlotAccounting
<1>1. IInv => SlotAccounting BY DEF IInv
<1> QED BY BufferInvariant, <1>1, PTL DEF Spec

\* At most one thread is between wait_for_access and end_access of a slot.
THEOREM AccessIsExclusive == Spec => []ExclusiveAccess
<1>1. IInv => ExclusiveAccess BY DEF IInv
<1> QED BY BufferInvariant, <1>1, PTL DEF Spec

\* notify_one on the one condition variable of all slots reaches the thread
\* whose slot was freed.
THEOREM NotifyReachesSleeper == Spec => []OneSleeperPerDump
<1>1. IInv => OneSleeperPerDump BY DEF IInv
<1> QED BY BufferInvariant, <1>1, PTL DEF Spec

\* notify_one in request_record_buff and release_buff loses no wakeup.
THEOREM NoWakeupIsLost == Spec => []NoLostSlotWakeup
<1>1. IInv => NoLostSlotWakeup BY DEF IInv
<1> QED BY BufferInvariant, <1>1, PTL DEF Spec
=============================================================================
