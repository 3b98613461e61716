------------------------- MODULE CacheReadersProofs -------------------------
(***************************************************************************)
(* What the record cache promises to the threads that read from it beside  *)
(* its writers and its dumper, for every number of slots, writers, readers *)
(* and keys, although a read may clear a flag that is not its own.         *)
(***************************************************************************)
EXTENDS CacheReaders, BufferLemmas, FiniteSetTheorems

-----------------------------------------------------------------------------
(* The inductive invariant of the types.  Flags say nothing here of who is *)
(* inside a slot, so that it rests on who was handed it.                   *)

Threads == Writers \cup {Loader, Dumper}

Labels == {"idle", "request", "access", "inside", "publish", "ending", "done"}

ThreadsOK ==
  /\ pc \in [Threads -> Labels] /\ idx \in [Threads -> Slots \cup {-1}]
  /\ \A w \in Writers : pc[w] \in {"idle", "request", "access", "inside", "publish"}
  /\ pc[Loader] = "done"
  /\ pc[Dumper] \in {"idle", "access", "inside", "ending"}

Owns(t) == pc[t] \in {"access", "inside", "publish"}

\* A slot has one owner, or is published.
SlotsOK ==
  /\ FreeOnce /\ FreeOrHandedOut
  /\ published \subseteq idxes_wrote
  /\ \A t \in Threads : Owns(t) => idx[t] \in idxes_wrote \ published
  /\ \A t, u \in Threads : Owns(t) /\ Owns(u) /\ idx[t] = idx[u] => t = u

\* Lists and job lead to published slots, and no two of their keys to one.
ListsOK ==
  /\ \A k \in DOMAIN memtable : memtable[k] \in published
  /\ \A k \in DOMAIN job : job[k] \in published
  /\ \A k, x \in DOMAIN memtable : memtable[k] = memtable[x] => k = x
  /\ \A k, x \in DOMAIN job : job[k] = job[x] => k = x
  /\ \A k \in DOMAIN memtable, x \in DOMAIN job : memtable[k] # job[x]

Turns == IF turning = NoKey THEN 0 ELSE 1

\* Rows that were written and rows that are to come are no more than the slots
\* that the job began with.
CountOK ==
  /\ IsFiniteSet(DOMAIN job)
  /\ row + Cardinality(DOMAIN job) + Turns <= RECORD_BUFF_SIZE

CallsOK ==
  /\ \A w \in Writers : pc[w] # "idle" => rec[w] \in Records
  /\ \A w \in hashed : pc[w] = "publish"
  /\ turning = NoKey => pc[Dumper] = "idle"
  /\ \A r \in Readers : rpc[r] # "idle" => rd[r] \in Reads

TypeInv == TypeOK /\ ThreadsOK /\ SlotsOK /\ ListsOK /\ CountOK /\ CallsOK

-----------------------------------------------------------------------------
(* The inductive invariant of the sleepers *)

\* While one sleeps, somebody awake is in a slot or on its way to one, or a
\* flag is set: of a slot whose owner has yet to leave it, or stuck.
WakeInv ==
  /\ \A t \in slot_waiter : Asking(t)
  /\ slot_waiter # {} =>
       \/ \E t \in Accessors \ slot_waiter : InAccess(t) \/ Asking(t)
       \/ \E s \in Slots : accessing[s] = 1

-----------------------------------------------------------------------------
(* The inductive invariant of the records *)

\* Who answers for slot s while it holds the record that key k is found by.
Kept(k, s) ==
  \/ \E w \in hashed : rec[w].key = k /\ idx[w] = s
  \/ k \in DOMAIN memtable /\ memtable[k] = s
  \/ k \in DOMAIN job /\ job[k] = s
  \/ turning = k /\ pc[Dumper] \in {"access", "inside"} /\ idx[Dumper] = s

\* The key's index is that of slot s, and the dumper has not released it yet.
FoundAt(k, s) == hash[k] = [in_file |-> FALSE, idx |-> s] /\ ~ Released(k)

\* What a slot that is found by its key holds.
FoundFresh ==
  \A k \in Keys, s \in Slots : FoundAt(k, s) =>
    Kept(k, s) /\ data[s].key = k /\ data[s].val >= acked[k]

\* What a writer has done.
WritesOK ==
  /\ \A w \in Writers : pc[w] = "publish" => data[idx[w]] = rec[w]
  /\ \A w \in Writers : pc[w] # "idle" => rec[w].val = writes
  /\ \A k \in Keys : acked[k] <= writes
  /\ \A w \in hashed, s \in Slots :
       hash[rec[w].key] = [in_file |-> FALSE, idx |-> s] => idx[w] = s

\* What a reader holds on to.
ReadsOK ==
  \A r \in Readers : rd[r].kept =>
    /\ rd[r].idx \in idxes_wrote
    /\ \A w \in Writers : pc[w] \in {"access", "inside"} => idx[w] # rd[r].idx
    /\ data[rd[r].idx].key = rd[r].key /\ data[rd[r].idx].val >= rd[r].floor

OneWriter == \A v, w \in Writers : v = w

FreshInv == FoundFresh /\ WritesOK /\ ReadsOK

-----------------------------------------------------------------------------
(* What the threads of BufferClients do, written out *)

LEMMA Kinds ==
  /\ Clients!Threads = Threads /\ Clients!Fillers = Writers \cup {Loader}
  /\ Loader \notin Writers /\ Dumper \notin Writers /\ Loader # Dumper
  /\ Loader \in Threads /\ Dumper \in Threads /\ Writers \subseteq Threads
  /\ \A r \in Readers : r \notin Writers /\ r # Dumper /\ r # Loader
BY CacheReadersAssumption DEF Threads, Clients!Threads, Clients!Fillers

LEMMA NotifyLemma ==
  ASSUME NEW old, NEW new, Clients!NotifyOne(old, new)
  PROVE  /\ new \subseteq old
         /\ old # {} => \E t \in old : new = old \ {t}
BY DEF Clients!NotifyOne

LEMMA StartWriteIs ==
  ASSUME NEW w \in Writers, Clients!StartWrite(w)
  PROVE  /\ pc[w] = "idle" /\ pc' = [pc EXCEPT ![w] = "request"]
         /\ UNCHANGED <<idxes_empty, idxes_wrote, accessing, idx_waiter, slot_waiter, idx, published>>
BY DEF Clients!StartWrite, Clients!Goto, Clients!bufferVars

LEMMA SleepForSlotIs ==
  ASSUME NEW w \in Writers, Clients!SleepForSlot(w)
  PROVE  /\ idx_waiter' = idx_waiter \cup {w}
         /\ UNCHANGED <<idxes_empty, idxes_wrote, accessing, slot_waiter, pc, idx, published>>
BY DEF Clients!SleepForSlot, Clients!bufferVars

LEMMA RequestIs ==
  ASSUME NEW w \in Writers, Clients!Request(w), BufferTypeOK, FreeOnce, FreeOrHandedOut
  PROVE  /\ pc[w] = "request" /\ pc' = [pc EXCEPT ![w] = "access"]
         /\ idx_waiter' \subseteq idx_waiter
         /\ UNCHANGED <<accessing, slot_waiter, published>>
         /\ FreeOnce' /\ FreeOrHandedOut' /\ BufferTypeOK'
         /\ \E s \in Slots : /\ s \notin idxes_wrote /\ idxes_wrote' = idxes_wrote \cup {s}
                             /\ idx' = [idx EXCEPT ![w] = s]
<1>1. /\ pc[w] = "request" /\ pc' = [pc EXCEPT ![w] = "access"]
      /\ UNCHANGED <<accessing, slot_waiter, published>>
      /\ Clients!NotifyOne(idx_waiter, idx_waiter')
  BY DEF Clients!Request, Clients!Goto
<1>2. PICK s \in Slots : RequestSlot(s) /\ idx' = [idx EXCEPT ![w] = s]
  BY DEF Clients!Request, Clients!RequestSlot, RequestSlot, Clients!Slots, Slots, Clients!Last,
         Last, Clients!Front, Front
<1>3. idxes_wrote' = idxes_wrote \cup {s}
  BY <1>2 DEF RequestSlot
<1>4. /\ idxes_empty' \in Seq(Slots) /\ idxes_wrote' \in SUBSET Slots
      /\ s \notin idxes_wrote /\ FreeOnce' /\ FreeOrHandedOut'
  BY <1>2, RequestSlotLemma DEF BufferTypeOK
<1> QED BY <1>1, <1>2, <1>3, <1>4, NotifyLemma DEF BufferTypeOK

LEMMA SleepForAccessIs ==
  ASSUME NEW t, Clients!SleepForAccess(t)
  PROVE  /\ pc[t] = "access" /\ accessing[idx[t]] # 0
         /\ slot_waiter' = slot_waiter \cup {t}
         /\ UNCHANGED <<idxes_empty, idxes_wrote, accessing, idx_waiter, pc, idx, published>>
BY DEF Clients!SleepForAccess, Clients!bufferVars, Clients!Accessible

LEMMA AccessIs ==
  ASSUME NEW t, Clients!Access(t)
  PROVE  /\ pc[t] = "access" /\ t \notin slot_waiter /\ pc' = [pc EXCEPT ![t] = "inside"]
         /\ accessing' = [accessing EXCEPT ![idx[t]] = 1]
         /\ UNCHANGED <<idxes_empty, idxes_wrote, idx_waiter, slot_waiter, idx, published>>
BY DEF Clients!Access, Clients!LockSlot, Clients!Goto

LEMMA EndFillIs ==
  ASSUME NEW w \in Writers, Clients!EndFill(w)
  PROVE  /\ pc[w] = "inside" /\ pc' = [pc EXCEPT ![w] = "publish"]
         /\ accessing' = [accessing EXCEPT ![idx[w]] = 0]
         /\ slot_waiter' \subseteq slot_waiter
         /\ slot_waiter # {} => \E t \in slot_waiter : slot_waiter' = slot_waiter \ {t}
         /\ UNCHANGED <<idxes_empty, idxes_wrote, idx_waiter, idx, published>>
BY NotifyLemma DEF Clients!EndFill, Clients!EndAccess, Clients!UnlockSlot, Clients!Goto

LEMMA PublishIs ==
  ASSUME NEW w \in Writers, Clients!Publish(w)
  PROVE  /\ pc[w] = "publish" /\ pc' = [pc EXCEPT ![w] = "idle"]
         /\ published' = published \cup {idx[w]} /\ idx' = [idx EXCEPT ![w] = -1]
         /\ UNCHANGED <<idxes_empty, idxes_wrote, accessing, idx_waiter, slot_waiter>>
BY Kinds DEF Clients!Publish, Clients!bufferVars, Clients!NoSlot, Clients!Goto

LEMMA StartDumpIs ==
  ASSUME NEW s, Clients!StartDump(s)
  PROVE  /\ pc[Dumper] = "idle" /\ pc' = [pc EXCEPT ![Dumper] = "access"]
         /\ s \in published /\ published' = published \ {s}
         /\ idx' = [idx EXCEPT ![Dumper] = s]
         /\ UNCHANGED <<idxes_empty, idxes_wrote, accessing, idx_waiter, slot_waiter>>
BY DEF Clients!StartDump, Clients!bufferVars, Clients!Goto

LEMMA DumpReleaseIs ==
  ASSUME Clients!DumpRelease, BufferTypeOK, FreeOnce, FreeOrHandedOut, idx[Dumper] \in Slots
  PROVE  /\ pc[Dumper] = "inside" /\ pc' = [pc EXCEPT ![Dumper] = "ending"]
         /\ idx_waiter' \subseteq idx_waiter
         /\ idxes_wrote' = idxes_wrote \ {idx[Dumper]}
         /\ FreeOnce' /\ FreeOrHandedOut' /\ BufferTypeOK'
         /\ UNCHANGED <<accessing, slot_waiter, idx, published>>
<1>1. /\ pc[Dumper] = "inside" /\ pc' = [pc EXCEPT ![Dumper] = "ending"]
      /\ UNCHANGED <<accessing, slot_waiter, idx, published>>
      /\ Clients!NotifyOne(idx_waiter, idx_waiter')
      /\ ReleaseSlot(idx[Dumper])
  BY DEF Clients!DumpRelease, Clients!Release, Clients!Goto, Clients!ReleaseSlot, ReleaseSlot,
         Clients!Releasable, Releasable
<1>2. /\ idxes_empty' \in Seq(Slots) /\ idxes_wrote' = idxes_wrote \ {idx[Dumper]}
      /\ FreeOnce' /\ FreeOrHandedOut'
  BY <1>1, ReleaseSlotLemma DEF BufferTypeOK
<1> QED BY <1>1, <1>2, NotifyLemma DEF BufferTypeOK

LEMMA DumpEndIs ==
  ASSUME Clients!DumpEnd
  PROVE  /\ pc[Dumper] = "ending" /\ pc' = [pc EXCEPT ![Dumper] = "idle"]
         /\ idx' = [idx EXCEPT ![Dumper] = -1]
         /\ accessing' = [accessing EXCEPT ![idx[Dumper]] = 0]
         /\ slot_waiter' \subseteq slot_waiter
         /\ slot_waiter # {} => \E t \in slot_waiter : slot_waiter' = slot_waiter \ {t}
         /\ UNCHANGED <<idxes_empty, idxes_wrote, idx_waiter, published>>
BY NotifyLemma DEF Clients!DumpEnd, Clients!EndAccess, Clients!UnlockSlot, Clients!Goto, Clients!NoSlot

-----------------------------------------------------------------------------
(* Types *)

LEMMA InitTypeInv == Init => TypeInv
<1> SUFFICES ASSUME Init PROVE TypeInv
  OBVIOUS
<1>1. /\ RECORD_BUFF_SIZE \in Nat
      /\ idxes_empty = [i \in 1 .. RECORD_BUFF_SIZE |-> i - 1]
      /\ idxes_empty \in Seq(Slots) /\ Len(idxes_empty) = RECORD_BUFF_SIZE
      /\ idxes_wrote = {} /\ accessing = [s \in Slots |-> 0]
      /\ idx_waiter = {} /\ slot_waiter = {} /\ published = {}
      /\ idx = [t \in Threads |-> -1]
  BY BuffSizeAssumption, Kinds
  DEF Init, Clients!Init, Clients!BufferInit, Slots, Clients!Slots, Clients!NoSlot
<1>2. pc = [t \in Threads |-> IF t = Loader THEN "done" ELSE "idle"]
  <2>1. PICK start \in {"request", "done"} :
          pc = [t \in Threads |-> IF t = Loader THEN start ELSE "idle"]
    BY Kinds DEF Init, Clients!Init
  <2>2. pc[Loader] = start
    BY <2>1, Kinds
  <2> QED BY <2>1, <2>2 DEF Init
<1>3. TypeOK
  <2>1. Empty \in Lists
    BY DEF Empty, Lists
  <2>2. accessing \in [Slots -> {0, 1}]
    BY <1>1
  <2>3. MaxWrites \in Nat
    BY CacheReadersAssumption
  <2>4. BufferTypeOK /\ idx_waiter \subseteq Writers /\ slot_waiter \subseteq Accessors
    BY <1>1, <2>2 DEF BufferTypeOK
  <2>5. /\ data \in [Slots -> Records \cup {NoRecord}] /\ hash \in [Keys -> Indexes \cup {NoIndex}]
        /\ rec \in [Writers -> Records \cup {NoRecord}] /\ hashed \subseteq Writers
        /\ rpc \in [Readers -> {"idle", "access", "inside"}] /\ rd \in [Readers -> Reads \cup {NoRead}]
    BY DEF Init
  <2>6. row \in 0 .. RECORD_BUFF_SIZE /\ writes \in 0 .. MaxWrites /\ acked \in [Keys -> 0 .. MaxWrites]
    BY <1>1, <2>3 DEF Init
  <2> QED BY <2>1, <2>4, <2>5, <2>6 DEF Init, TypeOK
<1>4. ThreadsOK
  BY <1>1, <1>2, Kinds DEF ThreadsOK, Labels
<1>5. SlotsOK
  <2>1. FreeOnce
    BY <1>1 DEF FreeOnce
  <2>2. \A s \in Slots : s + 1 \in 1 .. Len(idxes_empty) /\ idxes_empty[s + 1] = s
    BY <1>1 DEF Slots
  <2>3. FreeOrHandedOut
    BY <1>1, <2>2 DEF FreeOrHandedOut, Contains
  <2>4. \A t \in Threads : ~ Owns(t)
    BY <1>2 DEF Owns
  <2> QED BY <1>1, <2>1, <2>3, <2>4 DEF SlotsOK
<1>6. ListsOK
  BY DEF ListsOK, Init, Empty
<1>7. CountOK
  <2>1. DOMAIN job = {} /\ row = 0 /\ Turns = 0
    BY DEF Init, Empty, Turns
  <2> QED BY <1>1, <2>1, FS_EmptySet DEF CountOK
<1>8. CallsOK
  BY <1>2, Kinds DEF CallsOK, Init
<1> QED BY <1>3, <1>4, <1>5, <1>6, <1>7, <1>8 DEF TypeInv

\* What the types say of the memtables, the job and the record a writer has.
LEMMA ListTypes ==
  ASSUME TypeInv
  PROVE  /\ DOMAIN memtable \subseteq Keys /\ memtable \in [DOMAIN memtable -> Slots]
         /\ DOMAIN job \subseteq Keys /\ job \in [DOMAIN job -> Slots]
         /\ NoKey \notin Keys
<1>1. PICK ks \in SUBSET Keys : memtable \in [ks -> Slots]
  BY DEF TypeInv, TypeOK, Lists
<1>2. PICK js \in SUBSET Keys : job \in [js -> Slots]
  BY DEF TypeInv, TypeOK, Lists
<1>3. NoKey \notin Keys
  BY CacheReadersAssumption DEF NoKey
<1> QED BY <1>1, <1>2, <1>3

\* Lists of whatever keys there are.
LEMMA AList ==
  ASSUME NEW ks \in SUBSET Keys, NEW f \in [ks -> Slots]
  PROVE  f \in Lists
BY DEF Lists

\* What lists and job have to do with the rest.
LEMMA SameLists ==
  ASSUME TypeInv, UNCHANGED <<memtable, job, turning, row>>
  PROVE  (published \subseteq published') => ListsOK' /\ CountOK'
BY DEF TypeInv, ListsOK, CountOK, Turns

LEMMA StartWriteTypes ==
  ASSUME TypeInv, NEW w \in Writers, NEW k \in Keys, StartWrite(w, k) PROVE TypeInv'
<1>1. /\ pc[w] = "idle" /\ pc' = [pc EXCEPT ![w] = "request"]
      /\ UNCHANGED <<idxes_empty, idxes_wrote, accessing, idx_waiter, slot_waiter, idx, published>>
      /\ UNCHANGED <<data, hash, memtable, job, turning, row, rpc, rd, hashed, acked, ub>>
      /\ writes < MaxWrites /\ writes' = writes + 1
      /\ rec' = [rec EXCEPT ![w] = [key |-> k, val |-> writes + 1]]
  BY StartWriteIs DEF StartWrite, jobVars, readerVars
<1>2. [key |-> k, val |-> writes + 1] \in Records
  BY <1>1, CacheReadersAssumption DEF TypeInv, TypeOK, Records
<1>3. TypeOK'
  BY <1>1, <1>2, CacheReadersAssumption DEF TypeInv, TypeOK, BufferTypeOK
<1>4. ThreadsOK'
  BY <1>1, Kinds DEF TypeInv, ThreadsOK, Labels
<1>5. SlotsOK'
  BY <1>1, Kinds DEF TypeInv, ThreadsOK, SlotsOK, Owns, FreeOnce, FreeOrHandedOut
<1>6. CallsOK'
  BY <1>1, <1>2, Kinds DEF TypeInv, ThreadsOK, CallsOK, TypeOK
<1> QED BY <1>1, <1>3, <1>4, <1>5, <1>6, SameLists DEF TypeInv

LEMMA RequestTypes ==
  ASSUME TypeInv, NEW w \in Writers, RequestBuff(w) PROVE TypeInv'
<1>1. UNCHANGED <<data, hash, memtable, job, turning, row, rpc, rd, rec, hashed, writes, acked, ub>>
  BY DEF RequestBuff, jobVars, readerVars, writeVars
<1>2. CASE Clients!SleepForSlot(w)
  <2>1. TypeOK'
    BY <1>1, <1>2, SleepForSlotIs DEF TypeInv, TypeOK, BufferTypeOK
  <2>2. ThreadsOK' /\ SlotsOK' /\ CallsOK'
    BY <1>1, <1>2, SleepForSlotIs DEF TypeInv, ThreadsOK, SlotsOK, Owns, FreeOnce, FreeOrHandedOut, CallsOK
  <2> QED BY <1>1, <1>2, <2>1, <2>2, SleepForSlotIs, SameLists DEF TypeInv
<1>3. CASE Clients!Request(w)
  <2>0. BufferTypeOK /\ FreeOnce /\ FreeOrHandedOut
    BY DEF TypeInv, TypeOK, SlotsOK
  <2>1. /\ pc[w] = "request" /\ pc' = [pc EXCEPT ![w] = "access"]
        /\ idx_waiter' \subseteq idx_waiter
        /\ UNCHANGED <<accessing, slot_waiter, published>>
        /\ FreeOnce' /\ FreeOrHandedOut' /\ BufferTypeOK'
    BY <1>3, <2>0, RequestIs
  <2>2. PICK s \in Slots : /\ s \notin idxes_wrote /\ idxes_wrote' = idxes_wrote \cup {s}
                           /\ idx' = [idx EXCEPT ![w] = s]
    BY <1>3, <2>0, RequestIs
  <2>3. TypeOK'
    BY <1>1, <2>1 DEF TypeInv, TypeOK
  <2>4. ThreadsOK'
    BY <1>1, <2>1, <2>2, Kinds DEF TypeInv, ThreadsOK, Labels
  <2>5. SlotsOK'
    BY <1>1, <2>1, <2>2, Kinds DEF TypeInv, ThreadsOK, SlotsOK, Owns
  <2>6. CallsOK'
    BY <1>1, <2>1, Kinds DEF TypeInv, TypeOK, ThreadsOK, CallsOK
  <2> QED BY <1>1, <2>1, <2>3, <2>4, <2>5, <2>6, SameLists DEF TypeInv
<1> QED BY <1>2, <1>3 DEF RequestBuff

LEMMA WaitForAccessTypes ==
  ASSUME TypeInv, NEW t \in Writers \cup {Dumper}, WaitForAccess(t) PROVE TypeInv'
<1>1. UNCHANGED <<data, hash, memtable, job, turning, row, rpc, rd, rec, hashed, writes, acked, ub>>
  BY DEF WaitForAccess, jobVars, readerVars, writeVars
<1>2. CASE Clients!SleepForAccess(t)
  <2>1. TypeOK'
    BY <1>1, <1>2, SleepForAccessIs DEF TypeInv, TypeOK, BufferTypeOK, Accessors
  <2>2. ThreadsOK' /\ SlotsOK' /\ CallsOK'
    BY <1>1, <1>2, SleepForAccessIs DEF TypeInv, ThreadsOK, SlotsOK, Owns, FreeOnce, FreeOrHandedOut, CallsOK
  <2> QED BY <1>1, <1>2, <2>1, <2>2, SleepForAccessIs, SameLists DEF TypeInv
<1>3. CASE Clients!Access(t)
  <2>1. TypeOK'
    BY <1>1, <1>3, AccessIs DEF TypeInv, TypeOK, BufferTypeOK
  <2>2. ThreadsOK'
    BY <1>1, <1>3, AccessIs, Kinds DEF TypeInv, ThreadsOK, Labels
  <2>3. SlotsOK'
    BY <1>1, <1>3, AccessIs, Kinds DEF TypeInv, ThreadsOK, SlotsOK, Owns, FreeOnce, FreeOrHandedOut
  <2>4. CallsOK'
    BY <1>1, <1>3, AccessIs, Kinds DEF TypeInv, TypeOK, ThreadsOK, CallsOK
  <2> QED BY <1>1, <1>3, <2>1, <2>2, <2>3, <2>4, AccessIs, SameLists DEF TypeInv
<1> QED BY <1>2, <1>3 DEF WaitForAccess

LEMMA CopyTypes ==
  ASSUME TypeInv, NEW w \in Writers, Copy(w) PROVE TypeInv'
<1>1. /\ UNCHANGED <<hash, memtable, job, turning, row, rpc, rd, rec, hashed, writes, acked, ub>>
      /\ data' = [data EXCEPT ![idx[w]] = rec[w]] /\ Clients!EndFill(w)
  BY DEF Copy, jobVars, readerVars, writeVars
<1>2. TypeOK'
  BY <1>1, EndFillIs DEF TypeInv, TypeOK, BufferTypeOK
<1>3. ThreadsOK'
  BY <1>1, EndFillIs, Kinds DEF TypeInv, ThreadsOK, Labels
<1>4. SlotsOK'
  BY <1>1, EndFillIs, Kinds DEF TypeInv, ThreadsOK, SlotsOK, Owns, FreeOnce, FreeOrHandedOut
<1>5. CallsOK'
  BY <1>1, EndFillIs, Kinds DEF TypeInv, TypeOK, ThreadsOK, CallsOK
<1> QED BY <1>1, <1>2, <1>3, <1>4, <1>5, EndFillIs, SameLists DEF TypeInv

LEMMA WriteHashTypes ==
  ASSUME TypeInv, NEW w \in Writers, WriteHash(w) PROVE TypeInv'
<1>1. /\ UNCHANGED <<idxes_empty, idxes_wrote, accessing, idx_waiter, slot_waiter, pc, idx, published>>
      /\ UNCHANGED <<data, memtable, job, turning, row, rpc, rd, rec, writes, acked, ub>>
      /\ pc[w] = "publish" /\ hashed' = hashed \cup {w}
      /\ hash' = [hash EXCEPT ![rec[w].key] = [in_file |-> FALSE, idx |-> idx[w]]]
  BY DEF WriteHash, clientVars, bufferVars, jobVars, readerVars
<1>2. [in_file |-> FALSE, idx |-> idx[w]] \in Indexes
  BY <1>1, Kinds DEF TypeInv, TypeOK, BufferTypeOK, SlotsOK, Owns, Indexes
<1>3. TypeOK'
  BY <1>1, <1>2 DEF TypeInv, TypeOK, BufferTypeOK
<1>4. ThreadsOK' /\ SlotsOK' /\ CallsOK'
  BY <1>1 DEF TypeInv, ThreadsOK, SlotsOK, Owns, FreeOnce, FreeOrHandedOut, CallsOK
<1> QED BY <1>1, <1>3, <1>4, SameLists DEF TypeInv

\* The record's slot, which its writer held, is the lists' from now on.
LEMMA ListInsertTypes ==
  ASSUME TypeInv, NEW w \in Writers, ListInsert(w) PROVE TypeInv'
<1> DEFINE k == rec[w].key
           s == idx[w]
<1>1. /\ UNCHANGED <<data, hash, job, turning, row, rpc, rd, writes, ub>>
      /\ w \in hashed /\ hashed' = hashed \ {w} /\ rec' = [rec EXCEPT ![w] = NoRecord]
      /\ memtable' = [x \in DOMAIN memtable \cup {k} |-> IF x = k THEN s ELSE memtable[x]]
      /\ acked' = [acked EXCEPT ![k] = rec[w].val] /\ Clients!Publish(w)
  BY DEF ListInsert, readerVars
<1>2. /\ pc[w] = "publish" /\ pc' = [pc EXCEPT ![w] = "idle"]
      /\ published' = published \cup {s} /\ idx' = [idx EXCEPT ![w] = -1]
      /\ UNCHANGED <<idxes_empty, idxes_wrote, accessing, idx_waiter, slot_waiter>>
  BY <1>1, PublishIs
<1>3. /\ s \in idxes_wrote /\ s \notin published /\ s \in Slots
      /\ rec[w] \in Records /\ k \in Keys /\ rec[w].val \in 1 .. MaxWrites
  BY <1>2, Kinds DEF TypeInv, TypeOK, BufferTypeOK, SlotsOK, Owns, CallsOK, Records
<1> HIDE DEF k, s
<1>4. memtable' \in Lists
  <2>1. memtable' \in [DOMAIN memtable \cup {k} -> Slots]
    BY <1>1, <1>3, ListTypes
  <2> QED BY <1>3, <2>1, AList, ListTypes, DOMAIN memtable \cup {k} \in SUBSET Keys
<1>5. acked' \in [Keys -> 0 .. MaxWrites]
  BY <1>1, <1>3 DEF TypeInv, TypeOK
<1>6. TypeOK'
  BY <1>1, <1>2, <1>3, <1>4, <1>5 DEF TypeInv, TypeOK, BufferTypeOK
<1>7. ThreadsOK'
  BY <1>2, Kinds DEF TypeInv, ThreadsOK, Labels
<1>8. SlotsOK'
  BY <1>2, <1>3, Kinds DEF TypeInv, ThreadsOK, SlotsOK, Owns, FreeOnce, FreeOrHandedOut, s
<1>9. ListsOK'
  BY <1>1, <1>2, <1>3 DEF TypeInv, ListsOK
<1>10. CountOK'
  BY <1>1 DEF TypeInv, CountOK, Turns
<1>11. CallsOK'
  BY <1>1, <1>2, Kinds DEF TypeInv, TypeOK, ThreadsOK, CallsOK
<1> QED BY <1>6, <1>7, <1>8, <1>9, <1>10, <1>11 DEF TypeInv

\* The keys of lists that lead to slots of their own are no more than the slots.
LEMMA SubmitDumpTypes ==
  ASSUME TypeInv, SubmitDump PROVE TypeInv'
<1>1. /\ UNCHANGED <<idxes_empty, idxes_wrote, accessing, idx_waiter, slot_waiter, pc, idx, published>>
      /\ UNCHANGED <<data, hash, turning, row, rpc, rd, rec, hashed, writes, acked, ub>>
      /\ job = Empty /\ turning = NoKey /\ row = 0 /\ job' = memtable /\ memtable' = Empty
  BY DEF SubmitDump, clientVars, bufferVars, readerVars, writeVars
<1>2. TypeOK'
  <2>1. Empty \in Lists
    BY DEF Empty, Lists
  <2> QED BY <1>1, <2>1 DEF TypeInv, TypeOK, BufferTypeOK
<1>3. ThreadsOK' /\ SlotsOK' /\ CallsOK'
  BY <1>1 DEF TypeInv, ThreadsOK, SlotsOK, Owns, FreeOnce, FreeOrHandedOut, CallsOK
<1>4. ListsOK'
  BY <1>1 DEF TypeInv, ListsOK, Empty
<1>5. CountOK'
  <2>1. RECORD_BUFF_SIZE \in Nat /\ IsFiniteSet(Slots) /\ Cardinality(Slots) = RECORD_BUFF_SIZE
    BY BuffSizeAssumption, FS_Interval DEF Slots
  <2>2. memtable \in Injection(DOMAIN memtable, Slots)
    BY ListTypes DEF TypeInv, ListsOK, Injection, IsInjective
  <2>3. IsFiniteSet(DOMAIN memtable) /\ Cardinality(DOMAIN memtable) <= RECORD_BUFF_SIZE
    BY <2>1, <2>2, FS_Injection
  <2>4. Cardinality(DOMAIN memtable) \in Nat
    BY <2>3, FS_CardinalityType
  <2> QED BY <1>1, <2>1, <2>3, <2>4 DEF CountOK, Turns
<1> QED BY <1>2, <1>3, <1>4, <1>5 DEF TypeInv

LEMMA NextRecordTypes ==
  ASSUME TypeInv, NEW k \in Keys, NextRecord(k) PROVE TypeInv'
<1>1. /\ UNCHANGED <<data, hash, memtable, row, rpc, rd, rec, hashed, writes, acked, ub>>
      /\ turning = NoKey /\ k \in DOMAIN job /\ turning' = k
      /\ job' = [x \in DOMAIN job \ {k} |-> job[x]] /\ Clients!StartDump(job[k])
  BY DEF NextRecord, readerVars, writeVars
<1>2. /\ pc[Dumper] = "idle" /\ pc' = [pc EXCEPT ![Dumper] = "access"]
      /\ job[k] \in published /\ published' = published \ {job[k]}
      /\ idx' = [idx EXCEPT ![Dumper] = job[k]]
      /\ UNCHANGED <<idxes_empty, idxes_wrote, accessing, idx_waiter, slot_waiter>>
  BY <1>1, StartDumpIs
<1>3. job[k] \in Slots
  BY <1>1, ListTypes
<1>4. job' \in Lists
  BY <1>1, ListTypes, AList
<1>5. TypeOK'
  BY <1>1, <1>2, <1>4 DEF TypeInv, TypeOK, BufferTypeOK
<1>6. ThreadsOK'
  BY <1>2, <1>3, Kinds DEF TypeInv, ThreadsOK, Labels
<1>7. SlotsOK'
  BY <1>2, <1>3, Kinds DEF TypeInv, ThreadsOK, SlotsOK, Owns, FreeOnce, FreeOrHandedOut
<1>8. ListsOK'
  BY <1>1, <1>2 DEF TypeInv, ListsOK
<1>9. CountOK'
  <2>1. IsFiniteSet(DOMAIN job) /\ Cardinality(DOMAIN job) \in Nat
    BY FS_CardinalityType DEF TypeInv, CountOK
  <2>2. /\ IsFiniteSet(DOMAIN job') /\ Cardinality(DOMAIN job') = Cardinality(DOMAIN job) - 1
        /\ DOMAIN job' = DOMAIN job \ {k}
    BY <1>1, <2>1, FS_RemoveElement
  <2>3. row \in Nat /\ row' = row /\ Turns = 0 /\ Turns' = 1
    BY <1>1, ListTypes DEF TypeInv, TypeOK, Turns
  <2> QED BY <2>1, <2>2, <2>3, BuffSizeAssumption DEF TypeInv, CountOK
<1>10. CallsOK'
  BY <1>1, <1>2, Kinds, ListTypes DEF TypeInv, TypeOK, ThreadsOK, CallsOK
<1> QED BY <1>5, <1>6, <1>7, <1>8, <1>9, <1>10 DEF TypeInv

LEMMA ReleaseTypes ==
  ASSUME TypeInv, ReleaseBuff PROVE TypeInv'
<1>0. BufferTypeOK /\ FreeOnce /\ FreeOrHandedOut
  BY DEF TypeInv, TypeOK, SlotsOK
<1>1. /\ UNCHANGED <<data, hash, memtable, job, turning, row, rpc, rec, hashed, writes, acked, ub>>
      /\ rd' = [r \in Readers |->
                  IF rd[r].idx = idx[Dumper] THEN [rd[r] EXCEPT !.kept = FALSE] ELSE rd[r]]
      /\ Clients!DumpRelease /\ pc[Dumper] = "inside"
  BY DEF ReleaseBuff, jobVars, writeVars, Clients!DumpRelease
<1>2. idx[Dumper] \in Slots /\ idx[Dumper] \notin published
  BY <1>1, Kinds DEF TypeInv, TypeOK, BufferTypeOK, SlotsOK, Owns
<1>3. /\ pc' = [pc EXCEPT ![Dumper] = "ending"]
      /\ idx_waiter' \subseteq idx_waiter
      /\ idxes_wrote' = idxes_wrote \ {idx[Dumper]}
      /\ FreeOnce' /\ FreeOrHandedOut' /\ BufferTypeOK'
      /\ UNCHANGED <<accessing, slot_waiter, idx, published>>
  BY <1>0, <1>1, <1>2, DumpReleaseIs
<1>4. \A r \in Readers : /\ rd[r] \in Reads => rd'[r] \in Reads
                         /\ rd[r] = NoRead => rd'[r] = NoRead
  <2> SUFFICES ASSUME NEW r \in Readers
               PROVE  /\ rd[r] \in Reads => rd'[r] \in Reads
                      /\ rd[r] = NoRead => rd'[r] = NoRead
    OBVIOUS
  <2>1. rd'[r] = rd[r] \/ rd'[r] = [rd[r] EXCEPT !.kept = FALSE]
    BY <1>1
  <2>2. ASSUME rd[r] \in Reads PROVE [rd[r] EXCEPT !.kept = FALSE] \in Reads
    BY <2>2 DEF Reads
  <2>3. [NoRead EXCEPT !.kept = FALSE] = NoRead
    <3>1. NoRead \in [key : {NoKey}, idx : {-1}, floor : {0}, kept : {FALSE}]
      BY DEF NoRead
    <3> QED BY <3>1
  <2> QED BY <2>1, <2>2, <2>3
<1>5. TypeOK'
  BY <1>1, <1>3, <1>4 DEF TypeInv, TypeOK
<1>6. ThreadsOK'
  BY <1>3, Kinds DEF TypeInv, ThreadsOK, Labels
<1>7. SlotsOK'
  BY <1>1, <1>2, <1>3, Kinds DEF TypeInv, ThreadsOK, SlotsOK, Owns
<1>8. CallsOK'
  BY <1>1, <1>3, <1>4, Kinds DEF TypeInv, TypeOK, ThreadsOK, CallsOK
<1> QED BY <1>1, <1>3, <1>5, <1>6, <1>7, <1>8, SameLists DEF TypeInv

LEMMA EndAccessTypes ==
  ASSUME TypeInv, EndAccess PROVE TypeInv'
<1>1. /\ UNCHANGED <<data, hash, memtable, job, turning, row, rpc, rd, rec, hashed, writes, acked, ub>>
      /\ Clients!DumpEnd
  BY DEF EndAccess, jobVars, readerVars, writeVars
<1>2. /\ pc[Dumper] = "ending" /\ pc' = [pc EXCEPT ![Dumper] = "idle"]
      /\ idx' = [idx EXCEPT ![Dumper] = -1]
      /\ accessing' = [accessing EXCEPT ![idx[Dumper]] = 0]
      /\ slot_waiter' \subseteq slot_waiter
      /\ UNCHANGED <<idxes_empty, idxes_wrote, idx_waiter, published>>
  BY <1>1, DumpEndIs
<1>3. TypeOK'
  BY <1>1, <1>2 DEF TypeInv, TypeOK, BufferTypeOK
<1>4. ThreadsOK'
  BY <1>2, Kinds DEF TypeInv, ThreadsOK, Labels
<1>5. SlotsOK'
  BY <1>2, Kinds DEF TypeInv, ThreadsOK, SlotsOK, Owns, FreeOnce, FreeOrHandedOut
<1>6. CallsOK'
  BY <1>1, <1>2, Kinds DEF TypeInv, TypeOK, ThreadsOK, CallsOK
<1> QED BY <1>1, <1>2, <1>3, <1>4, <1>5, <1>6, SameLists DEF TypeInv

\* A row that is taken for a slot is the number of one.
LEMMA DumpHashTypes ==
  ASSUME TypeInv, DumpHash PROVE TypeInv'
<1>1. /\ UNCHANGED <<idxes_empty, idxes_wrote, accessing, idx_waiter, slot_waiter, pc, idx, published>>
      /\ UNCHANGED <<data, memtable, job, rpc, rd, rec, hashed, writes, acked, ub>>
      /\ turning # NoKey /\ pc[Dumper] = "idle" /\ turning' = NoKey /\ row' = row + 1
      /\ hash' = [hash EXCEPT ![turning] = [in_file |-> TRUE, idx |-> row]]
  BY DEF DumpHash, clientVars, bufferVars, readerVars, writeVars
<1>2. /\ row \in Nat /\ Cardinality(DOMAIN job) \in Nat /\ Turns = 1 /\ Turns' = 0
      /\ row + Cardinality(DOMAIN job) + 1 <= RECORD_BUFF_SIZE /\ RECORD_BUFF_SIZE \in Nat
  BY <1>1, FS_CardinalityType, BuffSizeAssumption DEF TypeInv, CountOK, TypeOK, Turns
<1>3. row \in Slots /\ row' \in 0 .. RECORD_BUFF_SIZE
  BY <1>1, <1>2 DEF Slots
<1>4. [in_file |-> TRUE, idx |-> row] \in Indexes
  BY <1>3 DEF Indexes
<1>5. TypeOK'
  BY <1>1, <1>3, <1>4 DEF TypeInv, TypeOK, BufferTypeOK
<1>6. CountOK'
  BY <1>1, <1>2 DEF TypeInv, CountOK
<1>7. ThreadsOK' /\ SlotsOK' /\ CallsOK' /\ ListsOK'
  BY <1>1 DEF TypeInv, ThreadsOK, SlotsOK, Owns, FreeOnce, FreeOrHandedOut, CallsOK, ListsOK
<1> QED BY <1>5, <1>6, <1>7 DEF TypeInv

LEMMA EndDumpingTypes ==
  ASSUME TypeInv, EndDumping PROVE TypeInv'
<1>1. /\ UNCHANGED <<idxes_empty, idxes_wrote, accessing, idx_waiter, slot_waiter, pc, idx, published>>
      /\ UNCHANGED <<data, hash, memtable, job, turning, rpc, rd, rec, hashed, writes, acked, ub>>
      /\ row' = 0
  BY DEF EndDumping, clientVars, bufferVars, readerVars, writeVars
<1>2. row \in Nat /\ Cardinality(DOMAIN job) \in Nat /\ Turns \in Nat /\ Turns' = Turns
      /\ RECORD_BUFF_SIZE \in Nat
  BY <1>1, FS_CardinalityType, BuffSizeAssumption DEF TypeInv, CountOK, TypeOK, Turns
<1>3. TypeOK'
  BY <1>1, <1>2 DEF TypeInv, TypeOK, BufferTypeOK
<1>4. CountOK'
  BY <1>1, <1>2 DEF TypeInv, CountOK
<1>5. ThreadsOK' /\ SlotsOK' /\ CallsOK' /\ ListsOK'
  BY <1>1 DEF TypeInv, ThreadsOK, SlotsOK, Owns, FreeOnce, FreeOrHandedOut, CallsOK, ListsOK
<1> QED BY <1>3, <1>4, <1>5 DEF TypeInv

\* Nothing a reader or a wakeup does concerns slots, lists or writers.
LEMMA ReaderTypes ==
  ASSUME TypeInv,
         UNCHANGED <<idxes_empty, idxes_wrote, pc, idx, published, data, hash, memtable, job,
                     turning, row, rec, hashed, writes, acked>>,
         accessing' \in [Slots -> {0, 1}], ub' \in BOOLEAN,
         idx_waiter' \subseteq Writers, slot_waiter' \subseteq Accessors,
         rpc' \in [Readers -> {"idle", "access", "inside"}],
         rd' \in [Readers -> Reads \cup {NoRead}],
         \A r \in Readers : rpc'[r] # "idle" => rd'[r] \in Reads
  PROVE  TypeInv'
<1>1. TypeOK'
  BY DEF TypeInv, TypeOK, BufferTypeOK
<1>2. ThreadsOK' /\ SlotsOK' /\ CallsOK' /\ ListsOK' /\ CountOK'
  BY DEF TypeInv, ThreadsOK, SlotsOK, Owns, FreeOnce, FreeOrHandedOut, CallsOK, ListsOK, CountOK, Turns
<1> QED BY <1>1, <1>2 DEF TypeInv

LEMMA ReadTypes ==
  ASSUME TypeInv, NEW r \in Readers,
         ReaderStep(r) \/ (\E k \in Keys : Lookup(r, k) \/ LookupMissing(r, k))
  PROVE  TypeInv'
<1>0. /\ accessing \in [Slots -> {0, 1}] /\ ub \in BOOLEAN
      /\ idx_waiter \subseteq Writers /\ slot_waiter \subseteq Accessors
      /\ rpc \in [Readers -> {"idle", "access", "inside"}] /\ rd \in [Readers -> Reads \cup {NoRead}]
      /\ \A x \in Readers : rpc[x] # "idle" => rd[x] \in Reads
  BY DEF TypeInv, TypeOK, BufferTypeOK, CallsOK
<1>1. CASE ReadSleep(r)
  BY <1>0, <1>1, ReaderTypes DEF ReadSleep, bufferVars, jobVars, readerVars, writeVars, Accessors
<1>2. CASE ReadAccess(r)
  BY <1>0, <1>2, ReaderTypes DEF ReadAccess, LockSlot, jobVars, writeVars
<1>3. CASE ReadEnd(r)
  BY <1>0, <1>3, ReaderTypes, NotifyLemma DEF ReadEnd, UnlockSlot, jobVars, writeVars
<1>4. ASSUME NEW k \in Keys, Lookup(r, k) PROVE TypeInv'
  <2> DEFINE seen == [key |-> k, idx |-> hash[k].idx, floor |-> acked[k],
                      kept |-> ~ hash[k].in_file /\ ~ Released(k)]
  <2>1. seen \in Reads
    <3>1. hash[k] \in Indexes /\ acked[k] \in 0 .. MaxWrites
      BY <1>4 DEF Lookup, TypeInv, TypeOK
    <3>2. (~ hash[k].in_file /\ ~ Released(k)) \in BOOLEAN
      OBVIOUS
    <3> HIDE DEF Released
    <3> QED BY <3>1, <3>2 DEF Reads, Indexes
  <2>2. rd' = [rd EXCEPT ![r] = seen] /\ rpc' = [rpc EXCEPT ![r] = "access"]
    BY <1>4 DEF Lookup
  <2>3. UNCHANGED <<idxes_empty, idxes_wrote, accessing, idx_waiter, slot_waiter, pc, idx, published,
                    data, hash, memtable, job, turning, row, rec, hashed, writes, acked, ub>>
    BY <1>4 DEF Lookup, clientVars, bufferVars, jobVars, writeVars
  <2> HIDE DEF seen
  <2> QED BY <1>0, <2>1, <2>2, <2>3, ReaderTypes
<1>5. ASSUME NEW k \in Keys, LookupMissing(r, k) PROVE TypeInv'
  BY <1>0, <1>5, ReaderTypes DEF LookupMissing, clientVars, bufferVars, jobVars, readerVars, writeVars
<1> QED BY <1>1, <1>2, <1>3, <1>4, <1>5 DEF ReaderStep

LEMMA SpuriousTypes ==
  ASSUME TypeInv, NEW t, SpuriousWakeup(t) PROVE TypeInv'
<1>1. /\ UNCHANGED <<idxes_empty, idxes_wrote, accessing, pc, idx, published, data, hash, memtable,
                     job, turning, row, rpc, rd, rec, hashed, writes, acked, ub>>
      /\ idx_waiter' \subseteq idx_waiter /\ slot_waiter' \subseteq slot_waiter
  BY DEF SpuriousWakeup, bufferVars, jobVars, readerVars, writeVars
<1> QED BY <1>1, ReaderTypes DEF TypeInv, TypeOK, BufferTypeOK, CallsOK

LEMMA TypeInvStep == TypeInv /\ [Next]_vars => TypeInv'
<1> SUFFICES ASSUME TypeInv, [Next]_vars PROVE TypeInv'
  OBVIOUS
<1>1. CASE UNCHANGED vars
  BY <1>1, ReaderTypes DEF vars, clientVars, bufferVars, jobVars, readerVars, writeVars, TypeInv,
     TypeOK, BufferTypeOK, CallsOK
<1>2. CASE Next
  BY <1>2, StartWriteTypes, RequestTypes, WaitForAccessTypes, CopyTypes, WriteHashTypes,
     ListInsertTypes, SubmitDumpTypes, NextRecordTypes, ReleaseTypes, EndAccessTypes, DumpHashTypes,
     EndDumpingTypes, ReadTypes, SpuriousTypes
  DEF Next, WriterStep, DumperStep
<1> QED BY <1>1, <1>2

LEMMA TypeInvHolds == Spec => []TypeInv
BY InitTypeInv, TypeInvStep, PTL DEF Spec

\* The cache, its lists and its readers stay within their types: in particular
\* the row that read takes for a slot is always the number of one.
THEOREM TypesAreRight == Spec => []TypeOK
<1>1. TypeInv => TypeOK
  BY DEF TypeInv
<1> QED BY <1>1, TypeInvHolds, PTL

-----------------------------------------------------------------------------
(* Nobody is stranded *)

\* A step that clears a flag wakes a sleeper, if there is one: he asks again.
LEMMA WokenAsks ==
  ASSUME \A t \in slot_waiter : Asking(t), slot_waiter \subseteq Accessors,
         slot_waiter # {} => \E t \in slot_waiter : slot_waiter' = slot_waiter \ {t},
         slot_waiter' \subseteq slot_waiter,
         \A t \in slot_waiter : Asking(t)'
  PROVE  WakeInv'
<1>1. Accessors' = Accessors
  BY DEF Accessors
<1>2. CASE slot_waiter = {}
  BY <1>2 DEF WakeInv
<1>3. CASE slot_waiter # {}
  <2>1. PICK t \in slot_waiter : slot_waiter' = slot_waiter \ {t}
    BY <1>3
  <2> QED BY <1>1, <2>1 DEF WakeInv
<1> QED BY <1>2, <1>3

\* A step that leaves sleepers and flags alone, and everybody who is awake.
LEMMA StillAwake ==
  ASSUME TypeInv, WakeInv, slot_waiter' \subseteq slot_waiter,
         \A s \in Slots : accessing[s] = 1 => accessing'[s] = 1,
         \A t \in Threads :
           /\ pc[t] = "access" => pc'[t] = "access" \/ (t \notin slot_waiter /\ pc'[t] = "inside")
           /\ pc[t] \in {"inside", "ending"} => pc'[t] \in {"inside", "ending"},
         \A r \in Readers :
           /\ rpc[r] = "access" => rpc'[r] = "access" \/ (r \notin slot_waiter /\ rpc'[r] = "inside")
           /\ rpc[r] = "inside" => rpc'[r] = "inside"
  PROVE  WakeInv'
<1>1. \A t \in Accessors : /\ Asking(t) => Asking(t)' \/ (t \notin slot_waiter /\ InAccess(t)')
                           /\ InAccess(t) => InAccess(t)'
  BY Kinds DEF Accessors, Asking, InAccess
<1>2. slot_waiter \subseteq Accessors
  BY DEF TypeInv, TypeOK
<1>3. \A t \in slot_waiter' : Asking(t)'
  BY <1>1, <1>2 DEF WakeInv
<1> QED BY <1>1, <1>2, <1>3 DEF WakeInv, Accessors, Slots

LEMMA NothingMoved ==
  ASSUME TypeInv, WakeInv, slot_waiter' \subseteq slot_waiter, UNCHANGED <<pc, rpc, accessing>>
  PROVE  WakeInv'
BY StillAwake

LEMMA WakeInvStep == TypeInv /\ WakeInv /\ [Next]_vars => WakeInv'
<1> SUFFICES ASSUME TypeInv, WakeInv, [Next]_vars PROVE WakeInv'
  OBVIOUS
<1>0. /\ slot_waiter \subseteq Accessors
      /\ accessing \in [Slots -> {0, 1}]
      /\ pc \in [Threads -> Labels] /\ rpc \in [Readers -> {"idle", "access", "inside"}]
      /\ \A w \in Writers : pc[w] \in {"idle", "request", "access", "inside", "publish"}
      /\ \A t \in slot_waiter : Asking(t)
  BY DEF TypeInv, TypeOK, BufferTypeOK, ThreadsOK, WakeInv
<1>1. ASSUME NEW w \in Writers, NEW k \in Keys, StartWrite(w, k) PROVE WakeInv'
  <2>1. /\ pc[w] = "idle" /\ pc' = [pc EXCEPT ![w] = "request"] /\ rpc' = rpc
        /\ accessing' = accessing /\ slot_waiter' = slot_waiter
    BY <1>1, StartWriteIs DEF StartWrite, readerVars
  <2> QED BY <1>0, <2>1, StillAwake
<1>2. ASSUME NEW w \in Writers, RequestBuff(w) PROVE WakeInv'
  <2>1. CASE Clients!SleepForSlot(w)
    BY <1>2, <2>1, SleepForSlotIs, NothingMoved DEF RequestBuff, readerVars
  <2>2. CASE Clients!Request(w)
    <3>1. BufferTypeOK /\ FreeOnce /\ FreeOrHandedOut
      BY DEF TypeInv, TypeOK, SlotsOK
    <3>2. /\ pc[w] = "request" /\ pc' = [pc EXCEPT ![w] = "access"] /\ rpc' = rpc
          /\ accessing' = accessing /\ slot_waiter' = slot_waiter
      BY <1>2, <2>2, <3>1, RequestIs DEF RequestBuff, readerVars
    <3> QED BY <1>0, <3>2, StillAwake
  <2> QED BY <1>2, <2>1, <2>2 DEF RequestBuff
<1>3. ASSUME NEW t \in Writers \cup {Dumper}, WaitForAccess(t) PROVE WakeInv'
  <2>1. CASE Clients!SleepForAccess(t)
    <3>1. idx[t] \in Slots
      BY <2>1, SleepForAccessIs, Kinds DEF TypeInv, TypeOK, BufferTypeOK, SlotsOK, Owns
    <3>2. /\ accessing' = accessing /\ accessing[idx[t]] = 1
          /\ pc' = pc /\ rpc' = rpc /\ slot_waiter' = slot_waiter \cup {t} /\ pc[t] = "access"
      BY <1>0, <1>3, <2>1, <3>1, SleepForAccessIs DEF WaitForAccess, readerVars
    <3> QED BY <1>0, <3>1, <3>2, Kinds DEF WakeInv, Asking, InAccess, Accessors, Slots
  <2>2. CASE Clients!Access(t)
    <3>1. idx[t] \in Slots
      BY <2>2, AccessIs, Kinds DEF TypeInv, TypeOK, BufferTypeOK, SlotsOK, Owns
    <3>2. /\ accessing' = [accessing EXCEPT ![idx[t]] = 1] /\ pc' = [pc EXCEPT ![t] = "inside"]
          /\ rpc' = rpc /\ slot_waiter' = slot_waiter /\ t \notin slot_waiter /\ pc[t] = "access"
      BY <1>3, <2>2, AccessIs DEF WaitForAccess, readerVars
    <3> QED BY <1>0, <3>1, <3>2, StillAwake
  <2> QED BY <1>3, <2>1, <2>2 DEF WaitForAccess
<1>4. ASSUME NEW w \in Writers, Copy(w) PROVE WakeInv'
  BY <1>0, <1>4, EndFillIs, WokenAsks, Kinds DEF Copy, readerVars, Asking, Accessors
<1>5. ASSUME NEW w \in Writers, WriteHash(w) PROVE WakeInv'
  BY <1>5, NothingMoved DEF WriteHash, clientVars, bufferVars, readerVars
<1>6. ASSUME NEW w \in Writers, ListInsert(w) PROVE WakeInv'
  <2>1. /\ pc[w] = "publish" /\ pc' = [pc EXCEPT ![w] = "idle"] /\ rpc' = rpc
        /\ accessing' = accessing /\ slot_waiter' = slot_waiter
    BY <1>6, PublishIs DEF ListInsert, readerVars
  <2> QED BY <1>0, <2>1, StillAwake
<1>7. CASE SubmitDump
  BY <1>7, NothingMoved DEF SubmitDump, clientVars, bufferVars, readerVars
<1>8. ASSUME NEW k \in Keys, NextRecord(k) PROVE WakeInv'
  <2>1. /\ pc[Dumper] = "idle" /\ pc' = [pc EXCEPT ![Dumper] = "access"] /\ rpc' = rpc
        /\ accessing' = accessing /\ slot_waiter' = slot_waiter
    BY <1>8, StartDumpIs DEF NextRecord, readerVars
  <2> QED BY <1>0, <2>1, StillAwake
<1>9. CASE ReleaseBuff
  <2>1. BufferTypeOK /\ FreeOnce /\ FreeOrHandedOut /\ idx[Dumper] \in Slots
    BY <1>9, Kinds DEF TypeInv, TypeOK, SlotsOK, Owns, BufferTypeOK, ReleaseBuff, Clients!DumpRelease
  <2>2. /\ pc[Dumper] = "inside" /\ pc' = [pc EXCEPT ![Dumper] = "ending"] /\ rpc' = rpc
        /\ accessing' = accessing /\ slot_waiter' = slot_waiter
    BY <1>9, <2>1, DumpReleaseIs DEF ReleaseBuff
  <2> QED BY <1>0, <2>2, StillAwake
<1>10. CASE EndAccess
  <2>1. /\ pc[Dumper] = "ending" /\ pc' = [pc EXCEPT ![Dumper] = "idle"] /\ rpc' = rpc
        /\ slot_waiter' \subseteq slot_waiter
        /\ slot_waiter # {} => \E t \in slot_waiter : slot_waiter' = slot_waiter \ {t}
    BY <1>10, DumpEndIs DEF EndAccess, readerVars
  <2>2. \A t \in slot_waiter : Asking(t)'
    BY <1>0, <2>1, Kinds DEF Asking, Accessors
  <2> QED BY <1>0, <2>1, <2>2, WokenAsks
<1>11. CASE DumpHash
  BY <1>11, NothingMoved DEF DumpHash, clientVars, bufferVars, readerVars
<1>12. CASE EndDumping
  BY <1>12, NothingMoved DEF EndDumping, clientVars, bufferVars, readerVars
<1>13. ASSUME NEW r \in Readers, ReadSleep(r) PROVE WakeInv'
  <2>1. rd[r].idx \in Slots
    BY <1>13 DEF ReadSleep, TypeInv, CallsOK, Reads
  <2>2. /\ accessing' = accessing /\ accessing[rd[r].idx] = 1
        /\ pc' = pc /\ rpc' = rpc /\ slot_waiter' = slot_waiter \cup {r} /\ rpc[r] = "access"
    BY <1>0, <1>13, <2>1 DEF ReadSleep, bufferVars, readerVars, Accessible
  <2> QED BY <1>0, <2>1, <2>2, Kinds DEF WakeInv, Asking, InAccess, Accessors, Slots
<1>14. ASSUME NEW r \in Readers, ReadAccess(r) PROVE WakeInv'
  <2>1. /\ rpc[r] = "access" /\ rpc' = [rpc EXCEPT ![r] = "inside"] /\ pc' = pc /\ r \notin slot_waiter
        /\ accessing' = [accessing EXCEPT ![rd[r].idx] = 1] /\ slot_waiter' = slot_waiter
    BY <1>14 DEF ReadAccess, LockSlot
  <2> QED BY <1>0, <2>1, StillAwake
<1>15. ASSUME NEW r \in Readers, ReadEnd(r) PROVE WakeInv'
  <2>1. /\ rpc[r] = "inside" /\ rpc' = [rpc EXCEPT ![r] = "idle"] /\ pc' = pc
        /\ slot_waiter' \subseteq slot_waiter
        /\ slot_waiter # {} => \E t \in slot_waiter : slot_waiter' = slot_waiter \ {t}
    BY <1>15, NotifyLemma DEF ReadEnd
  <2>2. \A t \in slot_waiter : Asking(t)'
    BY <1>0, <2>1, Kinds DEF Asking, Accessors
  <2> QED BY <1>0, <2>1, <2>2, WokenAsks
<1>16. ASSUME NEW r \in Readers, NEW k \in Keys, Lookup(r, k) PROVE WakeInv'
  <2>1. /\ rpc[r] = "idle" /\ rpc' = [rpc EXCEPT ![r] = "access"] /\ pc' = pc
        /\ accessing' = accessing /\ slot_waiter' = slot_waiter
    BY <1>16 DEF Lookup, clientVars, bufferVars
  <2> QED BY <1>0, <2>1, StillAwake
<1>17. ASSUME NEW r \in Readers, NEW k \in Keys, LookupMissing(r, k) PROVE WakeInv'
  BY <1>17, NothingMoved DEF LookupMissing, clientVars, bufferVars, readerVars
<1>18. ASSUME NEW t, SpuriousWakeup(t) PROVE WakeInv'
  BY <1>18, NothingMoved DEF SpuriousWakeup, bufferVars, readerVars
<1>19. CASE UNCHANGED vars
  BY <1>19, NothingMoved DEF vars, clientVars, bufferVars, readerVars
<1> QED
  BY <1>1, <1>2, <1>3, <1>4, <1>5, <1>6, <1>7, <1>8, <1>9, <1>10, <1>11, <1>12, <1>13, <1>14,
     <1>15, <1>16, <1>17, <1>18, <1>19
  DEF Next, WriterStep, DumperStep, ReaderStep

\* Nobody who sleeps on a slot's flag is forgotten, although one condition
\* variable and notify_one serve every slot and readers wait for different
\* ones: unless a read has left a flag behind that nobody will clear.
THEOREM SleepersAreWoken == Spec => []NobodyStranded
<1>1. Init => WakeInv
  BY DEF Init, Clients!Init, WakeInv
<1>2. Spec => []WakeInv
  BY <1>1, TypeInvHolds, WakeInvStep, PTL DEF Spec
<1>3. TypeInv /\ WakeInv => NobodyStranded
  <2> SUFFICES ASSUME TypeInv, WakeInv, slot_waiter # {}, Stuck = {}
               PROVE  \E t \in Accessors \ slot_waiter : InAccess(t) \/ Asking(t)
    BY DEF NobodyStranded
  <2>1. CASE \E t \in Accessors \ slot_waiter : InAccess(t) \/ Asking(t)
    BY <2>1
  <2>2. ASSUME NEW s \in Slots, accessing[s] = 1
        PROVE  \E t \in Accessors \ slot_waiter : InAccess(t) \/ Asking(t)
    <3>1. PICK t \in Accessors : InAccess(t) /\ SlotOf(t) = s
      BY <2>2 DEF Stuck
    <3>2. t \notin slot_waiter
      BY <3>1 DEF WakeInv, Asking, InAccess
    <3> QED BY <3>1, <3>2
  <2> QED BY <2>1, <2>2 DEF WakeInv
<1> QED BY <1>2, <1>3, TypeInvHolds, PTL

-----------------------------------------------------------------------------
(* Reads are fresh, with one writer *)

\* What the types say of a writer and of the dumper.
LEMMA HolderTypes ==
  ASSUME TypeInv
  PROVE  /\ \A w \in Writers : pc[w] \in {"access", "inside", "publish"} =>
              /\ idx[w] \in Slots /\ idx[w] \in idxes_wrote /\ idx[w] \notin published
              /\ rec[w] \in Records
         /\ pc[Dumper] \in {"access", "inside"} => idx[Dumper] \in Slots /\ idx[Dumper] \in idxes_wrote
         /\ \A w \in Writers : /\ pc[w] \in {"access", "inside", "publish"}
                               /\ pc[Dumper] \in {"access", "inside"}
                               => idx[w] # idx[Dumper]
         /\ hashed \subseteq Writers /\ \A w \in hashed : pc[w] = "publish"
         /\ pc \in [Threads -> Labels] /\ idx \in [Threads -> Slots \cup {-1}]
         /\ published \subseteq idxes_wrote
<1>1. /\ \A t \in Threads : Owns(t) => idx[t] \in idxes_wrote \ published
      /\ \A t, u \in Threads : Owns(t) /\ Owns(u) /\ idx[t] = idx[u] => t = u
      /\ idxes_wrote \subseteq Slots
  BY DEF TypeInv, TypeOK, BufferTypeOK, SlotsOK
<1> QED BY <1>1, Kinds DEF Owns, TypeInv, TypeOK, SlotsOK, CallsOK, ThreadsOK

LEMMA NothingFreshMoved ==
  ASSUME FreshInv, UNCHANGED <<idxes_wrote, pc, idx, data, hash, memtable, job, turning, rd, rec,
                               hashed, writes, acked>>
  PROVE  FreshInv'
<1>1. FoundFresh'
  BY DEF FreshInv, FoundFresh, FoundAt, Kept, Released, Slots
<1>2. WritesOK' /\ ReadsOK'
  BY DEF FreshInv, WritesOK, ReadsOK, Slots
<1> QED BY <1>1, <1>2 DEF FreshInv

LEMMA StartWriteFresh ==
  ASSUME OneWriter, TypeInv, FreshInv, NEW w \in Writers, NEW k \in Keys, StartWrite(w, k)
  PROVE  FreshInv'
<1>1. /\ pc[w] = "idle" /\ pc' = [pc EXCEPT ![w] = "request"]
      /\ UNCHANGED <<idxes_empty, idxes_wrote, accessing, idx_waiter, slot_waiter, idx, published>>
      /\ UNCHANGED <<data, hash, memtable, job, turning, row, rpc, rd, hashed, acked, ub>>
      /\ writes' = writes + 1
      /\ rec' = [rec EXCEPT ![w] = [key |-> k, val |-> writes + 1]]
  BY StartWriteIs DEF StartWrite, jobVars, readerVars
<1>2. /\ w \notin hashed /\ hashed \subseteq Writers /\ writes \in Nat
      /\ acked \in [Keys -> 0 .. MaxWrites] /\ rec \in [Writers -> Records \cup {NoRecord}]
      /\ pc'[Dumper] = pc[Dumper] /\ \A x \in Writers : x = w
  BY <1>1, HolderTypes, Kinds DEF TypeInv, TypeOK, OneWriter
<1>3. FoundFresh'
  BY <1>1, <1>2 DEF FreshInv, FoundFresh, FoundAt, Kept, Released, Slots
<1>4. WritesOK'
  <2>1. pc'[w] = "request" /\ rec'[w].val = writes'
    BY <1>1, <1>2, HolderTypes, Kinds
  <2>2. \A x \in Keys : acked'[x] <= writes'
    <3>1. \A x \in Keys : acked[x] \in Int /\ acked[x] <= writes
      BY <1>2, CacheReadersAssumption DEF FreshInv, WritesOK
    <3> QED BY <1>1, <1>2, <3>1
  <2>3. hashed' = {}
    BY <1>1, <1>2
  <2> QED BY <1>2, <2>1, <2>2, <2>3 DEF WritesOK
<1>5. ReadsOK'
  BY <1>1, <1>2, HolderTypes, Kinds DEF FreshInv, ReadsOK
<1> QED BY <1>3, <1>4, <1>5 DEF FreshInv

LEMMA RequestFresh ==
  ASSUME OneWriter, TypeInv, FreshInv, NEW w \in Writers, RequestBuff(w)
  PROVE  FreshInv'
<1>1. UNCHANGED <<data, hash, memtable, job, turning, row, rpc, rd, rec, hashed, writes, acked, ub>>
  BY DEF RequestBuff, jobVars, readerVars, writeVars
<1>2. CASE Clients!SleepForSlot(w)
  BY <1>1, <1>2, SleepForSlotIs, NothingFreshMoved
<1>3. CASE Clients!Request(w)
  <2>0. BufferTypeOK /\ FreeOnce /\ FreeOrHandedOut
    BY DEF TypeInv, TypeOK, SlotsOK
  <2>1. pc[w] = "request" /\ pc' = [pc EXCEPT ![w] = "access"]
    BY <1>3, <2>0, RequestIs
  <2>2. PICK s \in Slots : /\ s \notin idxes_wrote /\ idxes_wrote' = idxes_wrote \cup {s}
                           /\ idx' = [idx EXCEPT ![w] = s]
    BY <1>3, <2>0, RequestIs
  <2>3. /\ w \notin hashed /\ hashed \subseteq Writers /\ \A x \in Writers : x = w
        /\ pc'[Dumper] = pc[Dumper] /\ idx'[Dumper] = idx[Dumper]
        /\ pc'[w] = "access" /\ idx'[w] = s
    BY <2>1, <2>2, HolderTypes, Kinds DEF OneWriter
  <2>4. FoundFresh'
    BY <1>1, <2>3 DEF FreshInv, FoundFresh, FoundAt, Kept, Released, Slots
  <2>5. WritesOK'
    BY <1>1, <2>1, <2>3 DEF FreshInv, WritesOK, Slots
  <2>6. ReadsOK'
    BY <1>1, <2>2, <2>3 DEF FreshInv, ReadsOK
  <2> QED BY <2>4, <2>5, <2>6 DEF FreshInv
<1> QED BY <1>2, <1>3 DEF RequestBuff

LEMMA WaitForAccessFresh ==
  ASSUME OneWriter, TypeInv, FreshInv, NEW t \in Writers \cup {Dumper}, WaitForAccess(t)
  PROVE  FreshInv'
<1>1. UNCHANGED <<data, hash, memtable, job, turning, row, rpc, rd, rec, hashed, writes, acked, ub>>
  BY DEF WaitForAccess, jobVars, readerVars, writeVars
<1>2. CASE Clients!SleepForAccess(t)
  BY <1>1, <1>2, SleepForAccessIs, NothingFreshMoved
<1>3. CASE Clients!Access(t)
  <2>1. /\ pc[t] = "access" /\ pc' = [pc EXCEPT ![t] = "inside"]
        /\ UNCHANGED <<idxes_wrote, idx, published>>
    BY <1>3, AccessIs
  <2>2. \A u \in Threads : \/ pc'[u] = pc[u]
                           \/ pc[u] = "access" /\ pc'[u] = "inside"
    BY <2>1, HolderTypes
  <2>3. FoundFresh'
    BY <1>1, <2>1, <2>2, Kinds DEF FreshInv, FoundFresh, FoundAt, Kept, Released, Slots
  <2>4. WritesOK'
    <3>1. \A w \in Writers : /\ pc'[w] = "publish" => pc[w] = "publish"
                             /\ pc'[w] # "idle" => pc[w] # "idle"
      BY <2>2, Kinds
    <3> QED BY <1>1, <2>1, <3>1 DEF FreshInv, WritesOK, Slots
  <2>5. ReadsOK'
    <3>1. \A w \in Writers : pc'[w] \in {"access", "inside"} => pc[w] \in {"access", "inside"}
      BY <2>2, Kinds
    <3> QED BY <1>1, <2>1, <3>1 DEF FreshInv, ReadsOK
  <2> QED BY <2>3, <2>4, <2>5 DEF FreshInv
<1> QED BY <1>2, <1>3 DEF WaitForAccess

\* The record goes into a slot that nobody else answers for.
LEMMA CopyFresh ==
  ASSUME OneWriter, TypeInv, FreshInv, NEW w \in Writers, Copy(w)
  PROVE  FreshInv'
<1>1. /\ UNCHANGED <<hash, memtable, job, turning, row, rpc, rd, rec, hashed, writes, acked, ub>>
      /\ data' = [data EXCEPT ![idx[w]] = rec[w]] /\ Clients!EndFill(w)
  BY DEF Copy, jobVars, readerVars, writeVars
<1>2. /\ pc[w] = "inside" /\ pc' = [pc EXCEPT ![w] = "publish"]
      /\ UNCHANGED <<idxes_wrote, idx, published>>
  BY <1>1, EndFillIs
<1>3. /\ idx[w] \in Slots /\ idx[w] \notin published /\ hashed = {} /\ data'[idx[w]] = rec[w]
      /\ pc'[w] = "publish" /\ pc'[Dumper] = pc[Dumper] /\ \A x \in Writers : x = w
      /\ pc[Dumper] \in {"access", "inside"} => idx[w] # idx[Dumper]
  BY <1>1, <1>2, HolderTypes, Kinds DEF OneWriter, TypeInv, TypeOK
<1>4. FoundFresh'
  <2> SUFFICES ASSUME NEW k \in Keys, NEW s \in Slots, FoundAt(k, s)'
               PROVE  Kept(k, s)' /\ data'[s].key = k /\ data'[s].val >= acked'[k]
    BY DEF FoundFresh, Slots
  <2>1. FoundAt(k, s)
    BY <1>1, <1>3 DEF FoundAt, Released
  <2>2. Kept(k, s) /\ data[s].key = k /\ data[s].val >= acked[k]
    BY <2>1 DEF FreshInv, FoundFresh
  <2>3. Kept(k, s)'
    BY <1>1, <1>2, <1>3, <2>2 DEF Kept
  <2>4. s # idx[w]
    BY <1>3, <2>2 DEF Kept, TypeInv, ListsOK
  <2>5. data'[s] = data[s]
    BY <1>1, <2>4 DEF TypeInv, TypeOK
  <2> QED BY <1>1, <2>2, <2>3, <2>5
<1>5. WritesOK'
  BY <1>1, <1>2, <1>3 DEF FreshInv, WritesOK, Slots
<1>6. ReadsOK'
  <2> SUFFICES ASSUME NEW r \in Readers, rd[r].kept
               PROVE  /\ rd[r].idx \in idxes_wrote /\ idx[w] # rd[r].idx
                      /\ data'[rd[r].idx].key = rd[r].key /\ data'[rd[r].idx].val >= rd[r].floor
    BY <1>1, <1>2, <1>3 DEF ReadsOK
  <2>1. /\ rd[r].idx \in idxes_wrote /\ idx[w] # rd[r].idx
        /\ data[rd[r].idx].key = rd[r].key /\ data[rd[r].idx].val >= rd[r].floor
    BY <1>2 DEF FreshInv, ReadsOK
  <2>2. data'[rd[r].idx] = data[rd[r].idx]
    BY <1>1, <2>1 DEF TypeInv, TypeOK, BufferTypeOK
  <2> QED BY <2>1, <2>2
<1> QED BY <1>4, <1>5, <1>6 DEF FreshInv

\* The index leads to a record that is in its slot already.
LEMMA WriteHashFresh ==
  ASSUME OneWriter, TypeInv, FreshInv, NEW w \in Writers, WriteHash(w)
  PROVE  FreshInv'
<1>1. /\ UNCHANGED <<idxes_empty, idxes_wrote, accessing, idx_waiter, slot_waiter, pc, idx, published>>
      /\ UNCHANGED <<data, memtable, job, turning, row, rpc, rd, rec, writes, acked, ub>>
      /\ pc[w] = "publish" /\ hashed' = hashed \cup {w}
      /\ hash' = [hash EXCEPT ![rec[w].key] = [in_file |-> FALSE, idx |-> idx[w]]]
  BY DEF WriteHash, clientVars, bufferVars, jobVars, readerVars
<1>2. /\ idx[w] \in Slots /\ rec[w].key \in Keys /\ data[idx[w]] = rec[w]
      /\ \A k \in Keys : rec[w].val >= acked[k] /\ rec[w].val \in Int
      /\ \A x \in Writers : x = w
  <2>1. rec[w] \in Records /\ idx[w] \in Slots
    BY <1>1, HolderTypes
  <2>2. data[idx[w]] = rec[w] /\ rec[w].val = writes /\ \A k \in Keys : acked[k] <= writes
    BY <1>1 DEF FreshInv, WritesOK
  <2> QED BY <2>1, <2>2, CacheReadersAssumption DEF Records, OneWriter, TypeInv, TypeOK
<1>3. \A s : [in_file |-> FALSE, idx |-> idx[w]] = [in_file |-> FALSE, idx |-> s] => idx[w] = s
  OBVIOUS
<1>4. hash'[rec[w].key] = [in_file |-> FALSE, idx |-> idx[w]]
      /\ \A k \in Keys \ {rec[w].key} : hash'[k] = hash[k]
  BY <1>1, <1>2 DEF TypeInv, TypeOK
<1>5. FoundFresh'
  <2> SUFFICES ASSUME NEW k \in Keys, NEW s \in Slots, FoundAt(k, s)'
               PROVE  Kept(k, s)' /\ data[s].key = k /\ data[s].val >= acked[k]
    BY <1>1 DEF FoundFresh, Slots
  <2>1. CASE k = rec[w].key
    <3>1. s = idx[w]
      BY <1>3, <1>4, <2>1 DEF FoundAt
    <3> QED BY <1>1, <1>2, <2>1, <3>1 DEF Kept
  <2>2. CASE k # rec[w].key
    <3>1. FoundAt(k, s)
      BY <1>1, <1>4, <2>2 DEF FoundAt, Released
    <3>2. Kept(k, s) /\ data[s].key = k /\ data[s].val >= acked[k]
      BY <3>1 DEF FreshInv, FoundFresh
    <3> QED BY <1>1, <3>2 DEF Kept
  <2> QED BY <2>1, <2>2
<1>6. WritesOK'
  <2>1. \A x \in hashed', s \in Slots :
          hash'[rec'[x].key] = [in_file |-> FALSE, idx |-> s] => idx'[x] = s
    BY <1>1, <1>2, <1>3, <1>4, HolderTypes
  <2> QED BY <1>1, <2>1 DEF FreshInv, WritesOK, Slots
<1>7. ReadsOK'
  BY <1>1 DEF FreshInv, ReadsOK
<1> QED BY <1>5, <1>6, <1>7 DEF FreshInv

\* From its writer's hands the slot goes to the lists, and the write is done.
LEMMA ListInsertFresh ==
  ASSUME OneWriter, TypeInv, FreshInv, NEW w \in Writers, ListInsert(w)
  PROVE  FreshInv'
<1>1. /\ UNCHANGED <<data, hash, job, turning, row, rpc, rd, writes, ub>>
      /\ w \in hashed /\ hashed' = hashed \ {w} /\ rec' = [rec EXCEPT ![w] = NoRecord]
      /\ memtable' = [x \in DOMAIN memtable \cup {rec[w].key} |->
                        IF x = rec[w].key THEN idx[w] ELSE memtable[x]]
      /\ acked' = [acked EXCEPT ![rec[w].key] = rec[w].val] /\ Clients!Publish(w)
  BY DEF ListInsert, readerVars
<1>2. /\ pc[w] = "publish" /\ pc' = [pc EXCEPT ![w] = "idle"]
      /\ idx' = [idx EXCEPT ![w] = -1] /\ UNCHANGED idxes_wrote
  BY <1>1, PublishIs
<1>3. /\ rec[w] \in Records /\ rec[w].key \in Keys /\ rec[w].val \in Nat
      /\ data[idx[w]] = rec[w] /\ rec[w].val = writes
      /\ \A x \in Writers : x = w
      /\ pc'[Dumper] = pc[Dumper] /\ idx'[Dumper] = idx[Dumper] /\ pc'[w] = "idle" /\ hashed' = {}
      /\ acked \in [Keys -> 0 .. MaxWrites]
  <2>1. rec[w] \in Records /\ hashed \subseteq Writers
    BY <1>2, HolderTypes
  <2>2. data[idx[w]] = rec[w] /\ rec[w].val = writes
    BY <1>2 DEF FreshInv, WritesOK
  <2> QED BY <1>1, <1>2, <2>1, <2>2, HolderTypes, Kinds, CacheReadersAssumption
          DEF Records, OneWriter, TypeInv, TypeOK
<1>4. FoundFresh'
  <2> SUFFICES ASSUME NEW k \in Keys, NEW s \in Slots, FoundAt(k, s)'
               PROVE  Kept(k, s)' /\ data[s].key = k /\ data[s].val >= acked'[k]
    BY <1>1 DEF FoundFresh, Slots
  <2>1. FoundAt(k, s)
    BY <1>1, <1>3 DEF FoundAt, Released
  <2>2. CASE k = rec[w].key
    <3>1. idx[w] = s
      BY <1>1, <2>1, <2>2 DEF FoundAt, FreshInv, WritesOK
    <3>2. memtable'[k] = s /\ k \in DOMAIN memtable'
      BY <1>1, <2>2, <3>1
    <3>3. acked'[k] = rec[w].val
      BY <1>1, <1>3, <2>2
    <3> QED BY <1>3, <2>2, <3>1, <3>2, <3>3 DEF Kept
  <2>3. CASE k # rec[w].key
    <3>1. Kept(k, s) /\ data[s].key = k /\ data[s].val >= acked[k]
      BY <2>1 DEF FreshInv, FoundFresh
    <3>2. /\ acked'[k] = acked[k] /\ k \in DOMAIN memtable' <=> k \in DOMAIN memtable
          /\ k \in DOMAIN memtable => memtable'[k] = memtable[k]
      BY <1>1, <1>3, <2>3
    <3>3. \A x \in hashed : rec[x].key # k
      BY <1>3, <2>3, HolderTypes
    <3> QED BY <1>1, <1>3, <3>1, <3>2, <3>3 DEF Kept
  <2> QED BY <2>2, <2>3
<1>5. WritesOK'
  <2>1. \A k \in Keys : acked'[k] <= writes
    BY <1>1, <1>3 DEF FreshInv, WritesOK
  <2> QED BY <1>1, <1>3, <2>1 DEF WritesOK
<1>6. ReadsOK'
  BY <1>1, <1>2, <1>3 DEF FreshInv, ReadsOK
<1> QED BY <1>4, <1>5, <1>6 DEF FreshInv

LEMMA SubmitDumpFresh ==
  ASSUME FreshInv, SubmitDump
  PROVE  FreshInv'
<1>1. /\ UNCHANGED <<idxes_empty, idxes_wrote, accessing, idx_waiter, slot_waiter, pc, idx, published>>
      /\ UNCHANGED <<data, hash, turning, row, rpc, rd, rec, hashed, writes, acked, ub>>
      /\ job = Empty /\ turning = NoKey /\ row = 0 /\ job' = memtable /\ memtable' = Empty
  BY DEF SubmitDump, clientVars, bufferVars, readerVars, writeVars
<1>2. FoundFresh'
  <2>1. \A k \in Keys, s \in Slots : Kept(k, s) => Kept(k, s)'
    BY <1>1 DEF Kept, Empty
  <2>2. \A k \in Keys, s \in Slots : FoundAt(k, s)' => FoundAt(k, s)
    BY <1>1 DEF FoundAt, Released
  <2> QED BY <1>1, <2>1, <2>2 DEF FreshInv, FoundFresh, Slots
<1>3. WritesOK' /\ ReadsOK'
  BY <1>1 DEF FreshInv, WritesOK, ReadsOK, Slots
<1> QED BY <1>2, <1>3 DEF FreshInv

LEMMA NextRecordFresh ==
  ASSUME TypeInv, FreshInv, NEW k \in Keys, NextRecord(k)
  PROVE  FreshInv'
<1>1. /\ UNCHANGED <<data, hash, memtable, row, rpc, rd, rec, hashed, writes, acked, ub>>
      /\ turning = NoKey /\ k \in DOMAIN job /\ turning' = k
      /\ job' = [x \in DOMAIN job \ {k} |-> job[x]] /\ Clients!StartDump(job[k])
  BY DEF NextRecord, readerVars, writeVars
<1>2. /\ pc[Dumper] = "idle" /\ pc' = [pc EXCEPT ![Dumper] = "access"]
      /\ idx' = [idx EXCEPT ![Dumper] = job[k]] /\ UNCHANGED idxes_wrote
  BY <1>1, StartDumpIs
<1>3. /\ pc'[Dumper] = "access" /\ idx'[Dumper] = job[k]
      /\ \A w \in Writers : pc'[w] = pc[w] /\ idx'[w] = idx[w]
      /\ hashed \subseteq Writers
  BY <1>2, HolderTypes, Kinds
<1>4. FoundFresh'
  <2>1. \A x \in Keys, s \in Slots : Kept(x, s) => Kept(x, s)'
    <3> SUFFICES ASSUME NEW x \in Keys, NEW s \in Slots, Kept(x, s) PROVE Kept(x, s)'
      OBVIOUS
    <3>1. CASE \E w \in hashed : rec[w].key = x /\ idx[w] = s
      BY <1>1, <1>3, <3>1 DEF Kept
    <3>2. CASE x \in DOMAIN memtable /\ memtable[x] = s
      BY <1>1, <3>2 DEF Kept
    <3>3. CASE x \in DOMAIN job /\ job[x] = s
      <4>1. CASE x = k
        BY <1>1, <1>3, <3>3, <4>1 DEF Kept
      <4>2. CASE x # k
        BY <1>1, <3>3, <4>2 DEF Kept
      <4> QED BY <4>1, <4>2
    <3> QED BY <1>2, <3>1, <3>2, <3>3 DEF Kept
  <2>2. \A x \in Keys, s \in Slots : FoundAt(x, s)' => FoundAt(x, s)
    BY <1>1, ListTypes DEF FoundAt, Released
  <2> QED BY <1>1, <2>1, <2>2 DEF FreshInv, FoundFresh, Slots
<1>5. WritesOK' /\ ReadsOK'
  BY <1>1, <1>2, <1>3 DEF FreshInv, WritesOK, ReadsOK, Slots
<1> QED BY <1>4, <1>5 DEF FreshInv

\* Whoever looked the slot up before it is given back has lost it.
LEMMA ReleaseFresh ==
  ASSUME TypeInv, FreshInv, ReleaseBuff
  PROVE  FreshInv'
<1>0. BufferTypeOK /\ FreeOnce /\ FreeOrHandedOut
  BY DEF TypeInv, TypeOK, SlotsOK
<1>1. /\ UNCHANGED <<data, hash, memtable, job, turning, row, rpc, rec, hashed, writes, acked, ub>>
      /\ rd' = [r \in Readers |->
                  IF rd[r].idx = idx[Dumper] THEN [rd[r] EXCEPT !.kept = FALSE] ELSE rd[r]]
      /\ Clients!DumpRelease /\ pc[Dumper] = "inside"
  BY DEF ReleaseBuff, jobVars, writeVars, Clients!DumpRelease
<1>2. idx[Dumper] \in Slots
  BY <1>1, HolderTypes
<1>3. /\ pc' = [pc EXCEPT ![Dumper] = "ending"] /\ idxes_wrote' = idxes_wrote \ {idx[Dumper]}
      /\ UNCHANGED idx
  BY <1>0, <1>1, <1>2, DumpReleaseIs
<1>4. pc'[Dumper] = "ending" /\ \A w \in Writers : pc'[w] = pc[w]
  BY <1>3, HolderTypes, Kinds
<1>5. FoundFresh'
  <2> SUFFICES ASSUME NEW k \in Keys, NEW s \in Slots, FoundAt(k, s)'
               PROVE  Kept(k, s)' /\ data[s].key = k /\ data[s].val >= acked[k]
    BY <1>1 DEF FoundFresh, Slots
  <2>1. FoundAt(k, s) /\ turning # k
    BY <1>1, <1>4 DEF FoundAt, Released
  <2>2. Kept(k, s) /\ data[s].key = k /\ data[s].val >= acked[k]
    BY <2>1 DEF FreshInv, FoundFresh
  <2> QED BY <1>1, <1>3, <2>1, <2>2 DEF Kept
<1>6. WritesOK'
  BY <1>1, <1>3, <1>4 DEF FreshInv, WritesOK, Slots
<1>7. ReadsOK'
  <2> SUFFICES ASSUME NEW r \in Readers, rd'[r].kept
               PROVE  /\ rd'[r].idx \in idxes_wrote'
                      /\ \A w \in Writers : pc'[w] \in {"access", "inside"} => idx'[w] # rd'[r].idx
                      /\ data'[rd'[r].idx].key = rd'[r].key /\ data'[rd'[r].idx].val >= rd'[r].floor
    BY DEF ReadsOK
  <2>1. rd[r].idx # idx[Dumper] /\ rd'[r] = rd[r]
    <3>1. rd[r] \in Reads \cup {NoRead}
      BY DEF TypeInv, TypeOK
    <3>2. [rd[r] EXCEPT !.kept = FALSE].kept = FALSE
      BY <3>1 DEF Reads, NoRead
    <3> QED BY <1>1, <3>2
  <2>2. /\ rd[r].idx \in idxes_wrote
        /\ \A w \in Writers : pc[w] \in {"access", "inside"} => idx[w] # rd[r].idx
        /\ data[rd[r].idx].key = rd[r].key /\ data[rd[r].idx].val >= rd[r].floor
    BY <2>1 DEF FreshInv, ReadsOK
  <2> QED BY <1>1, <1>3, <1>4, <2>1, <2>2
<1> QED BY <1>5, <1>6, <1>7 DEF FreshInv

LEMMA EndAccessFresh ==
  ASSUME TypeInv, FreshInv, EndAccess
  PROVE  FreshInv'
<1>1. /\ UNCHANGED <<data, hash, memtable, job, turning, row, rpc, rd, rec, hashed, writes, acked, ub>>
      /\ Clients!DumpEnd
  BY DEF EndAccess, jobVars, readerVars, writeVars
<1>2. /\ pc[Dumper] = "ending" /\ pc' = [pc EXCEPT ![Dumper] = "idle"]
      /\ idx' = [idx EXCEPT ![Dumper] = -1] /\ UNCHANGED idxes_wrote
  BY <1>1, DumpEndIs
<1>3. /\ pc'[Dumper] = "idle" /\ \A w \in Writers : pc'[w] = pc[w] /\ idx'[w] = idx[w]
      /\ hashed \subseteq Writers
  BY <1>2, HolderTypes, Kinds
<1>4. FoundFresh'
  <2>1. \A k \in Keys, s \in Slots : Kept(k, s) => Kept(k, s)'
    BY <1>1, <1>2, <1>3 DEF Kept
  <2>2. \A k \in Keys, s \in Slots : FoundAt(k, s)' => FoundAt(k, s)
    BY <1>1, <1>2, <1>3 DEF FoundAt, Released
  <2> QED BY <1>1, <2>1, <2>2 DEF FreshInv, FoundFresh, Slots
<1>5. WritesOK' /\ ReadsOK'
  BY <1>1, <1>2, <1>3 DEF FreshInv, WritesOK, ReadsOK, Slots
<1> QED BY <1>4, <1>5 DEF FreshInv

\* Whatever the key's index was, it is that of a row now.
LEMMA DumpHashFresh ==
  ASSUME TypeInv, FreshInv, DumpHash
  PROVE  FreshInv'
<1>1. /\ UNCHANGED <<idxes_empty, idxes_wrote, accessing, idx_waiter, slot_waiter, pc, idx, published>>
      /\ UNCHANGED <<data, memtable, job, rpc, rd, rec, hashed, writes, acked, ub>>
      /\ turning # NoKey /\ turning' = NoKey
      /\ hash' = [hash EXCEPT ![turning] = [in_file |-> TRUE, idx |-> row]]
  BY DEF DumpHash, clientVars, bufferVars, readerVars, writeVars
<1>2. \A k, s : hash'[k] = [in_file |-> FALSE, idx |-> s] /\ k \in Keys
                => k # turning /\ hash[k] = [in_file |-> FALSE, idx |-> s]
  <2> SUFFICES ASSUME NEW k \in Keys, NEW s, hash'[k] = [in_file |-> FALSE, idx |-> s]
               PROVE  k # turning /\ hash[k] = [in_file |-> FALSE, idx |-> s]
    OBVIOUS
  <2>1. hash'[k] = IF k = turning THEN [in_file |-> TRUE, idx |-> row] ELSE hash[k]
    BY <1>1 DEF TypeInv, TypeOK
  <2>2. [in_file |-> TRUE, idx |-> row] # [in_file |-> FALSE, idx |-> s]
    <3>1. [in_file |-> TRUE, idx |-> row].in_file = TRUE /\ [in_file |-> FALSE, idx |-> s].in_file = FALSE
      OBVIOUS
    <3> QED BY <3>1
  <2> QED BY <2>1, <2>2
<1>3. FoundFresh'
  <2> SUFFICES ASSUME NEW k \in Keys, NEW s \in Slots, FoundAt(k, s)'
               PROVE  Kept(k, s)' /\ data[s].key = k /\ data[s].val >= acked[k]
    BY <1>1 DEF FoundFresh, Slots
  <2>1. FoundAt(k, s) /\ turning # k
    BY <1>2 DEF FoundAt, Released
  <2>2. Kept(k, s) /\ data[s].key = k /\ data[s].val >= acked[k]
    BY <2>1 DEF FreshInv, FoundFresh
  <2> QED BY <1>1, <2>1, <2>2 DEF Kept
<1>4. WritesOK'
  <2>1. \A w \in hashed : rec[w].key \in Keys
    BY HolderTypes DEF Records
  <2> QED BY <1>1, <1>2, <2>1 DEF FreshInv, WritesOK, Slots
<1>5. ReadsOK'
  BY <1>1 DEF FreshInv, ReadsOK
<1> QED BY <1>3, <1>4, <1>5 DEF FreshInv

\* What a reader holds on to when it has looked its key up.
LEMMA LookupFresh ==
  ASSUME TypeInv, FreshInv, NEW r \in Readers, NEW k \in Keys, Lookup(r, k)
  PROVE  FreshInv'
<1> DEFINE seen == [key |-> k, idx |-> hash[k].idx, floor |-> acked[k],
                    kept |-> ~ hash[k].in_file /\ ~ Released(k)]
<1>1. /\ rd' = [rd EXCEPT ![r] = seen] /\ hash[k] # NoIndex
      /\ UNCHANGED <<idxes_empty, idxes_wrote, accessing, idx_waiter, slot_waiter, pc, idx, published,
                     data, hash, memtable, job, turning, row, rec, hashed, writes, acked, ub>>
  BY DEF Lookup, clientVars, bufferVars, jobVars, writeVars
<1>2. /\ seen.key = k /\ seen.idx = hash[k].idx /\ seen.floor = acked[k]
      /\ seen.kept <=> ~ hash[k].in_file /\ ~ Released(k)
  OBVIOUS
<1> HIDE DEF seen
<1>3. FoundFresh' /\ WritesOK'
  BY <1>1 DEF FreshInv, FoundFresh, FoundAt, Kept, Released, WritesOK, Slots
<1>4. ASSUME seen.kept
      PROVE  /\ seen.idx \in idxes_wrote
             /\ \A w \in Writers : pc[w] \in {"access", "inside"} => idx[w] # seen.idx
             /\ data[seen.idx].key = seen.key /\ data[seen.idx].val >= seen.floor
  <2> DEFINE s == hash[k].idx
  <2>1. s \in Slots /\ hash[k] = [in_file |-> FALSE, idx |-> s]
    BY <1>1, <1>2, <1>4 DEF TypeInv, TypeOK, Indexes
  <2>2. FoundAt(k, s)
    BY <1>2, <1>4, <2>1 DEF FoundAt
  <2> HIDE DEF s
  <2>3. Kept(k, s) /\ data[s].key = k /\ data[s].val >= acked[k]
    BY <2>1, <2>2 DEF FreshInv, FoundFresh
  <2>4. s \in idxes_wrote /\ \A w \in Writers : pc[w] \in {"access", "inside"} => idx[w] # s
    <3>1. CASE \E w \in hashed : idx[w] = s
      <4>1. PICK v \in hashed : idx[v] = s /\ v \in Threads /\ pc[v] = "publish"
        BY <3>1, HolderTypes, Kinds
      <4>2. \A w \in Writers : pc[w] \in {"access", "inside"} => w \in Threads /\ w # v /\ Owns(w) /\ Owns(v)
        BY <4>1, Kinds DEF Owns
      <4> QED BY <4>1, <4>2, HolderTypes DEF TypeInv, SlotsOK
    <3>2. CASE s \in published
      BY <3>2, HolderTypes
    <3>3. CASE pc[Dumper] \in {"access", "inside"} /\ idx[Dumper] = s
      BY <3>3, HolderTypes
    <3> QED BY <2>3, <3>1, <3>2, <3>3 DEF Kept, TypeInv, ListsOK
  <2> QED BY <1>2, <2>3, <2>4 DEF s
<1>5. ReadsOK'
  <2> SUFFICES ASSUME NEW x \in Readers, rd'[x].kept
               PROVE  /\ rd'[x].idx \in idxes_wrote
                      /\ \A w \in Writers : pc[w] \in {"access", "inside"} => idx[w] # rd'[x].idx
                      /\ data[rd'[x].idx].key = rd'[x].key /\ data[rd'[x].idx].val >= rd'[x].floor
    BY <1>1 DEF ReadsOK
  <2>1. rd'[x] = IF x = r THEN seen ELSE rd[x]
    BY <1>1 DEF TypeInv, TypeOK
  <2>2. CASE x = r
    <3>1. rd'[x] = seen
      BY <2>1, <2>2
    <3> QED BY <1>4, <3>1
  <2>3. CASE x # r
    <3>1. rd'[x] = rd[x]
      BY <2>1, <2>3
    <3> QED BY <3>1 DEF FreshInv, ReadsOK
  <2> QED BY <2>2, <2>3
<1> QED BY <1>3, <1>5 DEF FreshInv

LEMMA ReadEndFresh ==
  ASSUME TypeInv, FreshInv, NEW r \in Readers, ReadEnd(r)
  PROVE  FreshInv'
<1>1. /\ rd' = [rd EXCEPT ![r] = NoRead]
      /\ UNCHANGED <<idxes_wrote, pc, idx, published, data, hash, memtable, job, turning, row, rec,
                     hashed, writes, acked, ub>>
  BY DEF ReadEnd, jobVars, writeVars
<1>2. FoundFresh' /\ WritesOK'
  BY <1>1 DEF FreshInv, FoundFresh, FoundAt, Kept, Released, WritesOK, Slots
<1>3. ReadsOK'
  <2>1. \A x \in Readers : rd'[x] = rd[x] \/ ~ rd'[x].kept
    BY <1>1 DEF TypeInv, TypeOK, NoRead
  <2> QED BY <1>1, <2>1 DEF FreshInv, ReadsOK
<1> QED BY <1>2, <1>3 DEF FreshInv

LEMMA FreshInvStep == OneWriter /\ TypeInv /\ FreshInv /\ [Next]_vars => FreshInv'
<1> SUFFICES ASSUME OneWriter, TypeInv, FreshInv, [Next]_vars PROVE FreshInv'
  OBVIOUS
<1>1. CASE EndDumping
  BY <1>1, NothingFreshMoved DEF EndDumping, clientVars, bufferVars, readerVars, writeVars
<1>2. ASSUME NEW r \in Readers, ReadSleep(r) \/ ReadAccess(r) PROVE FreshInv'
  BY <1>2, NothingFreshMoved DEF ReadSleep, ReadAccess, bufferVars, jobVars, readerVars, writeVars
<1>3. ASSUME NEW r \in Readers, NEW k \in Keys, LookupMissing(r, k) PROVE FreshInv'
  BY <1>3, NothingFreshMoved DEF LookupMissing, clientVars, bufferVars, jobVars, readerVars, writeVars
<1>4. ASSUME NEW t, SpuriousWakeup(t) PROVE FreshInv'
  BY <1>4, NothingFreshMoved DEF SpuriousWakeup, bufferVars, jobVars, readerVars, writeVars
<1>5. CASE UNCHANGED vars
  BY <1>5, NothingFreshMoved DEF vars, clientVars, bufferVars, jobVars, readerVars, writeVars
<1> QED
  BY <1>1, <1>2, <1>3, <1>4, <1>5, StartWriteFresh, RequestFresh, WaitForAccessFresh, CopyFresh,
     WriteHashFresh, ListInsertFresh, SubmitDumpFresh, NextRecordFresh, ReleaseFresh, EndAccessFresh,
     DumpHashFresh, LookupFresh, ReadEndFresh
  DEF Next, WriterStep, DumperStep, ReaderStep

\* With one writing thread, a read whose slot was not given back while it read
\* returns a record of its key, no older than the last write that was done when
\* the key was looked up, and no writer is inside the slot with it: although
\* other reads clear flags, and the key is overwritten and dumped meanwhile.
THEOREM KeptReadsAreFresh == OneWriter /\ Spec => ReadsFresh
<1> SUFFICES ASSUME OneWriter PROVE Spec => ReadsFresh
  OBVIOUS
<1>1. Init => FreshInv
  <2> SUFFICES ASSUME Init PROVE FreshInv
    OBVIOUS
  <2>1. \A w \in Writers : pc[w] = "idle"
    BY Kinds DEF Init, Clients!Init
  <2>2. \A k \in Keys, s \in Slots : hash[k] # [in_file |-> FALSE, idx |-> s]
    <3>1. \A s \in Slots : s # -1
      BY BuffSizeAssumption DEF Slots
    <3>2. \A s \in Slots : [in_file |-> FALSE, idx |-> s].idx = s
      OBVIOUS
    <3>3. \A k \in Keys : hash[k].idx = -1
      BY DEF Init, NoIndex
    <3> QED BY <3>1, <3>2, <3>3
  <2>3. FoundFresh /\ ReadsOK
    BY <2>2 DEF Init, FoundFresh, FoundAt, ReadsOK, NoRead
  <2>4. WritesOK
    BY <2>1 DEF Init, WritesOK
  <2> QED BY <2>3, <2>4 DEF FreshInv
<1>2. Spec => []FreshInv
  BY <1>1, TypeInvHolds, FreshInvStep, PTL DEF Spec
<1>3. FreshInv /\ [Next]_vars =>
        [\A r \in Readers : ReadEnd(r) /\ rd[r].kept =>
           LET found == data[rd[r].idx]
           IN  /\ found.key = rd[r].key /\ found.val >= rd[r].floor
               /\ \A w \in Writers : pc[w] = "inside" => idx[w] # rd[r].idx]_vars
  BY DEF FreshInv, ReadsOK
<1> QED BY <1>2, <1>3, PTL DEF Spec, ReadsFresh
=============================================================================
