------------------------------- MODULE Buffer -------------------------------
(***************************************************************************)
(* The record cache of the engine: class Buffer of DBSystem.h.  It owns    *)
(* RECORD_BUFF_SIZE record slots.  idx_mutex guards which slots are free,  *)
(* slot_mutex guards the per-slot flag accessing[idx].                     *)
(*                                                                         *)
(* Each operator below is the effect of one critical section of the class  *)
(* that succeeds; it leaves alone the variables it does not prime and the  *)
(* modules that extend this one add who calls it, the waiting, and the     *)
(* rest of the state.                                                      *)
(***************************************************************************)
EXTENDS Integers, Sequences, SequencesExt

CONSTANT RECORD_BUFF_SIZE   \* number of slots (config.h)

ASSUME BuffSizeAssumption == RECORD_BUFF_SIZE \in Nat \ {0}

Slots == 0 .. RECORD_BUFF_SIZE - 1

VARIABLES
  idxes_empty,  \* list of the free slots, front first
  idxes_wrote,  \* the slots handed out: the list idxes_wrote and the keys of
                \* wrote_mapping, which always hold the same slots
  accessing     \* accessing[s] = 1 while somebody is inside slot s

bufferVars == <<idxes_empty, idxes_wrote, accessing>>

\* Mutant: the constructor fills the free list from 1.
BufferInitFromOne ==
  /\ idxes_empty = [i \in 1 .. RECORD_BUFF_SIZE |-> i]
  /\ idxes_wrote = {}
  /\ accessing = [s \in Slots |-> 0]

\* Buffer(): every slot is free and nobody is inside one.
BufferInit ==
  /\ idxes_empty = [i \in 1 .. RECORD_BUFF_SIZE |-> i - 1]
  /\ idxes_wrote = {}
  /\ accessing = [s \in Slots |-> 0]

\* Mutant: the slot is not popped from the free list.
RequestSlotWithoutPop(s) ==
  /\ idxes_empty # << >>
  /\ s = Last(idxes_empty)
  /\ UNCHANGED idxes_empty
  /\ idxes_wrote' = idxes_wrote \cup {s}

\* request_record_buff() after its wait: the slot comes from the back of the
\* free list.
RequestSlot(s) ==
  /\ idxes_empty # << >>
  /\ s = Last(idxes_empty)
  /\ idxes_empty' = Front(idxes_empty)
  /\ idxes_wrote' = idxes_wrote \cup {s}

\* The assertion of release_buff: the slot is one that was handed out.
Releasable(s) == s \in idxes_wrote

\* Mutant: the slot stays among those handed out.
ReleaseSlotKeepsWrote(s) ==
  /\ Releasable(s)
  /\ UNCHANGED idxes_wrote
  /\ idxes_empty' = <<s>> \o idxes_empty

\* release_buff(s): the slot goes to the front of the free list.
ReleaseSlot(s) ==
  /\ Releasable(s)
  /\ idxes_wrote' = idxes_wrote \ {s}
  /\ idxes_empty' = <<s>> \o idxes_empty

\* Mutant: no wait.
AccessibleAlways(s) == s \in Slots

\* The condition wait_for_access(s) waits for.
Accessible(s) == accessing[s] = 0

\* wait_for_access(s) after its wait, and end_access(s), which does not ask
\* who set the flag.
LockSlot(s)   == accessing' = [accessing EXCEPT ![s] = 1]
UnlockSlot(s) == accessing' = [accessing EXCEPT ![s] = 0]

BufferTypeOK ==
  /\ idxes_empty \in Seq(Slots)
  /\ idxes_wrote \in SUBSET Slots
  /\ accessing \in [Slots -> {0, 1}]

\* No slot is free twice, and the slots that are not free are those handed out.
FreeOnce ==
  \A i, j \in 1 .. Len(idxes_empty) : idxes_empty[i] = idxes_empty[j] => i = j

FreeOrHandedOut ==
  \A s \in Slots : s \in idxes_wrote <=> ~ Contains(idxes_empty, s)
=============================================================================
