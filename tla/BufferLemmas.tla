---------------------------- MODULE BufferLemmas ----------------------------
(***************************************************************************)
(* What one operation on the record cache does to its books, for every     *)
(* number of slots: shared by the proofs about the threads that use it.    *)
(***************************************************************************)
EXTENDS Buffer, SequenceTheorems, TLAPS

\* What taking the last element leaves of a list without duplicates.
LEMMA FrontLemma ==
  ASSUME NEW S, NEW q \in Seq(S), q # << >>
  PROVE  /\ Front(q) \in Seq(S)
         /\ Len(Front(q)) = Len(q) - 1
         /\ \A i \in 1 .. Len(Front(q)) : Front(q)[i] = q[i]
         /\ Last(q) \in S
<1>1. Len(q) \in Nat \ {0} /\ \A i \in 1 .. Len(q) : q[i] \in S
  BY EmptySeq, ElementOfSeq
<1>2. PICK n \in Nat : Len(q) = n + 1
  BY <1>1, Len(q) = (Len(q) - 1) + 1, Len(q) - 1 \in Nat
<1>3. /\ SubSeq(q, 1, n) \in Seq(S)
      /\ Len(SubSeq(q, 1, n)) = IF 1 <= n THEN n - 1 + 1 ELSE 0
      /\ \A i \in 1 .. n - 1 + 1 : SubSeq(q, 1, n)[i] = q[1 + i - 1]
  <2>1. \A i \in 1 .. n : q[i] \in S
    BY <1>1, <1>2
  <2> QED BY <2>1, SubSeqProperties
<1>4. Front(q) = SubSeq(q, 1, n)
  BY <1>2 DEF Front
<1>5. Len(SubSeq(q, 1, n)) = n /\ \A i \in 1 .. n : SubSeq(q, 1, n)[i] = q[i]
  BY <1>3
<1> QED BY <1>1, <1>2, <1>3, <1>4, <1>5 DEF Last

\* What putting an element in front of a list gives.
LEMMA PushFrontLemma ==
  ASSUME NEW S, NEW q \in Seq(S), NEW s \in S
  PROVE  /\ <<s>> \o q \in Seq(S)
         /\ Len(<<s>> \o q) = Len(q) + 1
         /\ (<<s>> \o q)[1] = s
         /\ \A i \in 1 .. Len(q) : (<<s>> \o q)[i + 1] = q[i]
OBVIOUS

\* request_record_buff hands out a free slot and keeps the books.
LEMMA RequestSlotLemma ==
  ASSUME idxes_empty \in Seq(Slots), idxes_wrote \in SUBSET Slots,
         FreeOnce, FreeOrHandedOut,
         NEW s \in Slots, RequestSlot(s)
  PROVE  /\ idxes_empty' \in Seq(Slots)
         /\ idxes_wrote' \in SUBSET Slots
         /\ s \notin idxes_wrote
         /\ FreeOnce' /\ FreeOrHandedOut'
<1> DEFINE q == idxes_empty
           n == Len(q)
<1>1. /\ q # << >> /\ s = q[n] /\ n \in Nat \ {0}
      /\ q' \in Seq(Slots) /\ Len(q') = n - 1
      /\ \A i \in 1 .. n - 1 : q'[i] = q[i]
  BY FrontLemma DEF RequestSlot, Last
<1>2. idxes_wrote' = idxes_wrote \cup {s}
  BY DEF RequestSlot
<1>3. s \notin idxes_wrote
  BY <1>1 DEF FreeOrHandedOut, Contains
<1>4. FreeOnce'
  BY <1>1 DEF FreeOnce
<1>5. ASSUME NEW x \in Slots
      PROVE  Contains(q', x) <=> Contains(q, x) /\ x # s
  <2>1. Contains(q', x) => Contains(q, x) /\ x # s
    BY <1>1 DEF Contains, FreeOnce
  <2>2. Contains(q, x) /\ x # s => Contains(q', x)
    BY <1>1 DEF Contains
  <2> QED BY <2>1, <2>2
<1>6. FreeOrHandedOut'
  BY <1>2, <1>5 DEF FreeOrHandedOut, Slots
<1> QED BY <1>1, <1>2, <1>3, <1>4, <1>6

\* release_buff gives back a slot and keeps the books.
LEMMA ReleaseSlotLemma ==
  ASSUME idxes_empty \in Seq(Slots), idxes_wrote \in SUBSET Slots,
         FreeOnce, FreeOrHandedOut,
         NEW s \in Slots, ReleaseSlot(s)
  PROVE  /\ idxes_empty' \in Seq(Slots) /\ idxes_empty' # << >>
         /\ idxes_wrote' = idxes_wrote \ {s}
         /\ FreeOnce' /\ FreeOrHandedOut'
<1> DEFINE q == idxes_empty
           n == Len(q)
<1>1. /\ s \in idxes_wrote /\ idxes_wrote' = idxes_wrote \ {s}
      /\ q' = <<s>> \o q
  BY DEF ReleaseSlot, Releasable
<1>2. /\ n \in Nat /\ q' \in Seq(Slots) /\ Len(q') = n + 1 /\ q'[1] = s
      /\ \A i \in 1 .. n : q'[i + 1] = q[i]
  BY <1>1, PushFrontLemma
<1>3. ~ Contains(q, s)
  BY <1>1 DEF FreeOrHandedOut
<1>4. \A i \in 2 .. n + 1 : i - 1 \in 1 .. n /\ q'[i] = q[i - 1] /\ q'[i] # s
  <2> SUFFICES ASSUME NEW i \in 2 .. n + 1
               PROVE  i - 1 \in 1 .. n /\ q'[i] = q[i - 1] /\ q'[i] # s
    OBVIOUS
  <2>1. i - 1 \in 1 .. n /\ (i - 1) + 1 = i
    BY <1>2
  <2>2. q'[i] = q[i - 1]
    BY <1>2, <2>1
  <2> QED BY <1>3, <2>1, <2>2 DEF Contains
<1>5. FreeOnce'
  <2> SUFFICES ASSUME NEW i \in 1 .. n + 1, NEW j \in 1 .. n + 1, q'[i] = q'[j]
               PROVE  i = j
    BY <1>2 DEF FreeOnce
  <2>1. CASE i = 1 \/ j = 1
    BY <1>2, <1>4, <2>1
  <2>2. CASE i # 1 /\ j # 1
    <3>1. i - 1 = j - 1
      BY <1>2, <1>4, <2>2 DEF FreeOnce
    <3> QED BY <1>2, <3>1
  <2> QED BY <2>1, <2>2
<1>6. ASSUME NEW x \in Slots
      PROVE  Contains(q', x) <=> Contains(q, x) \/ x = s
  <2>1. Contains(q', x) => Contains(q, x) \/ x = s
    <3> SUFFICES ASSUME NEW i \in 1 .. n + 1, q'[i] = x, x # s
                 PROVE  Contains(q, x)
      BY <1>2 DEF Contains
    <3> QED BY <1>2, <1>4 DEF Contains
  <2>2. Contains(q, x) => Contains(q', x)
    <3> SUFFICES ASSUME NEW i \in 1 .. n, q[i] = x
                 PROVE  Contains(q', x)
      BY DEF Contains
    <3> i + 1 \in 1 .. n + 1 BY <1>2
    <3> QED BY <1>2 DEF Contains
  <2>3. x = s => Contains(q', x)
    BY <1>2 DEF Contains
  <2> QED BY <2>1, <2>2, <2>3
<1>7. FreeOrHandedOut'
  BY <1>1, <1>6 DEF FreeOrHandedOut, Slots
<1>8. q' # << >>
  BY <1>2
<1> QED BY <1>1, <1>2, <1>5, <1>7, <1>8
=============================================================================
