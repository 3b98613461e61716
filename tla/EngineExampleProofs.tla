------------------------- MODULE EngineExampleProofs -------------------------
(***************************************************************************)
(* A write of the example engine that returned is found by later reads and *)
(* ranges, whatever fails or dies in between: for every number of          *)
(* processes, items, keys and sizes, every hash function, and whatever an  *)
(* item spells while its key is copied or cleared.                         *)
(***************************************************************************)
EXTENDS EngineExample, SequenceTheorems, FiniteSetTheorems, WellFoundedInduction, TLAPS

-----------------------------------------------------------------------------
(* The inductive invariants.                                               *)

Placing(p) == pc[p] \in {"place", "use", "locate"}
AtItem(p)  == pc[p] \in {"use", "locate"}

\* What the process between its append and its return holds.
HandOK ==
  \A p \in Procs :
    /\ Placing(p) => op[p] \in Writes
    /\ AtItem(p) => at[p] \in Items

ItemRecords == [in_use : BOOLEAN, key : Keys \cup {NoKey}, location : Locations]

TableOK ==
  /\ items \in [Items -> ItemRecords]
  /\ meta \in {"none", "short", "full", "raced"}

\* A process is at its memset as long as it has items to clear.
ClearOK ==
  /\ uncleared \in [Procs -> SUBSET Items]
  /\ \A p \in Procs : pc[p] = "clear" <=> uncleared[p] # {}

StoreOK ==
  /\ files \in Seq(Seq((1 .. MaxWrites) \X Nat))
  /\ next_location_ \in [Procs -> [file_no : Nat, offset : Nat]]
  /\ fd_ \in [Procs -> BOOLEAN]

\* The lock, and the calls of each process.
CallsOK ==
  /\ owner \in Procs \cup {NoProc}
  /\ pc \in [Procs -> Labels]
  /\ \A p \in Procs : pc[p] \in {"idle", "place", "use", "locate"} <=> owner = p
  /\ op \in [Procs -> Writes \cup {NoWrite}]
  /\ loc \in [Procs -> Locations]
  /\ at \in [Procs -> Items \cup {-1}]
  /\ blind \in [Procs -> BOOLEAN]
  /\ HandOK

GhostsOK ==
  /\ started \subseteq Writes /\ IsFiniteSet(started)
  /\ acked \in [Keys -> Writes \cup {NoWrite}]
  /\ damaged \subseteq Keys /\ stray \subseteq Keys

TypeInv == TableOK /\ StoreOK /\ CallsOK /\ ClearOK /\ GhostsOK

\* A process with a descriptor appends to a file that is there; without one, it
\* will not ask for a new file.
StoreInv ==
  \A p \in Procs :
    IF fd_[p] THEN next_location_[p].file_no < Len(files)
              ELSE next_location_[p].offset = 0

\* Writes are numbered in the order in which they start, and one that is under
\* way is the last.
CountInv ==
  /\ \A w \in started : w.id <= Cardinality(started)
  /\ \A k \in Keys : acked[k] \in started \cup {NoWrite}
  /\ \A p \in Procs : Placing(p) => op[p] \in started /\ op[p].id = Cardinality(started)

\* The search for k ends at an item that is in use for k.
Settled(k) ==
  /\ CalcIndex(k) \in Items
  /\ items[CalcIndex(k)].in_use /\ items[CalcIndex(k)].key = k

\* A key that is not damaged is spelt nowhere, or its item is found.
NamesAreFound ==
  \A i \in Items : items[i].key \in Keys \ damaged => Settled(items[i].key)

\* What the item that a process is at spells: the key of its write, if it is in
\* use for that, and otherwise a damaged key; and where the search for it ends.
ItemInHand ==
  \A p \in Procs : AtItem(p) /\ items[at[p]].key \in Keys =>
    /\ items[at[p]].key \notin stray => CalcIndex(items[at[p]].key) = at[p]
    /\ items[at[p]].key \in damaged \/ (pc[p] = "locate" /\ items[at[p]].key = op[p].key)

PlaceInv == EachKeyOnePlace /\ NamesAreFound /\ ItemInHand

\* The value of the last write is where its process believes it is, if the
\* process knows where the file ends.
WriteInHand ==
  \A p \in Procs : Placing(p) /\ ~ blind[p] =>
    Readable(loc[p]) /\ ReadAt(loc[p]) = Value(op[p])

\* A read of k finds a write of k no older than the last that returned.
KeyIsRight(k) ==
  IF Found(k)
  THEN /\ Readable(LocationOf(k))
       /\ \E w \in started : w.key = k /\ w.id >= acked[k].id /\ ReadValue(k) = Value(w)
  ELSE acked[k] = NoWrite

KeysAreRight == \A k \in Keys \ damaged : KeyIsRight(k)

ValueInv == WriteInHand /\ KeysAreRight

-----------------------------------------------------------------------------
(* The operators of the table and of the files                             *)

LEMMA MinLemma ==
  ASSUME NEW S \in SUBSET Nat, S # {}
  PROVE  Min(S) \in S /\ \A y \in S : Min(S) <= y
<1> DEFINE less == OpToRel(<, Nat)
<1>1. \E x \in S : \A y \in S : <<y, x>> \notin less
  <2> HIDE DEF less
  <2>1. IsWellFoundedOn(less, Nat)
    BY NatLessThanWellFounded DEF less
  <2> QED BY <2>1, WFMin
<1>2. \A x, y \in Nat : <<y, x>> \in less <=> y < x
  BY DEF OpToRel
<1> HIDE DEF less
<1>3. \E x \in S : \A y \in S : x <= y
  <2>1. PICK x \in S : \A y \in S : <<y, x>> \notin less
    BY <1>1
  <2>2. \A y \in S : ~ (y < x)
    BY <1>2, <2>1, Zenon
  <2>3. x \in Nat /\ \A y \in S : y \in Nat
    OBVIOUS
  <2>4. \A y \in S : x <= y
    BY <2>2, <2>3
  <2> QED BY <2>1, <2>4
<1> QED BY <1>3 DEF Min

LEMMA DoorIsItem ==
  ASSUME NEW k \in Keys, NEW j \in Items
  PROVE  Door(k, j) \in Items
<1>1. StrHash(k) + j \in Nat /\ kMaxDoorCnt \in Nat \ {0}
  BY DoorPlateAssumption DEF Items
<1> QED BY <1>1 DEF Door, Items

\* What a search returns is an item it may stop at.
LEMMA SearchStops ==
  ASSUME NEW k \in Keys
  PROVE  \/ CalcIndex(k) = -1
         \/ CalcIndex(k) \in Items /\ ItemTryPlace(CalcIndex(k), k)
<1> DEFINE tries == {j \in Items : ItemTryPlace(Door(k, j), k)}
<1>1. CASE tries = {}
  BY <1>1 DEF CalcIndex
<1>2. CASE tries # {}
  <2>1. CalcIndex(k) = Door(k, Min(tries))
    BY <1>2 DEF CalcIndex
  <2>2. tries \in SUBSET Nat
    BY DEF Items
  <2>3. Min(tries) \in tries
    BY <1>2, <2>2, MinLemma
  <2> QED BY <2>1, <2>3, DoorIsItem
<1> QED BY <1>1, <1>2

\* So it is in the next state.
LEMMA SearchEndsNext ==
  ASSUME NEW k \in Keys
  PROVE  CalcIndex(k)' = -1 \/ CalcIndex(k)' \in Items
<1> DEFINE tries == {j \in Items : ItemTryPlace(Door(k, j), k)'}
<1>1. CASE tries = {}
  BY <1>1 DEF CalcIndex
<1>2. CASE tries # {}
  <2>1. CalcIndex(k)' = Door(k, Min(tries))
    BY <1>2 DEF CalcIndex
  <2>2. tries \in SUBSET Nat
    BY DEF Items
  <2>3. Min(tries) \in tries
    BY <1>2, <2>2, MinLemma
  <2> QED BY <2>1, <2>3, DoorIsItem
<1> QED BY <1>1, <1>2

\* A search depends on no more than where it may stop.
LEMMA SameSearch ==
  ASSUME NEW k \in Keys,
         \A i \in Items : ItemTryPlace(i, k)' <=> ItemTryPlace(i, k)
  PROVE  CalcIndex(k)' = CalcIndex(k)
<1> DEFINE tries == {j \in Items : ItemTryPlace(Door(k, j), k)}
<1>1. tries' = tries
  BY DoorIsItem
<1> QED BY <1>1 DEF CalcIndex

\* An item the search does not end at may be taken away from it.
LEMMA SearchPasses ==
  ASSUME NEW k \in Keys, NEW i \in Items, CalcIndex(k) # i,
         ~ ItemTryPlace(i, k)',
         \A j \in Items : j # i => (ItemTryPlace(j, k)' <=> ItemTryPlace(j, k))
  PROVE  CalcIndex(k)' = CalcIndex(k)
<1> DEFINE tries == {j \in Items : ItemTryPlace(Door(k, j), k)}
           left  == tries'
<1>0. \A j \in Items : Door(k, j) \in Items
  BY DoorIsItem
<1>1. left = {j \in tries : Door(k, j) # i}
  BY <1>0
<1>2. CASE tries = {}
  BY <1>1, <1>2 DEF CalcIndex
<1>3. CASE tries # {}
  <2>1. CalcIndex(k) = Door(k, Min(tries))
    BY <1>3 DEF CalcIndex
  <2>2. tries \in SUBSET Nat /\ left \in SUBSET Nat
    BY <1>1 DEF Items
  <2> HIDE DEF tries, left
  <2>3. Min(tries) \in tries /\ \A y \in tries : Min(tries) <= y
    BY <1>3, <2>2, MinLemma
  <2>4. Min(tries) \in left
    BY <1>1, <2>1, <2>3
  <2>5. Min(left) \in left /\ \A y \in left : Min(left) <= y
    BY <2>2, <2>4, MinLemma
  <2>6. Min(left) \in tries
    BY <1>1, <2>5
  <2>7. Min(left) \in Nat /\ Min(tries) \in Nat /\ Min(tries) <= Min(left) /\ Min(left) <= Min(tries)
    BY <2>2, <2>3, <2>4, <2>5, <2>6
  <2>8. Min(left) = Min(tries)
    BY <2>7
  <2>9. CalcIndex(k)' = Door(k, Min(left))
    <3>1. tries' # {}
      BY <2>4 DEF left
    <3> QED BY <3>1 DEF CalcIndex, left, tries
  <2> QED BY <2>1, <2>8, <2>9
<1> QED BY <1>2, <1>3

\* An item that a search comes to, if to any, after the one where it ends does
\* not matter to it.
LEMMA SearchEndsBefore ==
  ASSUME NEW k \in Keys, NEW i \in Items, ~ Comes(k, i),
         \A j \in Items : j # i => (ItemTryPlace(j, k)' <=> ItemTryPlace(j, k))
  PROVE  CalcIndex(k)' = CalcIndex(k)
<1> DEFINE tries == {j \in Items : ItemTryPlace(Door(k, j), k)}
           left  == tries'
<1>0. \A j \in Items : Door(k, j) \in Items
  BY DoorIsItem
<1>1. ASSUME NEW j \in Items, Door(k, j) = i
      PROVE  \E h \in tries : h < j
  <2>1. PICK h \in 0 .. j - 1 : ItemTryPlace(Door(k, h), k)
    BY <1>1 DEF Comes
  <2>2. h \in Items /\ h < j
    BY DoorPlateAssumption DEF Items
  <2> QED BY <2>1, <2>2
<1>2. \A j \in Items : Door(k, j) # i => (j \in left <=> j \in tries)
  BY <1>0
<1>3. CASE tries = {}
  <2>1. left = {}
    <3>1. \A j \in Items : Door(k, j) # i
      BY <1>1, <1>3
    <3> QED BY <1>2, <1>3, <3>1
  <2> QED BY <1>3, <2>1 DEF CalcIndex
<1>4. CASE tries # {}
  <2>1. tries \in SUBSET Nat /\ left \in SUBSET Nat /\ tries \subseteq Items /\ left \subseteq Items
    BY DEF Items
  <2>2. CalcIndex(k) = Door(k, Min(tries))
    BY <1>4 DEF CalcIndex
  <2> HIDE DEF tries, left
  <2>3. Min(tries) \in tries /\ \A y \in tries : Min(tries) <= y
    BY <1>4, <2>1, MinLemma
  <2>4. Min(tries) \in left
    <3>1. Door(k, Min(tries)) # i
      <4>1. SUFFICES ASSUME Door(k, Min(tries)) = i PROVE FALSE
        OBVIOUS
      <4>2. PICK h \in tries : h < Min(tries)
        BY <1>1, <2>1, <2>3, <4>1
      <4>3. h \in Nat /\ Min(tries) \in Nat /\ Min(tries) <= h
        BY <2>1, <2>3
      <4> QED BY <4>2, <4>3
    <3> QED BY <1>2, <2>1, <2>3, <3>1
  <2>5. Min(left) \in left /\ \A y \in left : Min(left) <= y
    BY <2>1, <2>4, MinLemma
  <2>6. Min(left) \in tries
    <3>1. CASE Door(k, Min(left)) = i
      <4>1. PICK h \in tries : h < Min(left)
        BY <1>1, <2>1, <2>5, <3>1
      <4>2. Min(tries) <= h /\ Min(left) <= Min(tries)
        BY <2>3, <2>4, <2>5
      <4>3. h \in Nat /\ Min(tries) \in Nat /\ Min(left) \in Nat
        BY <2>1, <2>3, <2>5
      <4> QED BY <4>1, <4>2, <4>3
    <3>2. CASE Door(k, Min(left)) # i
      BY <1>2, <2>1, <2>5, <3>2
    <3> QED BY <3>1, <3>2
  <2>7. Min(left) \in Nat /\ Min(tries) \in Nat /\ Min(tries) <= Min(left) /\ Min(left) <= Min(tries)
    BY <2>1, <2>3, <2>4, <2>5, <2>6
  <2>8. Min(left) = Min(tries)
    BY <2>7
  <2>9. CalcIndex(k)' = Door(k, Min(left))
    <3>1. tries' # {}
      BY <2>4 DEF left
    <3> QED BY <3>1 DEF CalcIndex, left, tries
  <2> QED BY <2>2, <2>8, <2>9
<1> QED BY <1>3, <1>4

\* A search comes to the item where it ends.
LEMMA SearchComes ==
  ASSUME NEW k \in Keys, CalcIndex(k) \in Items
  PROVE  Comes(k, CalcIndex(k))
<1> DEFINE tries == {j \in Items : ItemTryPlace(Door(k, j), k)}
<1>1. tries # {}
  BY DoorPlateAssumption DEF CalcIndex, Items
<1>2. CalcIndex(k) = Door(k, Min(tries))
  BY <1>1 DEF CalcIndex
<1>3. tries \in SUBSET Nat /\ tries \subseteq Items
  BY DEF Items
<1>4. Min(tries) \in tries /\ \A y \in tries : Min(tries) <= y
  BY <1>1, <1>3, MinLemma
<1>5. PICK m \in Items : m = Min(tries)
  BY <1>3, <1>4
<1>6. ASSUME NEW h \in 0 .. m - 1 PROVE ~ ItemTryPlace(Door(k, h), k)
  <2>1. h \in Items /\ h < m /\ m \in Nat /\ h \in Nat
    BY DoorPlateAssumption DEF Items
  <2>2. h \notin tries
    <3>1. ASSUME h \in tries PROVE FALSE
      <4>1. m <= h
        BY <1>4, <1>5, <3>1
      <4> QED BY <2>1, <4>1
    <3> QED BY <3>1
  <2> QED BY <2>1, <2>2
<1>7. Door(k, m) = CalcIndex(k)
  BY <1>2, <1>5
<1> HIDE DEF tries
<1> QED BY <1>6, <1>7 DEF Comes

-----------------------------------------------------------------------------
Cells == (1 .. MaxWrites) \X Nat

\* Files are only appended to.
Grows(fs, gs) ==
  /\ Len(fs) <= Len(gs)
  /\ \A n \in 1 .. Len(fs) :
       /\ Len(fs[n]) <= Len(gs[n])
       /\ \A i \in 1 .. Len(fs[n]) : gs[n][i] = fs[n][i]

LEMMA GrowsTransitive ==
  ASSUME NEW fs \in Seq(Seq(Cells)), NEW gs \in Seq(Seq(Cells)), NEW hs \in Seq(Seq(Cells)),
         Grows(fs, gs), Grows(gs, hs)
  PROVE  Grows(fs, hs)
<1>1. Len(fs) \in Nat /\ Len(gs) \in Nat /\ Len(hs) \in Nat
  BY LenProperties
<1>2. Len(fs) <= Len(gs) /\ Len(gs) <= Len(hs)
  BY DEF Grows
<1>3. ASSUME NEW n \in 1 .. Len(fs)
      PROVE  /\ Len(fs[n]) <= Len(hs[n])
             /\ \A i \in 1 .. Len(fs[n]) : hs[n][i] = fs[n][i]
  <2>1. n \in 1 .. Len(gs) /\ n \in 1 .. Len(hs)
    BY <1>1, <1>2
  <2>2. fs[n] \in Seq(Cells) /\ gs[n] \in Seq(Cells) /\ hs[n] \in Seq(Cells)
    BY <2>1, ElementOfSeq
  <2>3. Len(fs[n]) \in Nat /\ Len(gs[n]) \in Nat /\ Len(hs[n]) \in Nat
    BY <2>2, LenProperties
  <2>4. /\ Len(fs[n]) <= Len(gs[n]) /\ Len(gs[n]) <= Len(hs[n])
        /\ \A i \in 1 .. Len(fs[n]) : gs[n][i] = fs[n][i]
        /\ \A i \in 1 .. Len(gs[n]) : hs[n][i] = gs[n][i]
    BY <2>1 DEF Grows
  <2>5. Len(fs[n]) <= Len(hs[n])
    BY <2>3, <2>4
  <2>6. ASSUME NEW i \in 1 .. Len(fs[n]) PROVE hs[n][i] = fs[n][i]
    <3>1. i \in 1 .. Len(gs[n])
      BY <2>3, <2>4
    <3> QED BY <2>4, <3>1
  <2> QED BY <2>5, <2>6
<1> QED BY <1>1, <1>2, <1>3 DEF Grows

\* What could be read once stays as it was.
LEMMA ReadsStay ==
  ASSUME files \in Seq(Seq(Cells)), files' \in Seq(Seq(Cells)), Grows(files, files'),
         NEW l \in Locations, Readable(l)
  PROVE  Readable(l)' /\ ReadAt(l)' = ReadAt(l)
<1> DEFINE n == l.file_no + 1
           f == files[n]
           g == files'[n]
<1>1. /\ l.file_no \in Nat /\ l.offset \in Nat /\ l.len \in Nat
      /\ Len(files) \in Nat /\ Len(files') \in Nat
  BY LenProperties DEF Locations
<1>2. l.file_no < Len(files) /\ l.offset + l.len <= Len(f)
  BY DEF Readable
<1>3. n \in 1 .. Len(files) /\ n \in 1 .. Len(files') /\ l.file_no < Len(files')
  BY <1>1, <1>2 DEF Grows
<1>4. f \in Seq(Cells) /\ g \in Seq(Cells)
  BY <1>3, ElementOfSeq
<1>5. Len(f) \in Nat /\ Len(g) \in Nat /\ Len(f) <= Len(g)
      /\ \A i \in 1 .. Len(f) : g[i] = f[i]
  BY <1>3, <1>4, LenProperties DEF Grows
<1> HIDE DEF n, f, g
<1>6. SubSeq(g, l.offset + 1, l.offset + l.len) = SubSeq(f, l.offset + 1, l.offset + l.len)
  <2> DEFINE a == l.offset + 1
             b == l.offset + l.len
  <2>1. /\ a \in 1 .. Len(f) + 1 /\ b \in a - 1 .. Len(f)
        /\ a \in 1 .. Len(g) + 1 /\ b \in a - 1 .. Len(g)
    BY <1>1, <1>2, <1>5
  <2>2. \A i \in 1 .. b - a + 1 : a + i - 1 \in 1 .. Len(f)
    BY <1>1, <1>2, <1>5
  <2> HIDE DEF a, b
  <2>3. /\ SubSeq(f, a, b) \in Seq(Cells) /\ SubSeq(g, a, b) \in Seq(Cells)
        /\ Len(SubSeq(f, a, b)) = IF a <= b THEN b - a + 1 ELSE 0
        /\ Len(SubSeq(g, a, b)) = IF a <= b THEN b - a + 1 ELSE 0
        /\ \A i \in 1 .. b - a + 1 : SubSeq(f, a, b)[i] = f[a + i - 1]
        /\ \A i \in 1 .. b - a + 1 : SubSeq(g, a, b)[i] = g[a + i - 1]
    BY <1>4, <2>1, SubSeqProperties
  <2>4. \A i \in 1 .. Len(SubSeq(f, a, b)) : SubSeq(g, a, b)[i] = SubSeq(f, a, b)[i]
    <3>1. a \in Int /\ b \in Int
      BY <1>1 DEF a, b
    <3>2. ASSUME NEW i \in 1 .. Len(SubSeq(f, a, b)) PROVE i \in 1 .. b - a + 1
      BY <2>3, <3>1
    <3>3. ASSUME NEW i \in 1 .. b - a + 1 PROVE SubSeq(g, a, b)[i] = SubSeq(f, a, b)[i]
      BY <2>2, <2>3, <1>5
    <3> QED BY <3>2, <3>3
  <2> QED BY <2>3, <2>4, SeqEqual DEF a, b
<1>7. ReadAt(l)' = ReadAt(l)
  BY <1>6 DEF ReadAt, n, f, g
<1>8. l.offset + l.len <= Len(g)
  BY <1>1, <1>2, <1>5
<1> QED BY <1>3, <1>7, <1>8 DEF Readable, n, g

LEMMA FileAppendLemma ==
  ASSUME NEW fs \in Seq(Seq(Cells)), NEW n \in Nat, n < Len(fs), NEW cells \in Seq(Cells)
  PROVE  /\ FileAppend(fs, n, cells) \in Seq(Seq(Cells))
         /\ Grows(fs, FileAppend(fs, n, cells))
         /\ Len(FileAppend(fs, n, cells)) = Len(fs)
         /\ FileAppend(fs, n, cells)[n + 1] = fs[n + 1] \o cells
<1>1. Len(fs) \in Nat /\ n + 1 \in 1 .. Len(fs) /\ DOMAIN fs = 1 .. Len(fs)
  BY LenProperties
<1>2. fs[n + 1] \in Seq(Cells)
  BY <1>1, ElementOfSeq
<1>3. /\ fs[n + 1] \o cells \in Seq(Cells)
      /\ Len(fs[n + 1] \o cells) = Len(fs[n + 1]) + Len(cells)
      /\ \A i \in 1 .. Len(fs[n + 1]) : (fs[n + 1] \o cells)[i] = fs[n + 1][i]
      /\ Len(fs[n + 1]) \in Nat /\ Len(cells) \in Nat
  <2>1. \A i \in 1 .. Len(fs[n + 1]) + Len(cells) :
          (fs[n + 1] \o cells)[i] = IF i <= Len(fs[n + 1]) THEN fs[n + 1][i]
                                    ELSE cells[i - Len(fs[n + 1])]
    BY <1>2, ConcatProperties
  <2>2. /\ fs[n + 1] \o cells \in Seq(Cells)
        /\ Len(fs[n + 1] \o cells) = Len(fs[n + 1]) + Len(cells)
        /\ Len(fs[n + 1]) \in Nat /\ Len(cells) \in Nat
    BY <1>2, ConcatProperties, LenProperties
  <2> QED BY <2>1, <2>2
<1> DEFINE x == fs[n + 1] \o cells
           gs == [fs EXCEPT ![n + 1] = x]
<1>4. FileAppend(fs, n, cells) = gs
  BY DEF FileAppend
<1> HIDE DEF x
<1>5. gs \in Seq(Seq(Cells)) /\ Len(gs) = Len(fs) /\ gs[n + 1] = x
      /\ \A m \in 1 .. Len(fs) : m # n + 1 => gs[m] = fs[m]
  BY <1>1, <1>3, ExceptSeq DEF x
<1> HIDE DEF gs
<1>6. \A m \in 1 .. Len(fs) : m # n + 1 => Len(fs[m]) \in Nat
  BY ElementOfSeq, LenProperties
<1>7. Grows(fs, gs)
  <2>1. ASSUME NEW m \in 1 .. Len(fs)
        PROVE  Len(fs[m]) <= Len(gs[m]) /\ \A i \in 1 .. Len(fs[m]) : gs[m][i] = fs[m][i]
    <3>1. CASE m = n + 1
      BY <1>3, <1>5, <3>1 DEF x
    <3>2. CASE m # n + 1
      BY <1>5, <1>6, <3>2
    <3> QED BY <3>1, <3>2
  <2> QED BY <1>1, <1>5, <2>1 DEF Grows
<1> QED BY <1>4, <1>5, <1>7 DEF x

LEMMA ValueLemma ==
  ASSUME NEW w \in Writes
  PROVE  /\ Value(w) \in Seq(Cells) /\ Len(Value(w)) = w.size /\ w.size \in Nat \ {0}
         /\ \A n \in 0 .. w.size - 1 : SubSeq(Value(w), 1, n) \in Seq(Cells)
<1>1. w.size \in Nat \ {0} /\ w.id \in 1 .. MaxWrites
  <2>1. w.size \in Sizes /\ w.id \in 1 .. MaxWrites
    BY DEF Writes
  <2>2. w.size \in 1 .. kSingleFileSize
    BY <2>1, EngineExampleAssumption
  <2> QED BY <2>1, <2>2, DataStoreAssumption
<1>2. Value(w) \in Seq(Cells) /\ Len(Value(w)) = w.size
  BY <1>1 DEF Value, Cells
<1>3. ASSUME NEW n \in 0 .. w.size - 1 PROVE SubSeq(Value(w), 1, n) \in Seq(Cells)
  BY <1>1, <1>2, SubSeqProperties
<1> QED BY <1>1, <1>2, <1>3

\* What was appended where the file ended is read there.
LEMMA AppendedIsRead ==
  ASSUME NEW f \in Seq(Cells), NEW w \in Writes
  PROVE  SubSeq(f \o Value(w), Len(f) + 1, Len(f) + w.size) = Value(w)
<1> DEFINE v == Value(w)
<1>1. v \in Seq(Cells) /\ Len(v) = w.size /\ w.size \in Nat \ {0} /\ Len(f) \in Nat
  BY ValueLemma, LenProperties
<1> HIDE DEF v
<1>2. SubSeq(f \o v, Len(f) + 1, Len(f) + w.size)
        = SubSeq(v, (Len(f) + 1) - Len(f), (Len(f) + w.size) - Len(f))
  <2>1. Len(f) + 1 \in Len(f) + 1 .. Len(f) + Len(v)
        /\ Len(f) + w.size \in Len(f) + 1 .. Len(f) + Len(v)
    BY <1>1
  <2> QED BY <1>1, <2>1, SubSeqOfConcat2
<1>3. (Len(f) + 1) - Len(f) = 1 /\ (Len(f) + w.size) - Len(f) = Len(v)
  BY <1>1
<1>4. SubSeq(v, 1, Len(v)) = v
  BY <1>1, SubSeqFull
<1> QED BY <1>2, <1>3, <1>4 DEF v

-----------------------------------------------------------------------------
(* Types                                                                   *)

LEMMA InitTypes == Init => TypeInv /\ StoreInv
<1> SUFFICES ASSUME Init PROVE TypeInv /\ StoreInv
  OBVIOUS
<1> USE DataStoreAssumption, DoorPlateAssumption, EngineExampleAssumption
<1>1. NoLocation \in Locations /\ Start \in [file_no : Nat, offset : Nat] /\ Start.offset = 0
  BY DEF NoLocation, Location, Locations, Start
<1>2. TableOK
  BY <1>1 DEF Init, TableOK, ItemRecords, ClearedItems, EmptyItem
<1>3. StoreOK /\ StoreInv
  BY <1>1 DEF Init, StoreOK, StoreInv
<1>4. CallsOK
  BY <1>1 DEF Init, CallsOK, HandOK, Placing, AtItem, Labels
<1>5. GhostsOK
  BY FS_EmptySet DEF Init, GhostsOK
<1>6. ClearOK
  BY DEF Init, ClearOK
<1> QED BY <1>2, <1>3, <1>4, <1>5, <1>6 DEF TypeInv

\* The calls, when the process that is at none moves on.
LEMMA OpenerMoves ==
  ASSUME CallsOK, UNCHANGED <<owner, callVars>>, NEW p \in Procs,
         NEW l \in Labels, pc' = [pc EXCEPT ![p] = l],
         pc[p] \notin {"idle", "place", "use", "locate"},
         l \notin {"idle", "place", "use", "locate"}
  PROVE  CallsOK'
<1>1. op' = op /\ loc' = loc /\ at' = at /\ blind' = blind /\ owner' = owner
  BY DEF callVars
<1> QED BY <1>1 DEF CallsOK, HandOK, Placing, AtItem

\* Exit leaves no call behind, and the lock with nobody or with another.
LEMMA ExitCalls ==
  ASSUME CallsOK, NEW p \in Procs, Exit(p)
  PROVE  CallsOK'
<1>1. /\ pc' = [pc EXCEPT ![p] = "closed"]
      /\ op' = [op EXCEPT ![p] = NoWrite]
      /\ loc' = [loc EXCEPT ![p] = NoLocation]
      /\ at' = [at EXCEPT ![p] = -1]
      /\ blind' = [blind EXCEPT ![p] = FALSE]
      /\ owner' = IF owner = p THEN NoProc ELSE owner
  BY DEF Exit, Goto, Forget, UnlockFile
<1>2. NoLocation \in Locations
  BY DEF NoLocation, Location, Locations
<1>3. /\ owner' \in Procs \cup {NoProc} /\ pc' \in [Procs -> Labels]
      /\ op' \in [Procs -> Writes \cup {NoWrite}] /\ loc' \in [Procs -> Locations]
      /\ at' \in [Procs -> Items \cup {-1}] /\ blind' \in [Procs -> BOOLEAN]
  BY <1>1, <1>2 DEF CallsOK, Labels
<1>4. \A q \in Procs : pc'[q] \in {"idle", "place", "use", "locate"} <=> owner' = q
  BY <1>1, EngineExampleAssumption DEF CallsOK
<1>5. HandOK'
  BY <1>1 DEF CallsOK, HandOK, Placing, AtItem
<1> QED BY <1>3, <1>4, <1>5 DEF CallsOK

LEMMA ExitStore ==
  ASSUME StoreOK, StoreInv, NEW p \in Procs, Exit(p),
         files' \in Seq(Seq(Cells)), Grows(files, files')
  PROVE  StoreOK' /\ StoreInv'
<1>1. /\ fd_' = [fd_ EXCEPT ![p] = FALSE]
      /\ next_location_' = [next_location_ EXCEPT ![p] = Start]
  BY DEF Exit
<1>2. Start \in [file_no : Nat, offset : Nat] /\ Start.offset = 0
  BY DEF Start
<1>3. StoreOK'
  BY <1>1, <1>2 DEF StoreOK, Cells
<1>4. Len(files) \in Nat /\ Len(files') \in Nat /\ Len(files) <= Len(files')
  BY LenProperties DEF StoreOK, Grows
<1>5. StoreInv'
  <2>1. ASSUME NEW q \in Procs
        PROVE  IF fd_'[q] THEN next_location_'[q].file_no < Len(files')
                          ELSE next_location_'[q].offset = 0
    <3>1. CASE q = p
      BY <1>1, <1>2, <3>1 DEF StoreOK
    <3>2. CASE q # p
      <4>1. fd_'[q] = fd_[q] /\ next_location_'[q] = next_location_[q]
        BY <1>1, <3>2 DEF StoreOK
      <4>2. next_location_[q].file_no \in Nat
        BY DEF StoreOK
      <4> QED BY <1>4, <4>1, <4>2 DEF StoreInv
    <3> QED BY <3>1, <3>2
  <2> QED BY <2>1 DEF StoreInv
<1> QED BY <1>3, <1>5

LEMMA GrowsReflexive ==
  ASSUME NEW fs \in Seq(Seq(Cells))
  PROVE  Grows(fs, fs)
<1>1. Len(fs) \in Nat /\ \A n \in 1 .. Len(fs) : Len(fs[n]) \in Nat
  BY LenProperties, ElementOfSeq
<1> QED BY <1>1 DEF Grows

\* Where a value goes, and that there is a file for it.
LEMMA TargetLemma ==
  ASSUME StoreOK, StoreInv, NEW p \in Procs, NEW size \in Sizes
  PROVE  /\ Target(p, size) \in [file_no : Nat, offset : Nat]
         /\ Opened(p, size) \in Seq(Seq(Cells))
         /\ Grows(files, Opened(p, size))
         /\ Len(Opened(p, size)) \in Nat
         /\ HasFile(p, size) => Target(p, size).file_no < Len(Opened(p, size))
         /\ ~ NeedsNewFile(p, size) => Target(p, size) = next_location_[p]
<1> DEFINE n == next_location_[p].file_no
           o == next_location_[p].offset
<1>1. /\ n \in Nat /\ o \in Nat /\ files \in Seq(Seq(Cells)) /\ Len(files) \in Nat
      /\ next_location_[p] \in [file_no : Nat, offset : Nat] /\ fd_[p] \in BOOLEAN
  BY LenProperties DEF StoreOK, Cells
<1>2. size \in Nat /\ size <= kSingleFileSize /\ kSingleFileSize \in Nat
  BY EngineExampleAssumption, DataStoreAssumption
<1>3. << >> \in Seq(Cells)
  OBVIOUS
<1>4. /\ Append(files, << >>) \in Seq(Seq(Cells))
      /\ Len(Append(files, << >>)) = Len(files) + 1
      /\ \A i \in 1 .. Len(files) : Append(files, << >>)[i] = files[i]
  BY <1>1, <1>3, AppendProperties
<1>5. Grows(files, Append(files, << >>)) /\ Grows(files, files)
  <2>1. \A m \in 1 .. Len(files) : Len(files[m]) \in Nat
    BY <1>1, LenProperties, ElementOfSeq
  <2> QED BY <1>1, <1>4, <2>1, GrowsReflexive DEF Grows
<1>6. Opened(p, size) \in {files, Append(files, << >>)}
  BY DEF Opened
<1>7. CASE NeedsNewFile(p, size)
  <2>1. Target(p, size) = [file_no |-> n + 1, offset |-> 0]
    BY <1>7 DEF Target
  <2>2. o + size > kSingleFileSize
    BY <1>7 DEF NeedsNewFile
  <2>3. o # 0
    BY <1>1, <1>2, <2>2
  <2>4. fd_[p]
    BY <1>1, <2>3 DEF StoreInv
  <2>5. n < Len(files)
    BY <2>4 DEF StoreInv
  <2>6. n + 1 < Len(Opened(p, size))
    BY <1>1, <1>4, <1>7, <2>1, <2>5 DEF Opened
  <2>7. Len(Opened(p, size)) \in Nat /\ Target(p, size).file_no = n + 1
    BY <1>1, <1>4, <1>6, <2>1
  <2>8. Target(p, size) \in [file_no : Nat, offset : Nat]
    BY <1>1, <2>1
  <2> HIDE DEF n, o
  <2> QED BY <1>1, <1>4, <1>5, <1>6, <1>7, <2>6, <2>7, <2>8
<1>8. CASE ~ NeedsNewFile(p, size)
  <2>1. Target(p, size) = next_location_[p] /\ Opened(p, size) = files
    BY <1>8 DEF Target, Opened
  <2>2. HasFile(p, size) => n < Len(files)
    BY <1>8 DEF HasFile, StoreInv
  <2> QED BY <1>1, <1>5, <2>1, <2>2
<1> QED BY <1>7, <1>8

\* The place of p's next value and its descriptor, after files have grown.
LEMMA StoreStep ==
  ASSUME StoreOK, StoreInv, NEW p \in Procs,
         NEW place \in [file_no : Nat, offset : Nat], NEW open \in BOOLEAN,
         files' \in Seq(Seq(Cells)), Grows(files, files'),
         next_location_' = [next_location_ EXCEPT ![p] = place],
         fd_' = [fd_ EXCEPT ![p] = open],
         IF open THEN place.file_no < Len(files') ELSE place.offset = 0
  PROVE  StoreOK' /\ StoreInv'
<1>1. StoreOK'
  BY DEF StoreOK, Cells
<1>2. Len(files) \in Nat /\ Len(files') \in Nat /\ Len(files) <= Len(files')
  BY LenProperties DEF StoreOK, Grows
<1>3. ASSUME NEW q \in Procs
      PROVE  IF fd_'[q] THEN next_location_'[q].file_no < Len(files')
                        ELSE next_location_'[q].offset = 0
  <2>1. CASE q = p
    <3>1. fd_'[q] = open /\ next_location_'[q] = place
      BY <2>1 DEF StoreOK
    <3> QED BY <3>1
  <2>2. CASE q # p
    <3>1. fd_'[q] = fd_[q] /\ next_location_'[q] = next_location_[q]
      BY <2>2 DEF StoreOK
    <3>2. next_location_[q].file_no \in Nat
      BY DEF StoreOK
    <3> QED BY <1>2, <3>1, <3>2 DEF StoreInv
  <2> QED BY <2>1, <2>2
<1> QED BY <1>1, <1>3 DEF StoreInv

LEMMA AppendedFiles ==
  ASSUME StoreOK, StoreInv, NEW p \in Procs, NEW size \in Sizes, HasFile(p, size),
         NEW cells \in Seq(Cells)
  PROVE  LET to == Target(p, size)
             gs == FileAppend(Opened(p, size), to.file_no, cells)
         IN  /\ gs \in Seq(Seq(Cells)) /\ Grows(files, gs)
             /\ to \in [file_no : Nat, offset : Nat]
             /\ to.file_no < Len(gs)
             /\ gs[to.file_no + 1] = Opened(p, size)[to.file_no + 1] \o cells
<1> DEFINE to == Target(p, size)
           fs == Opened(p, size)
<1>1. /\ to \in [file_no : Nat, offset : Nat]
      /\ fs \in Seq(Seq(Cells)) /\ Grows(files, fs) /\ to.file_no < Len(fs)
  BY TargetLemma
<1>2. files \in Seq(Seq(Cells)) /\ to.file_no \in Nat
  BY <1>1 DEF StoreOK, Cells
<1> HIDE DEF to, fs
<1> DEFINE gs == FileAppend(fs, to.file_no, cells)
<1>3. /\ gs \in Seq(Seq(Cells)) /\ Grows(fs, gs) /\ Len(gs) = Len(fs)
      /\ gs[to.file_no + 1] = fs[to.file_no + 1] \o cells
  BY <1>1, <1>2, FileAppendLemma
<1> HIDE DEF gs
<1>4. Grows(files, gs)
  BY <1>1, <1>2, <1>3, GrowsTransitive
<1> QED BY <1>1, <1>3, <1>4 DEF to, fs, gs

LEMMA AppendSucceedsStep ==
  ASSUME StoreOK, StoreInv, NEW p \in Procs, NEW w \in Writes, AppendSucceeds(p, w)
  PROVE  StoreOK' /\ StoreInv' /\ Grows(files, files')
<1> DEFINE to == Target(p, w.size)
           place == [to EXCEPT !.offset = @ + w.size]
<1>1. /\ HasFile(p, w.size)
      /\ files' = FileAppend(Opened(p, w.size), to.file_no, Value(w))
      /\ next_location_' = [next_location_ EXCEPT ![p] = place]
      /\ fd_' = [fd_ EXCEPT ![p] = TRUE]
  BY DEF AppendSucceeds
<1>2. w.size \in Sizes /\ w.size \in Nat /\ Value(w) \in Seq(Cells)
  BY ValueLemma DEF Writes
<1>3. /\ files' \in Seq(Seq(Cells)) /\ Grows(files, files')
      /\ to \in [file_no : Nat, offset : Nat] /\ to.file_no < Len(files')
  BY <1>1, <1>2, AppendedFiles
<1> HIDE DEF to
<1>4. place \in [file_no : Nat, offset : Nat] /\ place.file_no = to.file_no
  <2>1. to = [file_no |-> to.file_no, offset |-> to.offset]
        /\ to.file_no \in Nat /\ to.offset \in Nat
    BY <1>3
  <2>2. place = [file_no |-> to.file_no, offset |-> to.offset + w.size]
    BY <2>1
  <2>3. to.offset + w.size \in Nat
    BY <1>2, <2>1
  <2> QED BY <2>1, <2>2, <2>3
<1> HIDE DEF place
<1> QED BY <1>1, <1>3, <1>4, StoreStep

LEMMA PartlyAppendedStep ==
  ASSUME StoreOK, StoreInv, NEW p \in Procs, NEW w \in Writes, PartlyAppended(p, w)
  PROVE  /\ files' \in Seq(Seq(Cells)) /\ Grows(files, files')
         /\ Target(p, w.size) \in [file_no : Nat, offset : Nat]
         /\ Target(p, w.size).file_no < Len(files')
<1>1. PICK n \in 0 .. w.size - 1 :
        files' = FileAppend(Opened(p, w.size), Target(p, w.size).file_no, SubSeq(Value(w), 1, n))
  BY DEF PartlyAppended
<1>2. w.size \in Sizes /\ SubSeq(Value(w), 1, n) \in Seq(Cells)
  BY ValueLemma DEF Writes
<1>3. HasFile(p, w.size)
  BY DEF PartlyAppended
<1> QED BY <1>1, <1>2, <1>3, AppendedFiles

LEMMA AppendFailsStep ==
  ASSUME StoreOK, StoreInv, NEW p \in Procs, NEW w \in Writes,
         AppendFails(p, w) \/ AppendWithoutFile(p, w)
  PROVE  StoreOK' /\ StoreInv' /\ Grows(files, files')
<1> DEFINE to == Target(p, w.size)
<1>0. w.size \in Sizes
  BY DEF Writes
<1>1. CASE AppendFails(p, w)
  <2>1. /\ files' \in Seq(Seq(Cells)) /\ Grows(files, files')
        /\ to \in [file_no : Nat, offset : Nat] /\ to.file_no < Len(files')
    BY <1>1, PartlyAppendedStep DEF AppendFails
  <2>2. /\ next_location_' = [next_location_ EXCEPT ![p] = to]
        /\ fd_' = [fd_ EXCEPT ![p] = TRUE]
    BY <1>1 DEF AppendFails
  <2> HIDE DEF to
  <2> QED BY <2>1, <2>2, StoreStep
<1>2. CASE AppendWithoutFile(p, w)
  <2>1. /\ next_location_' = [next_location_ EXCEPT ![p] = to]
        /\ fd_' = [fd_ EXCEPT ![p] = FALSE]
        /\ files' = files
    BY <1>2 DEF AppendWithoutFile
  <2>2. to \in [file_no : Nat, offset : Nat] /\ (~ NeedsNewFile(p, w.size) => to = next_location_[p])
    BY <1>0, TargetLemma
  <2>3. to.offset = 0
    <3>1. CASE NeedsNewFile(p, w.size)
      BY <3>1 DEF Target
    <3>2. CASE ~ NeedsNewFile(p, w.size)
      <4>1. ~ fd_[p]
        BY <1>2, <3>2 DEF AppendWithoutFile
      <4> QED BY <2>2, <3>2, <4>1 DEF StoreInv
    <3> QED BY <3>1, <3>2
  <2>4. files' \in Seq(Seq(Cells)) /\ Grows(files, files')
    BY <2>1, GrowsReflexive DEF StoreOK, Cells
  <2> HIDE DEF to
  <2> QED BY <2>1, <2>2, <2>3, <2>4, StoreStep
<1> QED BY <1>1, <1>2

LEMMA StoreOpensStep ==
  ASSUME StoreOK, StoreInv, NEW p \in Procs, StoreOpens(p)
  PROVE  StoreOK' /\ StoreInv' /\ Grows(files, files')
<1> DEFINE place == IF files = << >> THEN [file_no |-> 0, offset |-> 0] ELSE EndOfFiles
<1>1. /\ files' = IF files = << >> THEN << << >> >> ELSE files
      /\ next_location_' = [next_location_ EXCEPT ![p] = place]
      /\ fd_' = [fd_ EXCEPT ![p] = TRUE]
  BY DEF StoreOpens
<1>2. files \in Seq(Seq(Cells)) /\ Len(files) \in Nat
  BY LenProperties DEF StoreOK, Cells
<1>3. /\ files' \in Seq(Seq(Cells)) /\ Grows(files, files')
      /\ place \in [file_no : Nat, offset : Nat] /\ place.file_no < Len(files')
  <2>1. CASE files = << >>
    <3>1. << >> \in Seq(Cells) /\ << << >> >> \in Seq(Seq(Cells))
      OBVIOUS
    <3>2. Len(files) = 0 /\ Len(<< << >> >>) = 1
      BY <2>1
    <3> QED BY <1>1, <2>1, <3>1, <3>2 DEF Grows
  <2>2. CASE files # << >>
    <3>1. Len(files) > 0
      BY <1>2, <2>2, EmptySeq
    <3>2. Last(files) \in Seq(Cells)
      BY <1>2, <3>1, ElementOfSeq DEF Last
    <3>3. Len(Last(files)) \in Nat
      BY <3>2, LenProperties
    <3>4. place = [file_no |-> Len(files) - 1, offset |-> Len(Last(files))]
      BY <2>2 DEF EndOfFiles, LastFile
    <3>5. place \in [file_no : Nat, offset : Nat] /\ place.file_no < Len(files)
      BY <1>2, <3>1, <3>3, <3>4
    <3> QED BY <1>1, <1>2, <2>2, <3>5, GrowsReflexive
  <2> QED BY <2>1, <2>2
<1> HIDE DEF place
<1> QED BY <1>1, <1>3, StoreStep

LEMMA NewWriteLemma ==
  ASSUME GhostsOK, CountInv, NEW p \in Procs, NEW k \in Keys, NEW size \in Sizes,
         Starts(p, NewWrite(k, size))
  PROVE  /\ NewWrite(k, size) \in Writes
         /\ NewWrite(k, size).key = k /\ NewWrite(k, size).size = size
         /\ NewWrite(k, size).id = Cardinality(started')
         /\ started' \subseteq Writes /\ IsFiniteSet(started')
<1> DEFINE w == NewWrite(k, size)
<1>1. /\ Cardinality(started) < MaxWrites /\ started' = started \cup {w}
      /\ pc[p] = "idle"
  BY DEF Starts
<1>2. Cardinality(started) \in Nat /\ MaxWrites \in Nat
  BY FS_CardinalityType, EngineExampleAssumption DEF GhostsOK
<1>3. /\ w.key = k /\ w.size = size /\ w.id = Cardinality(started) + 1
      /\ w = [key |-> k, id |-> Cardinality(started) + 1, size |-> size]
  BY DEF NewWrite
<1>4. Cardinality(started) + 1 \in 1 .. MaxWrites
  BY <1>1, <1>2
<1>5. w \in Writes
  BY <1>3, <1>4 DEF Writes
<1> HIDE DEF w
<1>6. started' \subseteq Writes /\ IsFiniteSet(started')
  BY <1>1, <1>5, FS_AddElement DEF GhostsOK
<1>7. w \notin started
  BY <1>2, <1>3 DEF CountInv, w
<1>8. w.id = Cardinality(started')
  BY <1>1, <1>3, <1>7, FS_AddElement DEF GhostsOK
<1> QED BY <1>3, <1>5, <1>6, <1>8 DEF w

LEMMA MixedLocation ==
  ASSUME NEW old \in Locations, NEW new \in Locations, NEW words
  PROVE  Mixed(old, new, words) \in Locations
BY DEF Mixed, Locations

LEMMA PartlyClearedTypes ==
  ASSUME TableOK, NEW i \in Items
  PROVE  PartlyCleared(i) \subseteq ItemRecords
<1>1. items[i] \in ItemRecords
  BY DEF TableOK
<1>2. items[i].in_use \in BOOLEAN /\ items[i].key \in Keys \cup {NoKey} /\ items[i].location \in Locations
  BY <1>1 DEF ItemRecords
<1>3. NoLocation \in Locations
  BY DEF NoLocation, Location, Locations
<1>4. Torn(items[i].key, NoKey) \subseteq Keys \cup {NoKey}
  BY <1>2, DoorPlateAssumption
<1>5. \A words : Mixed(items[i].location, NoLocation, words) \in Locations
  BY <1>2, <1>3, MixedLocation
<1>6. {Mixed(items[i].location, NoLocation, words) :
         words \in SUBSET {"file_no", "offset", "len"}} \subseteq Locations
  BY <1>5
<1>7. Torn(items[i].key, NoKey) \cup {items[i].key, NoKey} \subseteq Keys \cup {NoKey}
  BY <1>2, <1>4
<1>8. {items[i].in_use, FALSE} \subseteq BOOLEAN
  BY <1>2
<1> QED BY <1>6, <1>7, <1>8 DEF PartlyCleared, ItemRecords

\* Where a write that is not refused goes.
LEMMA PlaceIsItem ==
  ASSUME TypeInv, NEW p \in Procs, pc[p] = "place", ~ Refused(op[p].key)
  PROVE  op[p].key \in Keys /\ CalcIndex(op[p].key) \in Items
<1>1. op[p].key \in Keys
  BY DEF TypeInv, CallsOK, HandOK, Placing, Writes
<1> QED BY <1>1, SearchStops DEF Refused

LEMMA TableTypes ==
  ASSUME TypeInv, NEW p \in Procs, OpenStep(p) \/ WriteStep(p) \/ Close(p) \/ Death(p)
  PROVE  TableOK'
<1>0. /\ items \in [Items -> ItemRecords] /\ TableOK
      /\ meta \in {"none", "short", "full", "raced"}
      /\ uncleared[p] \subseteq Items
  BY DEF TypeInv, TableOK, ClearOK
<1>1. CASE UNCHANGED items
  <2>1. meta' \in {"none", "short", "full", "raced"}
    BY <1>0 DEF OpenStep, WriteStep, Death, OpenMeta, CreateMeta, Allocate, ClearItem, ClearRacing,
       OpenStore, TakeLock, Close, AppendValue, AppendValueFails, Refuse, Place, Use, Locate,
       BusError, CrashBetween, CrashInClear, CrashInPlace, CrashInLocate, CrashInAppend, Dies,
       metaVars
  <2> QED BY <1>0, <1>1, <2>1 DEF TableOK
<1>2. ASSUME meta' = meta, NEW i \in Items, NEW item \in ItemRecords, items' = [items EXCEPT ![i] = item]
      PROVE  TableOK'
  BY <1>0, <1>2 DEF TableOK
<1>3. ASSUME meta' = meta, NEW i \in Items, NEW k \in Keys \cup {NoKey},
             items' = [items EXCEPT ![i].key = k]
      PROVE  TableOK'
  BY <1>0, <1>3 DEF TableOK, ItemRecords
<1>4. ASSUME meta' = meta, NEW i \in Items, UseItem(i) PROVE TableOK'
  BY <1>0, <1>4 DEF TableOK, ItemRecords, UseItem
<1>5. ASSUME meta' = meta, NEW i \in Items, NEW l \in Locations, SetLocation(i, l) PROVE TableOK'
  BY <1>0, <1>5 DEF TableOK, ItemRecords, SetLocation
<1>6. /\ Placing(p) => op[p] \in Writes /\ op[p].key \in Keys /\ loc[p] \in Locations
      /\ AtItem(p) => at[p] \in Items
  BY DEF TypeInv, CallsOK, HandOK, Writes
<1>7. CASE ClearItem(p)
  <2>1. EmptyItem \in ItemRecords
    BY DEF EmptyItem, ItemRecords, NoLocation, Location, Locations
  <2>2. PICK i \in uncleared[p] : Wipe(i, EmptyItem)
    BY <1>7 DEF ClearItem
  <2> QED BY <1>0, <1>2, <1>7, <2>1, <2>2 DEF ClearItem, Wipe
<1>8. CASE CrashInClear(p)
  <2>1. PICK i \in uncleared[p] : \E item \in PartlyCleared(i) : Wipe(i, item)
    BY <1>8 DEF CrashInClear
  <2>2. PICK item \in PartlyCleared(i) : Wipe(i, item)
    BY <2>1
  <2>3. item \in ItemRecords /\ i \in Items
    BY <1>0, <2>1, <2>2, PartlyClearedTypes
  <2> QED BY <1>2, <1>8, <2>2, <2>3 DEF CrashInClear, Dies, Wipe
<1>9. CASE Place(p)
  <2>1. op[p].key \in Keys /\ CalcIndex(op[p].key) \in Items /\ meta' = meta
    BY <1>9, PlaceIsItem DEF Place, metaVars
  <2> QED BY <1>1, <1>3, <1>9, <2>1 DEF Place, PlaceKey
<1>10. CASE CrashInPlace(p)
  <2>1. op[p].key \in Keys /\ CalcIndex(op[p].key) \in Items /\ meta' = meta
    BY <1>10, PlaceIsItem DEF CrashInPlace, Dies
  <2>2. PICK i \in Items : i = CalcIndex(op[p].key)
    BY <2>1
  <2>3. PICK torn \in Torn(items[i].key, op[p].key) : items' = [items EXCEPT ![i].key = torn]
    BY <1>10, <2>2 DEF CrashInPlace, TearKey
  <2>4. items[i].key \in Keys \cup {NoKey}
    BY <1>0 DEF ItemRecords
  <2>5. torn \in Keys \cup {NoKey}
    BY <2>1, <2>3, <2>4, DoorPlateAssumption
  <2> QED BY <1>3, <2>1, <2>3, <2>5
<1>11. CASE Use(p)
  BY <1>4, <1>6, <1>11 DEF Use, AtItem, metaVars
<1>12. CASE Locate(p)
  BY <1>5, <1>6, <1>12 DEF Locate, Located, Placing, AtItem, metaVars
<1>13. CASE CrashInLocate(p)
  <2>1. pc[p] = "locate" /\ meta' = meta
    BY <1>13 DEF CrashInLocate, Dies
  <2>2. loc[p] \in Locations /\ at[p] \in Items
    BY <1>6, <2>1 DEF Placing, AtItem
  <2>3. CASE Located(p)
    BY <1>5, <2>1, <2>2, <2>3 DEF Located
  <2>4. CASE ~ Located(p)
    <3>1. PICK words \in SUBSET {"file_no", "offset", "len"} \ {{}} :
            SetLocation(at[p], Mixed(items[at[p]].location, loc[p], words))
      BY <1>13, <2>4 DEF CrashInLocate
    <3>2. items[at[p]].location \in Locations
      BY <1>0, <2>2 DEF ItemRecords
    <3>3. Mixed(items[at[p]].location, loc[p], words) \in Locations
      BY <2>2, <3>2, MixedLocation
    <3> QED BY <1>5, <2>1, <2>2, <3>1, <3>3
  <2> QED BY <2>3, <2>4
<1> QED BY <1>1, <1>7, <1>8, <1>9, <1>10, <1>11, <1>12, <1>13
     DEF OpenStep, WriteStep, Death, OpenMeta, CreateMeta, Allocate, ClearRacing, OpenStore,
         TakeLock, Close, AppendValue, AppendValueFails, Refuse, BusError, CrashBetween, CrashInAppend

LEMMA ClearTypes ==
  ASSUME TypeInv, NEW p \in Procs, OpenStep(p) \/ WriteStep(p) \/ Close(p) \/ Death(p)
  PROVE  ClearOK'
<1>0. ClearOK /\ pc \in [Procs -> Labels]
  BY DEF TypeInv, CallsOK
<1>1. ASSUME NEW l, pc' = [pc EXCEPT ![p] = l], NEW S \in SUBSET Items,
             uncleared' = [uncleared EXCEPT ![p] = S], l = "clear" <=> S # {}
      PROVE  ClearOK'
  BY <1>0, <1>1 DEF ClearOK
<1>2. ASSUME NEW l, pc' = [pc EXCEPT ![p] = l], uncleared' = uncleared,
             l = "clear" <=> pc[p] = "clear"
      PROVE  ClearOK'
  BY <1>0, <1>2 DEF ClearOK
<1>3. ASSUME UNCHANGED <<pc, uncleared>> PROVE ClearOK'
  BY <1>0, <1>3 DEF ClearOK
<1>a. ASSUME NEW l, pc' = [pc EXCEPT ![p] = l], l # "clear",
             uncleared' = [uncleared EXCEPT ![p] = {}]
      PROVE  ClearOK'
  BY <1>0, <1>a DEF ClearOK
<1>4. CASE Exit(p)
  <2>1. pc' = [pc EXCEPT ![p] = "closed"] /\ uncleared' = [uncleared EXCEPT ![p] = {}]
    BY <1>4 DEF Exit, Goto
  <2> QED BY <1>a, <2>1
<1>5. CASE OpenMeta(p) \/ CreateMeta(p) \/ OpenStore(p) \/ (TakeLock(p) /\ ~ Exit(p))
  <2>1. pc[p] # "clear" /\ uncleared' = uncleared
    BY <1>5 DEF OpenMeta, CreateMeta, OpenStore, TakeLock, metaVars
  <2>2. \E l \in {"create", "store", "allocate", "closed", "lock", "idle"} :
          pc' = [pc EXCEPT ![p] = l]
    BY <1>5 DEF OpenMeta, CreateMeta, OpenStore, TakeLock, Goto
  <2> QED BY <1>2, <2>1, <2>2
<1>6. CASE Allocate(p)
  <2>1. CASE pc' = [pc EXCEPT ![p] = "clear"] /\ uncleared' = [uncleared EXCEPT ![p] = Items]
    <3>1. Items # {}
      BY DoorPlateAssumption DEF Items
    <3> QED BY <1>1, <2>1, <3>1
  <2>2. CASE pc' = [pc EXCEPT ![p] = "closed"] /\ uncleared' = uncleared
    BY <1>2, <1>6, <2>2 DEF Allocate
  <2> QED BY <1>6, <2>1, <2>2 DEF Allocate, Goto, metaVars
<1>7. CASE ClearItem(p)
  <2>1. PICK i \in uncleared[p] :
          /\ uncleared' = [uncleared EXCEPT ![p] = @ \ {i}]
          /\ IF uncleared[p] = {i} THEN Goto(p, "store") ELSE UNCHANGED pc
    BY <1>7 DEF ClearItem
  <2>2. uncleared[p] \subseteq Items /\ pc[p] = "clear"
    BY <1>0, <1>7 DEF ClearOK, ClearItem
  <2>3. uncleared' = [uncleared EXCEPT ![p] = uncleared[p] \ {i}]
    BY <2>1
  <2>4. CASE uncleared[p] = {i}
    <3>1. pc' = [pc EXCEPT ![p] = "store"] /\ uncleared[p] \ {i} = {}
      BY <2>1, <2>4 DEF Goto
    <3> QED BY <1>a, <2>3, <3>1
  <2>5. CASE uncleared[p] # {i}
    <3>1. pc' = [pc EXCEPT ![p] = "clear"]
      BY <1>0, <2>1, <2>2, <2>5
    <3>2. uncleared[p] \ {i} # {}
      BY <2>1, <2>5
    <3> QED BY <1>1, <2>2, <2>3, <3>1, <3>2
  <2> QED BY <2>4, <2>5
<1>8. CASE ClearRacing(p) \/ AppendValueFails(p)
  BY <1>3, <1>8 DEF ClearRacing, AppendValueFails, metaVars
<1>9. CASE AppendValue(p) \/ Refuse(p) \/ Place(p) \/ Use(p) \/ Locate(p)
  <2>1. pc[p] # "clear" /\ uncleared' = uncleared
    BY <1>9 DEF AppendValue, Starts, Refuse, Place, Use, Locate, metaVars
  <2>2. \E l \in {"idle", "place", "use", "locate"} : pc' = [pc EXCEPT ![p] = l]
    BY <1>9 DEF AppendValue, Refuse, Place, Use, Locate, Return, Goto
  <2> QED BY <1>2, <2>1, <2>2
<1> QED BY <1>4, <1>5, <1>6, <1>7, <1>8, <1>9
     DEF OpenStep, WriteStep, Death, Close, BusError, CrashBetween, CrashInClear, CrashInAppend,
         CrashInPlace, CrashInLocate, Dies

LEMMA StoreTypes ==
  ASSUME TypeInv, StoreInv, CountInv, NEW p \in Procs,
         OpenStep(p) \/ WriteStep(p) \/ Close(p) \/ Death(p)
  PROVE  StoreOK' /\ StoreInv' /\ Grows(files, files')
<1>0. StoreOK /\ GhostsOK /\ files \in Seq(Seq(Cells)) /\ Grows(files, files)
  BY GrowsReflexive DEF TypeInv, StoreOK, Cells
<1>1. CASE UNCHANGED storeVars
  BY <1>0, <1>1 DEF storeVars, StoreOK, StoreInv
<1>2. CASE Exit(p) /\ files' = files
  BY <1>0, <1>2, ExitStore
<1>3. CASE OpenStore(p)
  BY <1>0, <1>1, <1>3, StoreOpensStep DEF OpenStore
<1>4. CASE TakeLock(p)
  BY <1>1, <1>2, <1>4 DEF TakeLock, storeVars
<1>5. CASE AppendValue(p) \/ AppendValueFails(p)
  <2>1. PICK k \in Keys, size \in Sizes :
          /\ Starts(p, NewWrite(k, size))
          /\ \/ AppendSucceeds(p, NewWrite(k, size)) \/ AppendFails(p, NewWrite(k, size))
             \/ AppendWithoutFile(p, NewWrite(k, size))
    BY <1>5 DEF AppendValue, AppendValueFails
  <2>2. NewWrite(k, size) \in Writes
    BY <1>0, <2>1, NewWriteLemma
  <2> QED BY <1>0, <2>1, <2>2, AppendSucceedsStep, AppendFailsStep
<1>6. CASE CrashInAppend(p)
  <2>1. PICK k \in Keys, size \in Sizes :
          Starts(p, NewWrite(k, size)) /\ PartlyAppended(p, NewWrite(k, size))
    BY <1>6 DEF CrashInAppend
  <2>2. NewWrite(k, size) \in Writes
    BY <1>0, <2>1, NewWriteLemma
  <2>3. files' \in Seq(Seq(Cells)) /\ Grows(files, files')
    BY <1>0, <2>1, <2>2, PartlyAppendedStep
  <2>4. Exit(p)
    BY <1>6 DEF CrashInAppend
  <2> QED BY <1>0, <2>3, <2>4, ExitStore
<1> QED BY <1>1, <1>2, <1>3, <1>4, <1>5, <1>6
     DEF OpenStep, WriteStep, Death, OpenMeta, CreateMeta, Allocate, ClearItem, ClearRacing, Close,
         Refuse, Place, Use, Locate, BusError, CrashBetween, CrashInClear, CrashInPlace,
         CrashInLocate, Dies

LEMMA CallTypes ==
  ASSUME TypeInv, CountInv, NEW p \in Procs,
         OpenStep(p) \/ WriteStep(p) \/ Close(p) \/ Death(p)
  PROVE  CallsOK'
<1>0. /\ CallsOK /\ GhostsOK /\ StoreOK
      /\ {"closed", "create", "allocate", "clear", "store", "lock", "idle", "place", "use", "locate"} = Labels
  BY DEF TypeInv, Labels
<1>1. CASE Exit(p)
  BY <1>0, <1>1, ExitCalls
<1>2. CASE UNCHANGED <<owner, pc, callVars>>
  BY <1>0, <1>2 DEF CallsOK, HandOK, Placing, AtItem, callVars
<1>3. CASE OpenMeta(p) \/ CreateMeta(p) \/ Allocate(p) \/ OpenStore(p)
  <2>1. /\ UNCHANGED <<owner, callVars>> /\ pc[p] \in {"closed", "create", "allocate", "store"}
        /\ \E l \in {"closed", "create", "allocate", "clear", "store", "lock"} :
             pc' = [pc EXCEPT ![p] = l]
    BY <1>3 DEF OpenMeta, CreateMeta, Allocate, OpenStore, Goto
  <2> QED BY <1>0, <2>1, OpenerMoves
<1>9. CASE ClearItem(p)
  <2>1. UNCHANGED <<owner, callVars>> /\ pc[p] = "clear" /\ (pc' = pc \/ pc' = [pc EXCEPT ![p] = "store"])
    BY <1>9 DEF ClearItem, Goto
  <2> QED BY <1>0, <1>2, <2>1, OpenerMoves
<1>4. CASE TakeLock(p) /\ ~ Exit(p)
  <2>1. /\ pc[p] = "lock" /\ owner = NoProc /\ owner' = p /\ pc' = [pc EXCEPT ![p] = "idle"]
        /\ op' = op /\ loc' = loc /\ at' = at /\ blind' = blind
    BY <1>4 DEF TakeLock, LockFile, Goto, callVars
  <2>2. \A q \in Procs : pc'[q] \in {"idle", "place", "use", "locate"} <=> owner' = q
    BY <1>0, <2>1, EngineExampleAssumption DEF CallsOK
  <2>3. HandOK'
    BY <1>0, <2>1 DEF CallsOK, HandOK, Placing, AtItem
  <2> QED BY <1>0, <2>1, <2>2, <2>3 DEF CallsOK
<1>5. CASE AppendValue(p)
  <2>1. PICK k \in Keys, size \in Sizes :
          LET w == NewWrite(k, size) IN
            /\ Starts(p, w) /\ AppendSucceeds(p, w)
            /\ op' = [op EXCEPT ![p] = w]
            /\ loc' = [loc EXCEPT ![p] = Written(p, size)]
            /\ blind' = [blind EXCEPT ![p] = Blind(p, size)]
    BY <1>5 DEF AppendValue
  <2>2. NewWrite(k, size) \in Writes
    BY <1>0, <2>1, NewWriteLemma
  <2>3. Blind(p, size) \in BOOLEAN
    BY DEF Blind
  <2>4. Written(p, size) \in Locations
    <3>1. Target(p, size) \in [file_no : Nat, offset : Nat]
      <4>1. next_location_[p] \in [file_no : Nat, offset : Nat]
        BY <1>0 DEF StoreOK
      <4> QED BY <4>1 DEF Target
    <3>2. size \in Nat
      BY EngineExampleAssumption, DataStoreAssumption
    <3> QED BY <3>1, <3>2 DEF Written, Location, Locations
  <2>5. /\ pc[p] = "idle" /\ pc' = [pc EXCEPT ![p] = "place"] /\ owner' = owner /\ at' = at
    BY <1>5, <2>1 DEF AppendValue, Starts, Goto
  <2> HIDE DEF NewWrite
  <2>6. HandOK'
    BY <1>0, <2>1, <2>2, <2>5 DEF CallsOK, HandOK, Placing, AtItem
  <2> QED BY <1>0, <2>1, <2>2, <2>3, <2>4, <2>5, <2>6 DEF CallsOK
<1>6. CASE Refuse(p) \/ Locate(p)
  <2>1. /\ pc[p] \in {"place", "locate"} /\ pc' = [pc EXCEPT ![p] = "idle"] /\ owner' = owner
        /\ op' = [op EXCEPT ![p] = NoWrite]
        /\ loc' = [loc EXCEPT ![p] = NoLocation]
        /\ at' = [at EXCEPT ![p] = -1]
        /\ blind' = [blind EXCEPT ![p] = FALSE]
    BY <1>6 DEF Refuse, Locate, Return, Goto, Forget
  <2>2. NoLocation \in Locations
    BY DEF NoLocation, Location, Locations
  <2>3. HandOK'
    BY <1>0, <2>1 DEF CallsOK, HandOK, Placing, AtItem
  <2> QED BY <1>0, <2>1, <2>2, <2>3 DEF CallsOK
<1>7. CASE Place(p)
  <2> DEFINE i == CalcIndex(op[p].key)
  <2>1. /\ pc[p] = "place" /\ owner' = owner /\ op' = op /\ loc' = loc /\ blind' = blind
        /\ at' = [at EXCEPT ![p] = i]
        /\ \E l \in {"use", "locate"} : pc' = [pc EXCEPT ![p] = l]
        /\ i # -1
    BY <1>7 DEF Place, Goto, Refused
  <2>2. op[p].key \in Keys
    BY <1>0, <2>1 DEF CallsOK, HandOK, Placing, AtItem, Writes
  <2>3. i \in Items
    BY <2>1, <2>2, SearchStops
  <2> HIDE DEF i
  <2>4. HandOK'
    BY <1>0, <2>1, <2>3 DEF CallsOK, HandOK, Placing, AtItem
  <2>5. at' \in [Procs -> Items \cup {-1}] /\ pc' \in [Procs -> Labels]
    BY <1>0, <2>1, <2>3 DEF CallsOK
  <2> QED BY <1>0, <2>1, <2>4, <2>5 DEF CallsOK
<1>8. CASE Use(p)
  <2>1. /\ pc[p] = "use" /\ owner' = owner /\ UNCHANGED <<op, loc, at, blind>>
        /\ pc' = [pc EXCEPT ![p] = "locate"]
    BY <1>8 DEF Use, Goto, callVars
  <2>2. HandOK'
    BY <1>0, <2>1 DEF CallsOK, HandOK, Placing, AtItem
  <2> QED BY <1>0, <2>1, <2>2 DEF CallsOK
<1> QED BY <1>1, <1>2, <1>3, <1>4, <1>5, <1>6, <1>7, <1>8, <1>9
     DEF OpenStep, WriteStep, Death, ClearRacing, Close, AppendValueFails, BusError, CrashBetween,
         CrashInClear, CrashInPlace, CrashInLocate, CrashInAppend, Dies

\* A process that starts a write is the only one at work.
LEMMA StarterIsAlone ==
  ASSUME CallsOK, NEW p \in Procs, pc[p] = "idle"
  PROVE  \A q \in Procs : q # p => ~ Placing(q) /\ pc[q] # "idle"
BY DEF CallsOK, Placing

\* So is one that is at an item.
LEMMA PlacerIsAlone ==
  ASSUME CallsOK, NEW p \in Procs, Placing(p)
  PROVE  \A q \in Procs : q # p => ~ Placing(q) /\ pc[q] # "idle"
BY DEF CallsOK, Placing

LEMMA GhostTypes ==
  ASSUME TypeInv, CountInv, NEW p \in Procs,
         OpenStep(p) \/ WriteStep(p) \/ Close(p) \/ Death(p)
  PROVE  GhostsOK' /\ CountInv'
<1>0. CallsOK /\ GhostsOK
  BY DEF TypeInv
<1>1. CASE /\ UNCHANGED <<started, acked>> /\ damaged' \subseteq Keys /\ stray' \subseteq Keys
           /\ \A q \in Procs : Placing(q)' => Placing(q) /\ op'[q] = op[q]
  BY <1>0, <1>1 DEF GhostsOK, CountInv
<1>2. ASSUME NEW k \in Keys, NEW size \in Sizes, Starts(p, NewWrite(k, size)),
             UNCHANGED <<acked, damaged, stray>>,
             \A q \in Procs : q # p => pc'[q] = pc[q],
             Placing(p)' => op'[p] = NewWrite(k, size)
      PROVE  GhostsOK' /\ CountInv'
  <2> DEFINE w == NewWrite(k, size)
  <2>1. /\ w \in Writes /\ w.id = Cardinality(started')
        /\ started' \subseteq Writes /\ IsFiniteSet(started')
        /\ started' = started \cup {w} /\ pc[p] = "idle"
        /\ (Placing(p)' => op'[p] = w)
    BY <1>0, <1>2, NewWriteLemma DEF Starts
  <2> HIDE DEF w
  <2>2. Cardinality(started) <= Cardinality(started')
        /\ Cardinality(started) \in Nat /\ Cardinality(started') \in Nat
    BY <1>0, <2>1, FS_Subset, FS_CardinalityType DEF GhostsOK
  <2>3. \A v \in started : v.id \in Nat /\ v.id <= Cardinality(started)
    BY <1>0 DEF GhostsOK, CountInv, Writes
  <2>4. \A v \in started' : v.id <= Cardinality(started')
    BY <2>1, <2>2, <2>3
  <2>5. \A q \in Procs : Placing(q)' => op'[q] \in started' /\ op'[q].id = Cardinality(started')
    <3>1. \A q \in Procs : q # p => ~ Placing(q)'
      BY <1>0, <1>2, <2>1, StarterIsAlone DEF Placing
    <3> QED BY <2>1, <3>1
  <2> QED BY <1>0, <1>2, <2>1, <2>4, <2>5 DEF GhostsOK, CountInv
<1>3. /\ Placing(p) => op[p] \in Writes /\ op[p].key \in Keys
      /\ \A k \in Keys : acked[k] \in Writes \cup {NoWrite}
  BY <1>0 DEF CallsOK, HandOK, Writes, GhostsOK
<1>4. CASE OpenStep(p)
  <2>1. UNCHANGED <<started, acked>> /\ damaged' \subseteq Keys /\ stray' \subseteq Keys
    <3>1. CASE ClearItem(p)
      BY <1>0, <3>1 DEF ClearItem, Wipe, Lost, GhostsOK
    <3>2. CASE ~ ClearItem(p)
      BY <1>0, <1>4, <3>2 DEF OpenStep, OpenMeta, CreateMeta, Allocate, ClearRacing, OpenStore,
         TakeLock, ghostVars, GhostsOK
    <3> QED BY <3>1, <3>2
  <2>2. \A q \in Procs : Placing(q)' => Placing(q) /\ op'[q] = op[q]
    BY <1>0, <1>4 DEF OpenStep, OpenMeta, CreateMeta, Allocate, ClearItem, ClearRacing, OpenStore,
       TakeLock, Exit, Goto, Forget, Placing, callVars, CallsOK
  <2> QED BY <1>1, <2>1, <2>2
<1>5. CASE AppendValue(p)
  <2>1. PICK k \in Keys, size \in Sizes :
          Starts(p, NewWrite(k, size)) /\ op' = [op EXCEPT ![p] = NewWrite(k, size)]
    BY <1>5 DEF AppendValue
  <2>2. UNCHANGED <<acked, damaged, stray>> /\ pc' = [pc EXCEPT ![p] = "place"]
    BY <1>5 DEF AppendValue, Goto
  <2> HIDE DEF NewWrite
  <2>3. (\A q \in Procs : q # p => pc'[q] = pc[q]) /\ op'[p] = NewWrite(k, size)
    BY <1>0, <2>1, <2>2 DEF CallsOK
  <2> QED BY <1>2, <2>1, <2>2, <2>3
<1>6. CASE AppendValueFails(p)
  <2>1. PICK k \in Keys, size \in Sizes : Starts(p, NewWrite(k, size))
    BY <1>6 DEF AppendValueFails
  <2>2. UNCHANGED <<acked, damaged, stray, pc>> /\ pc[p] = "idle"
    BY <1>6, <2>1 DEF AppendValueFails, Starts
  <2> QED BY <1>2, <2>1, <2>2 DEF Placing
<1>7. CASE CrashInAppend(p)
  <2>1. PICK k \in Keys, size \in Sizes : Starts(p, NewWrite(k, size))
    BY <1>7 DEF CrashInAppend
  <2>2. UNCHANGED <<acked, damaged, stray>> /\ pc' = [pc EXCEPT ![p] = "closed"]
    BY <1>7 DEF CrashInAppend, Exit, Goto
  <2>3. (\A q \in Procs : q # p => pc'[q] = pc[q]) /\ pc'[p] = "closed"
    BY <1>0, <2>2 DEF CallsOK
  <2> QED BY <1>2, <2>1, <2>2, <2>3 DEF Placing
<1>8. CASE Refuse(p) \/ Place(p) \/ Use(p)
  <2>1. UNCHANGED <<started, acked, stray>> /\ damaged' \subseteq Keys
    BY <1>0, <1>3, <1>8 DEF Refuse, Place, Use, ghostVars, GhostsOK, Placing
  <2>2. \A q \in Procs : Placing(q)' => Placing(q) /\ op'[q] = op[q]
    BY <1>0, <1>8 DEF Refuse, Place, Use, Return, Goto, Forget, Placing, callVars, CallsOK
  <2> QED BY <1>0, <1>1, <2>1, <2>2 DEF GhostsOK
<1>9. CASE Locate(p)
  <2>1. /\ pc[p] = "locate" /\ started' = started /\ stray' = stray
        /\ acked' = [acked EXCEPT ![op[p].key] = op[p]]
        /\ damaged' = damaged \cup {op[p].key} \/ damaged' = damaged \ {op[p].key}
        /\ pc' = [pc EXCEPT ![p] = "idle"] /\ op' = [op EXCEPT ![p] = NoWrite]
    BY <1>9 DEF Locate, Located, Return, Goto, Forget
  <2>2. Placing(p) /\ op[p] \in started
    BY <2>1 DEF Placing, CountInv
  <2>3. GhostsOK'
    BY <1>0, <1>3, <2>1, <2>2 DEF GhostsOK
  <2>4. \A q \in Procs : Placing(q)' => Placing(q) /\ op'[q] = op[q]
    BY <1>0, <2>1 DEF Placing, CallsOK
  <2>5. \A k \in Keys : acked'[k] \in started' \cup {NoWrite}
    BY <1>0, <1>3, <2>1, <2>2 DEF GhostsOK, CountInv
  <2> QED BY <2>1, <2>3, <2>4, <2>5 DEF CountInv
<1>10. CASE \/ Close(p) \/ BusError(p) \/ CrashBetween(p) \/ CrashInClear(p)
            \/ CrashInPlace(p) \/ CrashInLocate(p)
  <2>1. UNCHANGED <<started, acked>> /\ Exit(p)
    BY <1>10 DEF Close, BusError, CrashBetween, CrashInClear, CrashInPlace, CrashInLocate, Dies, ghostVars
  <2>2. damaged' \subseteq Keys /\ stray' \subseteq Keys
    <3>1. CASE CrashInClear(p)
      BY <1>0, <3>1 DEF CrashInClear, Wipe, Lost, GhostsOK
    <3>2. CASE CrashInPlace(p)
      BY <1>0, <3>2 DEF CrashInPlace, GhostsOK
    <3>3. CASE CrashInLocate(p)
      BY <1>0, <1>3, <3>3 DEF CrashInLocate, Located, Placing, GhostsOK
    <3>4. CASE Close(p) \/ BusError(p) \/ CrashBetween(p)
      BY <1>0, <3>4 DEF Close, BusError, CrashBetween, ghostVars, GhostsOK
    <3> QED BY <1>10, <3>1, <3>2, <3>3, <3>4
  <2>3. \A q \in Procs : Placing(q)' => Placing(q) /\ op'[q] = op[q]
    BY <1>0, <2>1 DEF Exit, Goto, Forget, Placing, CallsOK
  <2> QED BY <1>1, <2>1, <2>2, <2>3
<1> QED BY <1>4, <1>5, <1>6, <1>7, <1>8, <1>9, <1>10 DEF WriteStep, Death

LEMMA NextTypes ==
  ASSUME TypeInv, StoreInv, CountInv, [Next]_vars
  PROVE  TypeInv' /\ StoreInv' /\ CountInv'
<1>1. CASE Next
  <2>1. PICK p \in Procs : OpenStep(p) \/ WriteStep(p) \/ Close(p) \/ Death(p)
    BY <1>1 DEF Next
  <2> QED BY <2>1, TableTypes, StoreTypes, CallTypes, ClearTypes, GhostTypes DEF TypeInv
<1>2. CASE UNCHANGED vars
  BY <1>2 DEF vars, storeVars, metaVars, callVars, ghostVars, TypeInv, TableOK, StoreOK, CallsOK,
     HandOK, ClearOK, GhostsOK, Placing, AtItem, StoreInv, CountInv
<1> QED BY <1>1, <1>2

LEMMA InitCount == Init => CountInv
BY FS_EmptySet DEF Init, CountInv, Placing

\* Whatever fails or dies, the state of the engine stays within its types, and
\* at most one process has an engine: TakeLock gives the lock to one of them.
THEOREM TypesAreRight == Spec => []TypeOK
<1>1. Init => TypeInv /\ StoreInv /\ CountInv
  BY InitTypes, InitCount
<1>2. TypeInv /\ StoreInv /\ CountInv /\ [Next]_vars => (TypeInv /\ StoreInv /\ CountInv)'
  BY NextTypes
<1>3. TypeInv => TypeOK
  BY DEF TypeInv, TableOK, ItemRecords, StoreOK, CallsOK, ClearOK, GhostsOK, TypeOK
<1> QED BY <1>1, <1>2, <1>3, PTL DEF Spec

-----------------------------------------------------------------------------
(* Each key has one place                                                  *)

LEMMA InitPlaces == Init => PlaceInv
<1> SUFFICES ASSUME Init PROVE PlaceInv
  OBVIOUS
<1>1. \A i \in Items : items[i] = EmptyItem
  BY DEF Init, ClearedItems
<1>2. ~ EmptyItem.in_use /\ EmptyItem.key \notin Keys
  BY DoorPlateAssumption DEF EmptyItem
<1>3. \A p \in Procs : ~ AtItem(p)
  BY DEF Init, AtItem
<1> QED BY <1>1, <1>2, <1>3 DEF PlaceInv, EachKeyOnePlace, NamesAreFound, ItemInHand

\* A key that an item spells, and that the search finds there, is found.
LEMMA FoundThere ==
  ASSUME NEW k \in Keys, CalcIndex(k) \in Items, items[CalcIndex(k)].key = k
  PROVE  Found(k) /\ Comes(k, CalcIndex(k))
BY SearchComes, DoorPlateAssumption DEF Found, ItemKeyMatch, Items

\* A key that is not damaged is found, or spelt nowhere.
LEMMA FoundOrNowhere ==
  ASSUME NamesAreFound, NEW k \in Keys \ damaged
  PROVE  \/ Found(k) /\ Settled(k)
         \/ ~ Found(k) /\ \A i \in Items : items[i].key # k
<1>1. ASSUME NEW i \in Items, items[i].key = k PROVE Found(k) /\ Settled(k)
  <2>1. Settled(k)
    BY <1>1 DEF NamesAreFound
  <2> QED BY <2>1, FoundThere DEF Settled
<1>2. Found(k) => \E i \in Items : items[i].key = k
  BY SearchStops DEF Found, ItemKeyMatch
<1> QED BY <1>1, <1>2

\* What is spelt nowhere is not found.
LEMMA NowhereNext ==
  ASSUME NEW k \in Keys, \A i \in Items : items'[i].key # k
  PROVE  ~ Found(k)'
BY SearchEndsNext DEF Found, ItemKeyMatch

\* A damaged key cannot be in an item that is not.
LEMMA SettledStays ==
  ASSUME NEW k \in Keys, Settled(k), CalcIndex(k)' = CalcIndex(k),
         items'[CalcIndex(k)].in_use, items'[CalcIndex(k)].key = k
  PROVE  Settled(k)'
BY DEF Settled

\* Steps that leave the table alone.
LEMMA TableStays ==
  ASSUME PlaceInv, items' = items, damaged \subseteq damaged', stray \subseteq stray',
         \A q \in Procs : AtItem(q)' => pc'[q] = pc[q] /\ at'[q] = at[q] /\ op'[q] = op[q]
  PROVE  PlaceInv'
<1>1. \A k : CalcIndex(k)' = CalcIndex(k)
  BY DEF CalcIndex, ItemTryPlace, ItemKeyMatch
<1>2. EachKeyOnePlace'
  BY <1>1 DEF PlaceInv, EachKeyOnePlace
<1>3. NamesAreFound'
  BY <1>1 DEF PlaceInv, NamesAreFound, Settled
<1>4. ItemInHand'
  BY <1>1 DEF PlaceInv, ItemInHand, AtItem
<1> QED BY <1>2, <1>3, <1>4 DEF PlaceInv

\* memset: an item whose search does not come to item i stays found.
LEMMA WipePlaces ==
  ASSUME TypeInv, PlaceInv, NEW i \in Items, NEW item \in ItemRecords, Wipe(i, item),
         \A q \in Procs : AtItem(q)' => pc'[q] = pc[q] /\ at'[q] = at[q] /\ op'[q] = op[q]
  PROVE  /\ PlaceInv'
         /\ \A j \in Items : j # i => items'[j] = items[j]
         /\ damaged \subseteq damaged'
         /\ \A k \in Keys \ damaged' :
              /\ items'[i].key # k
              /\ Found(k) => CalcIndex(k)' = CalcIndex(k) /\ CalcIndex(k) # i
<1>0. /\ items \in [Items -> ItemRecords]
      /\ \A q \in Procs : AtItem(q) => at[q] \in Items
  BY DEF TypeInv, TableOK, CallsOK, HandOK
<1>1. /\ \A j \in Items : j # i => items'[j] = items[j]
      /\ items'[i] = item
  BY <1>0 DEF Wipe
<1>2. /\ damaged' = damaged \cup Lost(i) \cup (Keys \cap {item.key})
      /\ stray' = stray \cup {k \in Lost(i) : CalcIndex(k) # i} \cup (Keys \cap {item.key})
  BY DEF Wipe
<1>3. \A k \in Keys : ~ Comes(k, i) => CalcIndex(k)' = CalcIndex(k)
  <2>1. \A k \in Keys, j \in Items : j # i => (ItemTryPlace(j, k)' <=> ItemTryPlace(j, k))
    BY <1>1 DEF ItemTryPlace, ItemKeyMatch
  <2> QED BY <2>1, SearchEndsBefore
<1>4. ASSUME NEW k \in Keys, k \notin stray', NEW j \in Items, j # i,
             items[j].key = k, CalcIndex(k) = j
      PROVE  CalcIndex(k)' = j
  <2>1. Found(k)
    BY <1>4, FoundThere
  <2>2. k \notin Lost(i)
    BY <1>2, <1>4
  <2> QED BY <1>3, <1>4, <2>1, <2>2 DEF Lost
<1>5. EachKeyOnePlace'
  <2>1. ASSUME NEW j \in Items, items'[j].in_use, items'[j].key \in Keys \ stray'
        PROVE  CalcIndex(items[j].key)' = j
    <3>1. j # i
      BY <1>1, <1>2, <2>1
    <3>2. PICK k \in Keys : k = items'[j].key
      BY <2>1
    <3>3. items[j].in_use /\ items[j].key = k /\ k \notin stray
      BY <1>1, <1>2, <2>1, <3>1, <3>2
    <3>4. CalcIndex(k) = j
      BY <3>3 DEF PlaceInv, EachKeyOnePlace
    <3>5. CalcIndex(k)' = j
      BY <1>4, <2>1, <3>1, <3>2, <3>3, <3>4
    <3> QED BY <3>2, <3>5
  <2> QED BY <2>1 DEF EachKeyOnePlace
<1>6. ASSUME NEW k \in Keys \ damaged', Found(k)
      PROVE  CalcIndex(k)' = CalcIndex(k) /\ CalcIndex(k) # i
  <2>1. CalcIndex(k) \in Items
    BY <1>6, SearchStops DEF Found
  <2>2. Comes(k, CalcIndex(k)) /\ ~ Comes(k, i)
    BY <1>2, <1>6, <2>1, SearchComes DEF Lost
  <2> QED BY <1>3, <2>2
<1>7. NamesAreFound'
  <2>1. ASSUME NEW j \in Items, items'[j].key \in Keys \ damaged'
        PROVE  Settled(items[j].key)'
    <3>1. j # i
      BY <1>1, <1>2, <2>1
    <3>2. PICK k \in Keys \ damaged' : k = items'[j].key
      BY <2>1
    <3>3. k \in Keys \ damaged /\ items[j].key = k
      BY <1>1, <1>2, <3>1, <3>2
    <3>4. Found(k) /\ Settled(k)
      BY <3>3, FoundOrNowhere DEF PlaceInv
    <3>5. CalcIndex(k)' = CalcIndex(k) /\ CalcIndex(k) # i /\ CalcIndex(k) \in Items
      BY <1>6, <3>4 DEF Settled
    <3>6. Settled(k)'
      BY <1>1, <3>4, <3>5, SettledStays DEF Settled
    <3> QED BY <3>2, <3>6
  <2> QED BY <2>1 DEF NamesAreFound
<1>8. ItemInHand'
  <2>1. ASSUME NEW q \in Procs, AtItem(q)', items'[at'[q]].key \in Keys
        PROVE  /\ items'[at'[q]].key \notin stray' => CalcIndex(items[at[q]].key)' = at'[q]
               /\ \/ items'[at'[q]].key \in damaged'
                  \/ pc'[q] = "locate" /\ items'[at'[q]].key = op'[q].key
    <3>1. AtItem(q) /\ pc'[q] = pc[q] /\ at'[q] = at[q] /\ op'[q] = op[q] /\ at[q] \in Items
      BY <1>0, <2>1 DEF AtItem
    <3>2. CASE at[q] = i
      BY <1>1, <1>2, <2>1, <3>1, <3>2
    <3>3. CASE at[q] # i
      <4>1. PICK k \in Keys : k = items[at[q]].key /\ items'[at'[q]].key = k
        BY <1>1, <2>1, <3>1, <3>3
      <4>2. /\ k \notin stray => CalcIndex(k) = at[q]
            /\ k \in damaged \/ (pc[q] = "locate" /\ k = op[q].key)
        BY <3>1, <4>1 DEF PlaceInv, ItemInHand
      <4>3. k \notin stray' => CalcIndex(k)' = at[q]
        BY <1>2, <1>4, <3>1, <3>3, <4>1, <4>2
      <4> QED BY <1>2, <3>1, <4>1, <4>2, <4>3
    <3> QED BY <3>2, <3>3
  <2> QED BY <2>1 DEF ItemInHand
<1> QED BY <1>1, <1>2, <1>5, <1>6, <1>7, <1>8 DEF PlaceInv

\* A name, whole or torn, that goes into an item not in use.
LEMMA NamePlaces ==
  ASSUME TypeInv, PlaceInv, NEW i \in Items, ~ items[i].in_use,
         NEW name \in Keys \cup {NoKey}, items' = [items EXCEPT ![i].key = name],
         damaged \subseteq damaged', name \in Keys => name \in damaged', stray' = stray,
         \A q \in Procs : AtItem(q)' =>
           /\ pc'[q] = "use" /\ at'[q] = i
           /\ name \in Keys /\ CalcIndex(name) = i
  PROVE  /\ PlaceInv'
         /\ \A k \in Keys : CalcIndex(k)' = CalcIndex(k)
         /\ \A j \in Items : j # i => items'[j] = items[j]
         /\ items'[i].key = name /\ ~ items'[i].in_use
<1>1. /\ \A j \in Items : j # i => items'[j] = items[j]
      /\ items'[i].key = name /\ ~ items'[i].in_use
  BY DEF TypeInv, TableOK, ItemRecords
<1>2. \A k \in Keys : CalcIndex(k)' = CalcIndex(k)
  <2>1. \A k \in Keys, j \in Items : ItemTryPlace(j, k)' <=> ItemTryPlace(j, k)
    BY <1>1 DEF ItemTryPlace, ItemKeyMatch
  <2> QED BY <2>1, SameSearch
<1>3. EachKeyOnePlace'
  <2>1. ASSUME NEW j \in Items, items'[j].in_use, items'[j].key \in Keys \ stray'
        PROVE  CalcIndex(items[j].key)' = j
    <3>1. items'[j] = items[j]
      BY <1>1, <2>1
    <3>2. PICK k \in Keys : k = items'[j].key
      BY <2>1
    <3>3. CalcIndex(k) = j
      BY <2>1, <3>1, <3>2 DEF PlaceInv, EachKeyOnePlace
    <3> QED BY <1>2, <3>2, <3>3
  <2> QED BY <2>1 DEF EachKeyOnePlace
<1>4. NamesAreFound'
  <2>1. ASSUME NEW j \in Items, items'[j].key \in Keys \ damaged' PROVE Settled(items[j].key)'
    <3>1. j # i
      BY <1>1, <2>1
    <3>2. PICK k \in Keys : k = items'[j].key
      BY <2>1
    <3>3. Settled(k)
      BY <1>1, <2>1, <3>1, <3>2 DEF PlaceInv, NamesAreFound
    <3>4. CalcIndex(k) # i
      BY <3>3 DEF Settled
    <3>5. Settled(k)'
      BY <1>1, <1>2, <3>3, <3>4, SettledStays DEF Settled
    <3> QED BY <3>2, <3>5
  <2> QED BY <2>1 DEF NamesAreFound
<1>5. ItemInHand'
  <2>1. ASSUME NEW q \in Procs, AtItem(q)'
        PROVE  /\ items'[at'[q]].key = name /\ at'[q] = i /\ name \in damaged'
               /\ CalcIndex(name)' = i
    BY <1>1, <1>2, <2>1
  <2> QED BY <2>1 DEF ItemInHand
<1> QED BY <1>1, <1>2, <1>3, <1>4, <1>5 DEF PlaceInv

\* The process at work is the only one at an item.
LEMMA OthersAreNotAtItems ==
  ASSUME CallsOK, NEW p \in Procs, Placing(p), NEW l, pc' = [pc EXCEPT ![p] = l]
  PROVE  /\ pc'[p] = l
         /\ \A q \in Procs : q # p => ~ AtItem(q) /\ ~ AtItem(q)'
BY PlacerIsAlone DEF AtItem, Placing, CallsOK

LEMMA PlacePlaces ==
  ASSUME TypeInv, PlaceInv, NEW p \in Procs, Place(p)
  PROVE  /\ PlaceInv' /\ op[p].key \in Keys /\ acked' = acked /\ started' = started
         /\ damaged \subseteq damaged'
         /\ \A k \in Keys : CalcIndex(k)' = CalcIndex(k)
         /\ \/ items' = items
            \/ \E i \in Items :
                 /\ \A j \in Items : j # i => items'[j] = items[j]
                 /\ ~ items[i].in_use /\ items'[i].key \in damaged'
<1> SUFFICES ASSUME NEW k, NEW i, k = op[p].key, i = CalcIndex(k)
             PROVE  /\ PlaceInv' /\ k \in Keys /\ acked' = acked /\ started' = started
                    /\ damaged \subseteq damaged'
                    /\ \A x \in Keys : CalcIndex(x)' = CalcIndex(x)
                    /\ \/ items' = items
                       \/ \E n \in Items :
                            /\ \A j \in Items : j # n => items'[j] = items[j]
                            /\ ~ items[n].in_use /\ items'[n].key \in damaged'
  OBVIOUS
<1>0. /\ pc[p] = "place" /\ Placing(p) /\ k \in Keys /\ i \in Items /\ CallsOK
      /\ at' = [at EXCEPT ![p] = i]
      /\ op' = op /\ acked' = acked /\ started' = started /\ stray' = stray
  BY PlaceIsItem DEF Place, Placing, TypeInv
<1>1. at'[p] = i
  BY <1>0 DEF CallsOK
<1>2. CASE items[i].in_use /\ Goto(p, "locate") /\ UNCHANGED <<items, damaged>>
  <2>1. items' = items /\ pc'[p] = "locate" /\ \A q \in Procs : q # p => ~ AtItem(q)'
    BY <1>0, <1>2, OthersAreNotAtItems DEF Goto
  <2>2. \A x : CalcIndex(x)' = CalcIndex(x)
    BY <2>1 DEF CalcIndex, ItemTryPlace, ItemKeyMatch
  <2>3. EachKeyOnePlace' /\ NamesAreFound'
    BY <1>0, <1>2, <2>2 DEF PlaceInv, EachKeyOnePlace, NamesAreFound, Settled
  <2>4. items[i].key = k
    BY <1>0, <1>2, SearchStops, DoorPlateAssumption DEF ItemTryPlace, ItemKeyMatch, Items
  <2>5. ItemInHand'
    <3>1. op'[p].key = k /\ CalcIndex(k)' = i /\ items'[at'[p]].key = k /\ at'[p] = i
      BY <1>0, <1>1, <2>1, <2>2, <2>4
    <3> QED BY <2>1, <3>1 DEF ItemInHand
  <2> QED BY <1>0, <1>2, <2>2, <2>3, <2>5 DEF PlaceInv
<1>3. CASE /\ ~ items[i].in_use /\ Goto(p, "use")
           /\ PlaceKey(i, k) /\ damaged' = damaged \cup {k}
  <2>1. items' = [items EXCEPT ![i].key = k] /\ pc'[p] = "use"
        /\ \A q \in Procs : q # p => ~ AtItem(q)'
    BY <1>0, <1>3, OthersAreNotAtItems DEF Goto, PlaceKey
  <2>2. /\ PlaceInv'
        /\ \A x \in Keys : CalcIndex(x)' = CalcIndex(x)
        /\ \A j \in Items : j # i => items'[j] = items[j]
        /\ items'[i].key = k
    <3>1. \A q \in Procs : AtItem(q)' =>
            pc'[q] = "use" /\ at'[q] = i /\ k \in Keys /\ CalcIndex(k) = i
      BY <1>0, <1>1, <2>1
    <3>2. ~ items[i].in_use /\ k \in damaged' /\ damaged \subseteq damaged' /\ stray' = stray
      BY <1>0, <1>3
    <3>3. PICK n \in Items, name \in Keys \cup {NoKey} : n = i /\ name = k
      BY <1>0
    <3>4. /\ ~ items[n].in_use /\ name \in damaged'
          /\ items' = [items EXCEPT ![n].key = name]
          /\ \A q \in Procs : AtItem(q)' =>
               pc'[q] = "use" /\ at'[q] = n /\ name \in Keys /\ CalcIndex(name) = n
      BY <2>1, <3>1, <3>2, <3>3
    <3>5. /\ PlaceInv'
          /\ \A x \in Keys : CalcIndex(x)' = CalcIndex(x)
          /\ \A j \in Items : j # n => items'[j] = items[j]
          /\ items'[n].key = name
      BY <3>2, <3>4, NamePlaces
    <3> QED BY <3>3, <3>5
  <2> QED BY <1>0, <1>3, <2>2
<1> QED BY <1>2, <1>3 DEF Place

LEMMA TearPlaces ==
  ASSUME TypeInv, PlaceInv, NEW p \in Procs, CrashInPlace(p)
  PROVE  /\ PlaceInv' /\ acked' = acked /\ started' = started
         /\ damaged \subseteq damaged'
         /\ \A k \in Keys : CalcIndex(k)' = CalcIndex(k)
         /\ \E i \in Items :
              /\ \A j \in Items : j # i => items'[j] = items[j]
              /\ ~ items[i].in_use
              /\ items'[i].key \in Keys => items'[i].key \in damaged'
<1>0. /\ pc[p] = "place" /\ Placing(p) /\ CallsOK /\ Dies(p) /\ stray' = stray
      /\ op[p].key \in Keys /\ CalcIndex(op[p].key) \in Items
  BY PlaceIsItem DEF CrashInPlace, Placing, TypeInv
<1>1. PICK i \in Items : i = CalcIndex(op[p].key)
  BY <1>0
<1>2. /\ ~ items[i].in_use /\ TearKey(i, op[p].key)
      /\ damaged' = damaged \cup (Keys \cap {items'[i].key})
  BY <1>1 DEF CrashInPlace
<1>3. PICK name \in Torn(items[i].key, op[p].key) : items' = [items EXCEPT ![i].key = name]
  BY <1>2 DEF TearKey
<1>4. name \in Keys \cup {NoKey}
  <2>1. items[i].key \in Keys \cup {NoKey}
    BY DEF TypeInv, TableOK, ItemRecords
  <2> QED BY <1>0, <1>3, <2>1, DoorPlateAssumption
<1>5. \A q \in Procs : ~ AtItem(q)'
  <2>1. pc' = [pc EXCEPT ![p] = "closed"]
    BY <1>0 DEF Dies, Exit, Goto
  <2>2. pc'[p] = "closed" /\ \A q \in Procs : q # p => ~ AtItem(q)'
    BY <1>0, <2>1, OthersAreNotAtItems
  <2> QED BY <2>2 DEF AtItem
<1>6. items'[i].key = name
  BY <1>3 DEF TypeInv, TableOK, ItemRecords
<1>7. /\ PlaceInv'
      /\ \A k \in Keys : CalcIndex(k)' = CalcIndex(k)
      /\ \A j \in Items : j # i => items'[j] = items[j]
  BY <1>0, <1>2, <1>3, <1>4, <1>5, <1>6, NamePlaces
<1> QED BY <1>0, <1>2, <1>7 DEF Dies

LEMMA UsePlaces ==
  ASSUME TypeInv, PlaceInv, NEW p \in Procs, Use(p)
  PROVE  /\ PlaceInv' /\ acked' = acked /\ started' = started /\ damaged' = damaged
         /\ \/ items' = items
            \/ \E i \in Items :
                 /\ ~ items[i].in_use /\ items'[i].key = items[i].key
                 /\ \A j \in Items : j # i => items'[j] = items[j]
                 /\ \A k \in Keys \ damaged : CalcIndex(k) # i => CalcIndex(k)' = CalcIndex(k)
<1> SUFFICES
      ASSUME NEW i, i = at[p]
      PROVE  /\ PlaceInv' /\ acked' = acked /\ started' = started /\ damaged' = damaged
             /\ \/ items' = items
                \/ \E n \in Items :
                     /\ ~ items[n].in_use /\ items'[n].key = items[n].key
                     /\ \A j \in Items : j # n => items'[j] = items[j]
                     /\ \A k \in Keys \ damaged : CalcIndex(k) # n => CalcIndex(k)' = CalcIndex(k)
  OBVIOUS
<1>0. /\ pc[p] = "use" /\ Placing(p) /\ AtItem(p) /\ CallsOK /\ i \in Items
      /\ items \in [Items -> ItemRecords]
      /\ items' = [items EXCEPT ![i].in_use = TRUE]
      /\ pc' = [pc EXCEPT ![p] = "locate"]
      /\ UNCHANGED <<at, op, damaged, stray, acked, started>>
  BY DEF Use, UseItem, Goto, Placing, AtItem, callVars, ghostVars, TypeInv, CallsOK, HandOK, TableOK
<1>1. pc'[p] = "locate" /\ \A q \in Procs : q # p => ~ AtItem(q)'
  BY <1>0, OthersAreNotAtItems
<1>2. /\ \A j \in Items : j # i => items'[j] = items[j]
      /\ items'[i].key = items[i].key /\ items'[i].in_use
  BY <1>0 DEF ItemRecords
<1>3. items[i].key \in Keys =>
        /\ items[i].key \notin stray => CalcIndex(items[i].key) = i
        /\ items[i].key \in damaged
  BY <1>0 DEF PlaceInv, ItemInHand
\* No search but those for other keys goes on.
<1>4. ASSUME NEW k \in Keys, k = items[i].key \/ CalcIndex(k) # i
      PROVE  CalcIndex(k)' = CalcIndex(k)
  <2>1. \A j \in Items : j # i => (ItemTryPlace(j, k)' <=> ItemTryPlace(j, k))
    BY <1>2 DEF ItemTryPlace, ItemKeyMatch
  <2>2. CASE items[i].in_use \/ items[i].key = k
    <3>1. ItemTryPlace(i, k)' <=> ItemTryPlace(i, k)
      BY <1>0, <1>2, <2>2 DEF ItemTryPlace, ItemKeyMatch
    <3> QED BY <2>1, <3>1, SameSearch
  <2>3. CASE items[i].key # k
    <3>1. ~ ItemTryPlace(i, k)'
      BY <1>2, <2>3 DEF ItemTryPlace, ItemKeyMatch
    <3> QED BY <1>0, <1>4, <2>1, <2>3, <3>1, SearchPasses
  <2> QED BY <2>2, <2>3
<1>5. EachKeyOnePlace'
  <2>1. ASSUME NEW j \in Items, items'[j].in_use, items'[j].key \in Keys \ stray'
        PROVE  CalcIndex(items[j].key)' = j
    <3>1. PICK k \in Keys : k = items'[j].key /\ k = items[j].key /\ k \notin stray
      BY <1>0, <1>2, <2>1
    <3>2. CalcIndex(k) = j
      BY <1>2, <1>3, <2>1, <3>1 DEF PlaceInv, EachKeyOnePlace
    <3>3. k = items[i].key \/ CalcIndex(k) # i
      BY <3>1, <3>2
    <3> QED BY <1>4, <3>1, <3>2, <3>3
  <2>2. \A j \in Items : items'[j].key = items[j].key
    BY <1>2
  <2> QED BY <2>1, <2>2 DEF EachKeyOnePlace
<1>6. NamesAreFound'
  <2>1. ASSUME NEW j \in Items, items'[j].key \in Keys \ damaged' PROVE Settled(items[j].key)'
    <3>1. PICK k \in Keys : k = items'[j].key /\ k = items[j].key /\ k \notin damaged
      BY <1>0, <1>2, <2>1
    <3>2. Settled(k)
      BY <3>1 DEF PlaceInv, NamesAreFound
    <3>3. CASE CalcIndex(k) = i
      BY <1>3, <3>1, <3>2, <3>3 DEF Settled
    <3>4. CASE CalcIndex(k) # i
      <4>1. CalcIndex(k)' = CalcIndex(k) /\ items'[CalcIndex(k)] = items[CalcIndex(k)]
        BY <1>2, <1>4, <3>2, <3>4 DEF Settled
      <4>2. Settled(k)'
        BY <3>2, <4>1, SettledStays DEF Settled
      <4> QED BY <3>1, <4>2
    <3> QED BY <3>3, <3>4
  <2>2. \A j \in Items : items'[j].key = items[j].key
    BY <1>2
  <2> QED BY <2>1, <2>2 DEF NamesAreFound
<1>7. ItemInHand'
  <2>1. at'[p] = i /\ items'[i].key = items[i].key
    BY <1>0, <1>2
  <2>2. ASSUME NEW k \in Keys, k = items[i].key
        PROVE  (k \notin stray' => CalcIndex(k)' = i) /\ k \in damaged'
    BY <1>0, <1>3, <1>4, <2>2
  <2> QED BY <1>1, <2>1, <2>2 DEF ItemInHand
<1>8. CASE items[i].in_use
  <2>1. items' = items
    BY <1>0, <1>8 DEF ItemRecords
  <2> QED BY <1>0, <1>5, <1>6, <1>7, <2>1 DEF PlaceInv
<1>9. CASE ~ items[i].in_use
  BY <1>0, <1>2, <1>4, <1>5, <1>6, <1>7, <1>9 DEF PlaceInv
<1> QED BY <1>8, <1>9

\* A location that is stored, whole or in part, moves no key.
LEMMA LocationPlaces ==
  ASSUME TypeInv, PlaceInv, NEW p \in Procs, pc[p] = "locate",
         NEW l \in Locations, SetLocation(at[p], l),
         NEW label \in {"idle", "closed"}, pc' = [pc EXCEPT ![p] = label],
         stray' = stray, damaged \ {op[p].key} \subseteq damaged',
         op[p].key \notin damaged' => Settled(op[p].key)
  PROVE  /\ PlaceInv'
         /\ \A k \in Keys : CalcIndex(k)' = CalcIndex(k)
         /\ \A j \in Items : j # at[p] => items'[j] = items[j]
         /\ items'[at[p]].key = items[at[p]].key /\ items'[at[p]].location = l
<1> SUFFICES
      ASSUME NEW k, NEW i, k = op[p].key, i = at[p]
      PROVE  /\ PlaceInv'
             /\ \A x \in Keys : CalcIndex(x)' = CalcIndex(x)
             /\ \A j \in Items : j # i => items'[j] = items[j]
             /\ items'[i].key = items[i].key /\ items'[i].location = l
  OBVIOUS
<1>1. /\ CallsOK /\ k \in Keys /\ i \in Items /\ Placing(p)
      /\ items \in [Items -> ItemRecords]
  BY DEF TypeInv, CallsOK, HandOK, Writes, TableOK, Placing, AtItem
<1>2. /\ damaged \ {k} \subseteq damaged'
      /\ k \notin damaged' => Settled(k)
  OBVIOUS
<1>3. \A q \in Procs : ~ AtItem(q)'
  BY <1>1, OthersAreNotAtItems DEF AtItem
<1>4. /\ \A j \in Items : j # i => items'[j] = items[j]
      /\ \A j \in Items : items'[j].key = items[j].key /\ items'[j].in_use = items[j].in_use
      /\ items'[i].location = l
  BY <1>1 DEF SetLocation, ItemRecords
<1>5. \A x \in Keys : CalcIndex(x)' = CalcIndex(x)
  <2>1. \A x \in Keys, j \in Items : ItemTryPlace(j, x)' <=> ItemTryPlace(j, x)
    BY <1>4 DEF ItemTryPlace, ItemKeyMatch
  <2> QED BY <2>1, SameSearch
<1>6. EachKeyOnePlace'
  <2>1. ASSUME NEW j \in Items, items'[j].in_use, items'[j].key \in Keys \ stray'
        PROVE  CalcIndex(items[j].key)' = j
    <3>1. PICK x \in Keys : x = items[j].key /\ x = items'[j].key
      BY <1>4, <2>1
    <3>2. CalcIndex(x) = j
      BY <1>4, <2>1, <3>1 DEF PlaceInv, EachKeyOnePlace
    <3> QED BY <1>5, <3>1, <3>2
  <2> QED BY <1>4, <2>1 DEF EachKeyOnePlace
<1>7. NamesAreFound'
  <2>1. ASSUME NEW j \in Items, items'[j].key \in Keys \ damaged' PROVE Settled(items[j].key)'
    <3>1. PICK x \in Keys \ damaged' : x = items[j].key /\ x = items'[j].key
      BY <1>4, <2>1
    <3>2. Settled(x)
      BY <1>2, <3>1 DEF PlaceInv, NamesAreFound
    <3>3. Settled(x)'
      BY <1>4, <1>5, <3>2, SettledStays DEF Settled
    <3> QED BY <3>1, <3>3
  <2> QED BY <1>4, <2>1 DEF NamesAreFound
<1>8. ItemInHand'
  BY <1>3 DEF ItemInHand
<1>9. PlaceInv'
  BY <1>6, <1>7, <1>8 DEF PlaceInv
<1>10. /\ \A j \in Items : j # i => items'[j] = items[j]
       /\ items'[i].key = items[i].key /\ items'[i].location = l
  BY <1>1, <1>4
<1> QED BY <1>5, <1>9, <1>10, Zenon

LEMMA LocatePlaces ==
  ASSUME TypeInv, PlaceInv, NEW p \in Procs, Locate(p) \/ CrashInLocate(p)
  PROVE  /\ PlaceInv'
         /\ pc[p] = "locate"
         /\ \A k \in Keys : CalcIndex(k)' = CalcIndex(k)
         /\ \A j \in Items : j # at[p] => items'[j] = items[j]
         /\ items'[at[p]].key = items[at[p]].key
         /\ \/ items'[at[p]].location = loc[p] /\ Located(p)
            \/ damaged' = damaged \cup {op[p].key} /\ acked' = acked
<1>1. /\ pc[p] = "locate"
      /\ \E label \in {"idle", "closed"} : pc' = [pc EXCEPT ![p] = label]
      /\ stray' = stray
      /\ damaged \ {op[p].key} \subseteq damaged'
  BY DEF Locate, CrashInLocate, Located, Return, Dies, Exit, Goto
<1>2. /\ loc[p] \in Locations /\ at[p] \in Items /\ items[at[p]].location \in Locations
      /\ op[p].key \in Keys
  BY <1>1 DEF Placing, AtItem, TypeInv, CallsOK, HandOK, TableOK, ItemRecords, Writes
<1>3. CASE Located(p)
  <2>1. op[p].key \notin damaged' => Settled(op[p].key)
    BY <1>2, <1>3 DEF Located, Holds, Settled
  <2> QED BY <1>1, <1>2, <1>3, <2>1, LocationPlaces DEF Located
<1>4. CASE ~ Located(p)
  <2>1. PICK words \in SUBSET {"file_no", "offset", "len"} \ {{}} :
          SetLocation(at[p], Mixed(items[at[p]].location, loc[p], words))
    BY <1>4 DEF Locate, CrashInLocate
  <2>2. damaged' = damaged \cup {op[p].key} /\ acked' = acked
    BY <1>4 DEF Locate, CrashInLocate, Dies
  <2>3. Mixed(items[at[p]].location, loc[p], words) \in Locations
    BY <1>2, MixedLocation
  <2> QED BY <1>1, <1>2, <2>1, <2>2, <2>3, LocationPlaces
<1> QED BY <1>3, <1>4

\* The steps of memset.
LEMMA ClearPlaces ==
  ASSUME TypeInv, PlaceInv, NEW p \in Procs, ClearItem(p) \/ CrashInClear(p)
  PROVE  /\ PlaceInv' /\ acked' = acked /\ started' = started
         /\ damaged \subseteq damaged'
         /\ \E i \in Items :
              /\ \A j \in Items : j # i => items'[j] = items[j]
              /\ \A k \in Keys \ damaged' :
                   /\ items'[i].key # k
                   /\ Found(k) => CalcIndex(k)' = CalcIndex(k) /\ CalcIndex(k) # i
<1>1. pc[p] = "clear" /\ acked' = acked /\ started' = started
      /\ uncleared[p] \subseteq Items /\ CallsOK /\ TableOK
  BY DEF ClearItem, CrashInClear, Dies, TypeInv, ClearOK
<1>2. \E i \in uncleared[p], item \in ItemRecords : Wipe(i, item)
  <2>1. CASE ClearItem(p)
    <3>1. EmptyItem \in ItemRecords
      BY DEF EmptyItem, ItemRecords, NoLocation, Location, Locations
    <3> QED BY <2>1, <3>1 DEF ClearItem
  <2>2. CASE CrashInClear(p)
    <3>1. PICK i \in uncleared[p] : \E item \in PartlyCleared(i) : Wipe(i, item)
      BY <2>2 DEF CrashInClear
    <3>2. PICK item \in PartlyCleared(i) : Wipe(i, item)
      BY <3>1
    <3>3. item \in ItemRecords
      BY <1>1, <3>1, <3>2, PartlyClearedTypes
    <3> QED BY <3>2, <3>3
  <2> QED BY <2>1, <2>2
<1>3. PICK i \in uncleared[p] : \E item \in ItemRecords : Wipe(i, item)
  BY <1>2
<1>4. PICK item \in ItemRecords : Wipe(i, item)
  BY <1>3
<1>5. \A q \in Procs : AtItem(q)' => pc'[q] = pc[q] /\ at'[q] = at[q] /\ op'[q] = op[q]
  <2>1. CASE ClearItem(p)
    BY <1>1, <2>1 DEF ClearItem, Goto, callVars, AtItem, CallsOK
  <2>2. CASE CrashInClear(p)
    BY <1>1, <2>2 DEF CrashInClear, Dies, Exit, Goto, Forget, AtItem, CallsOK
  <2> QED BY <2>1, <2>2
<1>6. i \in Items
  BY <1>1
<1> QED BY <1>1, <1>4, <1>5, <1>6, WipePlaces

\* Steps of an opener, and those of a writer before and beside AddOrUpdate.
LEMMA OtherPlaces ==
  ASSUME TypeInv, CountInv, PlaceInv, NEW p \in Procs,
         \/ OpenStep(p) /\ ~ ClearItem(p)
         \/ AppendValue(p) \/ AppendValueFails(p) \/ Refuse(p) \/ BusError(p)
         \/ Close(p) \/ CrashBetween(p) \/ CrashInAppend(p)
  PROVE  /\ PlaceInv'
         /\ items' = items /\ damaged' = damaged /\ acked' = acked
         /\ started \subseteq started'
<1>0. CallsOK
  BY DEF TypeInv
<1>1. items' = items /\ damaged' = damaged /\ stray' = stray /\ acked' = acked
      /\ started \subseteq started'
  BY DEF OpenStep, OpenMeta, CreateMeta, Allocate, ClearRacing, OpenStore, TakeLock, AppendValue,
     AppendValueFails, Refuse, BusError, Close, CrashBetween, CrashInAppend, Dies, Starts, ghostVars
<1>2. CASE OpenStep(p) /\ ~ ClearItem(p)
  <2>1. \A q \in Procs : q # p => pc'[q] = pc[q] /\ at'[q] = at[q] /\ op'[q] = op[q]
    BY <1>0, <1>2 DEF OpenStep, OpenMeta, CreateMeta, Allocate, ClearRacing, OpenStore, TakeLock,
       Exit, Goto, Forget, callVars, CallsOK
  <2>2. pc'[p] \notin {"use", "locate"}
    BY <1>0, <1>2 DEF OpenStep, OpenMeta, CreateMeta, Allocate, ClearRacing, OpenStore, TakeLock,
       Exit, Goto, CallsOK
  <2> QED BY <1>1, <2>1, <2>2, TableStays DEF AtItem
<1>3. CASE AppendValue(p) \/ AppendValueFails(p) \/ Refuse(p)
  <2>1. /\ \A q \in Procs : q # p => pc'[q] = pc[q] /\ at'[q] = at[q] /\ op'[q] = op[q]
        /\ pc'[p] \notin {"use", "locate"}
    BY <1>0, <1>3 DEF AppendValue, AppendValueFails, Starts, Refuse, Return, Goto, Forget,
       callVars, CallsOK
  <2> QED BY <1>1, <2>1, TableStays DEF AtItem
<1>4. CASE Close(p) \/ BusError(p) \/ CrashBetween(p) \/ CrashInAppend(p)
  <2>1. Exit(p)
    BY <1>4 DEF Close, BusError, CrashBetween, CrashInAppend, Dies
  <2>2. /\ \A q \in Procs : q # p => pc'[q] = pc[q] /\ at'[q] = at[q] /\ op'[q] = op[q]
        /\ pc'[p] = "closed"
    BY <1>0, <2>1 DEF Exit, Goto, Forget, CallsOK
  <2> QED BY <1>1, <2>2, TableStays DEF AtItem
<1> QED BY <1>1, <1>2, <1>3, <1>4

LEMMA NextPlaces ==
  ASSUME TypeInv, CountInv, PlaceInv, [Next]_vars
  PROVE  PlaceInv'
<1>1. CASE Next
  <2>1. PICK p \in Procs : OpenStep(p) \/ WriteStep(p) \/ Close(p) \/ Death(p)
    BY <1>1 DEF Next
  <2>2. CASE ClearItem(p) \/ CrashInClear(p)
    BY <2>2, ClearPlaces
  <2>3. CASE Place(p)
    BY <2>3, PlacePlaces
  <2>4. CASE CrashInPlace(p)
    BY <2>4, TearPlaces
  <2>5. CASE Use(p)
    BY <2>5, UsePlaces
  <2>6. CASE Locate(p) \/ CrashInLocate(p)
    BY <2>6, LocatePlaces
  <2> QED BY <2>1, <2>2, <2>3, <2>4, <2>5, <2>6, OtherPlaces DEF WriteStep, Death
<1>2. CASE UNCHANGED vars
  <2>1. items' = items /\ damaged' = damaged /\ stray' = stray /\ pc' = pc /\ at' = at /\ op' = op
    BY <1>2 DEF vars, callVars, ghostVars
  <2> QED BY <2>1, TableStays
<1> QED BY <1>1, <1>2

TableInv == TypeInv /\ StoreInv /\ CountInv /\ PlaceInv

LEMMA TableInvHolds == Spec => []TableInv
<1>1. Init => TableInv
  BY InitTypes, InitCount, InitPlaces DEF TableInv
<1>2. TableInv /\ [Next]_vars => TableInv'
  BY NextTypes, NextPlaces DEF TableInv
<1> QED BY <1>1, <1>2, PTL DEF Spec

\* Whoever dies in AddOrUpdate or in the memset of Init, and wherever, a key has
\* no two items in use, and the search for it comes to the one it has, unless
\* memset has cleared an item on its way, or left the name itself.
THEOREM KeysHaveOnePlace == Spec => []EachKeyOnePlace
<1>1. TableInv => EachKeyOnePlace
  BY DEF TableInv, PlaceInv
<1> QED BY <1>1, TableInvHolds, PTL

-----------------------------------------------------------------------------
(* A read finds what was written                                           *)

LEMMA InitValues == Init => ValueInv
<1> SUFFICES ASSUME Init PROVE ValueInv
  OBVIOUS
<1>1. \A p \in Procs : ~ Placing(p)
  BY DEF Init, Placing
<1>2. ASSUME NEW k \in Keys PROVE KeyIsRight(k)
  <2>1. CalcIndex(k) \in Items => items[CalcIndex(k)].key # k
    BY DoorPlateAssumption DEF Init, ClearedItems, EmptyItem
  <2>2. ~ Found(k)
    BY <2>1, SearchStops DEF Found, ItemKeyMatch
  <2>3. acked[k] = NoWrite
    BY DEF Init
  <2> QED BY <2>2, <2>3 DEF KeyIsRight
<1> QED BY <1>1, <1>2 DEF ValueInv, WriteInHand, KeysAreRight

\* Steps that leave the item of a key, and its location, alone.
LEMMA KeyStays ==
  ASSUME TableInv, TableInv', Grows(files, files'), NEW k \in Keys, KeyIsRight(k),
         CalcIndex(k)' = CalcIndex(k),
         CalcIndex(k) \in Items =>
           items'[CalcIndex(k)] = items[CalcIndex(k)]
             \/ (items[CalcIndex(k)].key # k /\ items'[CalcIndex(k)].key # k),
         acked'[k] = acked[k], started \subseteq started'
  PROVE  KeyIsRight(k)'
<1>1. CASE Found(k)
  <2>1. CalcIndex(k) \in Items /\ items[CalcIndex(k)].key = k
    BY <1>1, SearchStops DEF Found, ItemKeyMatch
  <2>2. items'[CalcIndex(k)] = items[CalcIndex(k)] /\ CalcIndex(k) # -1
    BY <1>1, <2>1 DEF Found
  <2> DEFINE l == items[CalcIndex(k)].location
  <2>3. PICK m \in Locations : m = LocationOf(k)
    BY <2>1 DEF LocationOf, TableInv, TypeInv, TableOK, ItemRecords
  <2>4. Found(k)' /\ LocationOf(k)' = m
    BY <2>1, <2>2, <2>3 DEF Found, ItemKeyMatch, LocationOf
  <2>5. Readable(m) /\ ReadValue(k) = ReadAt(m)
    BY <1>1, <2>3 DEF KeyIsRight, ReadValue
  <2>6. files \in Seq(Seq(Cells)) /\ files' \in Seq(Seq(Cells))
    BY DEF TableInv, TypeInv, StoreOK, Cells
  <2>7. Readable(m)' /\ ReadAt(m)' = ReadAt(m)
    BY <2>5, <2>6, ReadsStay
  <2>8. Readable(LocationOf(k))'
    BY <2>4, <2>7 DEF Readable
  <2>9. ReadValue(k)' = ReadValue(k)
    BY <2>4, <2>5, <2>7 DEF ReadValue, ReadAt
  <2> QED BY <1>1, <2>4, <2>8, <2>9 DEF KeyIsRight
<1>2. CASE ~ Found(k)
  <2>1. ~ Found(k)'
    <3>1. CASE CalcIndex(k) = -1
      BY <3>1 DEF Found
    <3>2. CASE CalcIndex(k) # -1
      <4>1. CalcIndex(k) \in Items /\ items[CalcIndex(k)].key # k
        BY <1>2, <3>2, SearchStops DEF Found, ItemKeyMatch
      <4>2. items'[CalcIndex(k)].key # k
        BY <4>1
      <4> QED BY <4>2 DEF Found, ItemKeyMatch
    <3> QED BY <3>1, <3>2
  <2> QED BY <1>2, <2>1 DEF KeyIsRight
<1> QED BY <1>1, <1>2

\* Steps that leave the table alone.
LEMMA SameItems ==
  ASSUME TableInv, TableInv', KeysAreRight, Grows(files, files'),
         items' = items, damaged \subseteq damaged', acked' = acked, started \subseteq started'
  PROVE  KeysAreRight'
<1>1. ASSUME NEW k \in Keys \ damaged' PROVE KeyIsRight(k)'
  <2>1. CalcIndex(k)' = CalcIndex(k)
    BY DEF CalcIndex, ItemTryPlace, ItemKeyMatch
  <2>2. KeyIsRight(k)
    BY DEF KeysAreRight
  <2> QED BY <2>1, <2>2, KeyStays
<1> QED BY <1>1 DEF KeysAreRight

\* Steps that change one item, which is none that an undamaged key is found at.
LEMMA OneItem ==
  ASSUME TableInv, TableInv', KeysAreRight, Grows(files, files'),
         damaged \subseteq damaged', acked' = acked, started \subseteq started',
         NEW i \in Items, \A j \in Items : j # i => items'[j] = items[j],
         \A k \in Keys \ damaged' :
           IF Found(k) THEN CalcIndex(k)' = CalcIndex(k) /\ CalcIndex(k) # i
                       ELSE items'[i].key # k
  PROVE  KeysAreRight'
<1>1. ASSUME NEW k \in Keys \ damaged' PROVE KeyIsRight(k)'
  <2>1. k \in Keys \ damaged /\ KeyIsRight(k)
    BY DEF KeysAreRight
  <2>2. CASE Found(k)
    <3>1. CalcIndex(k)' = CalcIndex(k) /\ CalcIndex(k) # i
      BY <2>2
    <3>2. CalcIndex(k) \in Items => items'[CalcIndex(k)] = items[CalcIndex(k)]
      BY <3>1
    <3> QED BY <2>1, <3>1, <3>2, KeyStays
  <2>3. CASE ~ Found(k)
    <3>1. \A j \in Items : items[j].key # k
      BY <2>1, <2>3, FoundOrNowhere DEF TableInv, PlaceInv
    <3>2. \A j \in Items : items'[j].key # k
      BY <2>3, <3>1
    <3>3. ~ Found(k)'
      BY <3>2, NowhereNext
    <3>4. acked'[k] = NoWrite
      BY <2>1, <2>3 DEF KeyIsRight
    <3> QED BY <3>3, <3>4 DEF KeyIsRight
  <2> QED BY <2>2, <2>3
<1> QED BY <1>1 DEF KeysAreRight

LEMMA OtherValues ==
  ASSUME TableInv, TableInv', KeysAreRight, Grows(files, files'), NEW p \in Procs,
         \/ OpenStep(p) /\ ~ ClearItem(p)
         \/ AppendValue(p) \/ AppendValueFails(p) \/ Refuse(p) \/ BusError(p)
         \/ Close(p) \/ CrashBetween(p) \/ CrashInAppend(p)
  PROVE  KeysAreRight'
<1>1. items' = items /\ damaged' = damaged /\ acked' = acked /\ started \subseteq started'
  BY OtherPlaces DEF TableInv
<1> QED BY <1>1, SameItems

LEMMA ClearValues ==
  ASSUME TableInv, TableInv', KeysAreRight, Grows(files, files'),
         NEW p \in Procs, ClearItem(p) \/ CrashInClear(p)
  PROVE  KeysAreRight'
<1>1. /\ acked' = acked /\ started' = started /\ damaged \subseteq damaged'
      /\ \E i \in Items :
           /\ \A j \in Items : j # i => items'[j] = items[j]
           /\ \A k \in Keys \ damaged' :
                /\ items'[i].key # k
                /\ Found(k) => CalcIndex(k)' = CalcIndex(k) /\ CalcIndex(k) # i
  BY ClearPlaces DEF TableInv
<1>2. PICK i \in Items :
        /\ \A j \in Items : j # i => items'[j] = items[j]
        /\ \A k \in Keys \ damaged' :
             /\ items'[i].key # k
             /\ Found(k) => CalcIndex(k)' = CalcIndex(k) /\ CalcIndex(k) # i
  BY <1>1
<1>3. \A k \in Keys \ damaged' :
        IF Found(k) THEN CalcIndex(k)' = CalcIndex(k) /\ CalcIndex(k) # i
                    ELSE items'[i].key # k
  BY <1>2
<1> QED BY <1>1, <1>2, <1>3, OneItem

\* A name goes into an item that is not in use, and the key it spells is damaged.
LEMMA NameValues ==
  ASSUME TableInv, TableInv', KeysAreRight, Grows(files, files'),
         NEW p \in Procs, Place(p) \/ CrashInPlace(p)
  PROVE  KeysAreRight'
<1>1. /\ acked' = acked /\ started' = started /\ damaged \subseteq damaged'
      /\ \A k \in Keys : CalcIndex(k)' = CalcIndex(k)
      /\ \/ items' = items
         \/ \E i \in Items :
              /\ \A j \in Items : j # i => items'[j] = items[j]
              /\ ~ items[i].in_use
              /\ items'[i].key \in Keys => items'[i].key \in damaged'
  BY PlacePlaces, TearPlaces DEF TableInv
<1>2. CASE items' = items
  BY <1>1, <1>2, SameItems
<1>3. ASSUME NEW i \in Items,
             \A j \in Items : j # i => items'[j] = items[j],
             ~ items[i].in_use,
             items'[i].key \in Keys => items'[i].key \in damaged'
      PROVE  KeysAreRight'
  <2>1. ASSUME NEW k \in Keys \ damaged', Found(k) PROVE CalcIndex(k) # i
    BY <1>1, <1>3, <2>1, FoundOrNowhere DEF TableInv, PlaceInv, Settled
  <2>2. \A k \in Keys \ damaged' :
          IF Found(k) THEN CalcIndex(k)' = CalcIndex(k) /\ CalcIndex(k) # i
                      ELSE items'[i].key # k
    BY <1>1, <1>3, <2>1
  <2> QED BY <1>1, <1>3, <2>2, OneItem
<1> QED BY <1>1, <1>2, <1>3

LEMMA UseValues ==
  ASSUME TableInv, TableInv', KeysAreRight, Grows(files, files'), NEW p \in Procs, Use(p)
  PROVE  KeysAreRight'
<1>1. /\ acked' = acked /\ started' = started /\ damaged' = damaged
      /\ \/ items' = items
         \/ \E i \in Items :
              /\ ~ items[i].in_use /\ items'[i].key = items[i].key
              /\ \A j \in Items : j # i => items'[j] = items[j]
              /\ \A k \in Keys \ damaged : CalcIndex(k) # i => CalcIndex(k)' = CalcIndex(k)
  BY UsePlaces DEF TableInv
<1>2. CASE items' = items
  BY <1>1, <1>2, SameItems
<1>3. ASSUME NEW i \in Items,
             ~ items[i].in_use, items'[i].key = items[i].key,
             \A j \in Items : j # i => items'[j] = items[j],
             \A k \in Keys \ damaged : CalcIndex(k) # i => CalcIndex(k)' = CalcIndex(k)
      PROVE  KeysAreRight'
  <2>1. ASSUME NEW k \in Keys \ damaged'
        PROVE  IF Found(k) THEN CalcIndex(k)' = CalcIndex(k) /\ CalcIndex(k) # i
                           ELSE items'[i].key # k
    <3>1. k \in Keys \ damaged
      BY <1>1
    <3>2. \/ Found(k) /\ items[CalcIndex(k)].in_use
          \/ ~ Found(k) /\ items[i].key # k
      BY <3>1, FoundOrNowhere DEF TableInv, PlaceInv, Settled
    <3> QED BY <1>3, <3>1, <3>2
  <2> QED BY <1>1, <1>3, <2>1, OneItem
<1> QED BY <1>1, <1>2, <1>3

LEMMA LocateValues ==
  ASSUME TableInv, TableInv', ValueInv, NEW p \in Procs, Locate(p) \/ CrashInLocate(p)
  PROVE  KeysAreRight'
<1> SUFFICES ASSUME NEW k0, NEW i, k0 = op[p].key, i = at[p] PROVE KeysAreRight'
  OBVIOUS
<1>0. /\ pc[p] = "locate" /\ Placing(p) /\ AtItem(p)
      /\ \A k \in Keys : CalcIndex(k)' = CalcIndex(k)
      /\ \A j \in Items : j # i => items'[j] = items[j]
      /\ items'[i].key = items[i].key
      /\ \/ items'[i].location = loc[p] /\ Located(p)
         \/ damaged' = damaged \cup {k0} /\ acked' = acked
  BY LocatePlaces DEF TableInv, Placing, AtItem
<1>1. /\ CallsOK /\ GhostsOK /\ k0 \in Keys /\ i \in Items
      /\ op[p] \in started /\ op[p].id = Cardinality(started) /\ op[p] \in Writes
      /\ op[p].key = k0 /\ at[p] = i
  BY <1>0 DEF TableInv, TypeInv, CallsOK, HandOK, CountInv, Writes
<1>2. /\ started' = started /\ files' = files
      /\ acked' = acked \/ acked' = [acked EXCEPT ![k0] = op[p]]
  BY DEF Locate, CrashInLocate, Dies, storeVars
<1>3. Grows(files, files')
  BY <1>2, GrowsReflexive DEF TableInv, TypeInv, StoreOK, Cells
<1>4. items[i].key \in Keys => items[i].key \in damaged \/ items[i].key = k0
  BY <1>0, <1>1 DEF TableInv, PlaceInv, ItemInHand
<1>5. \A k \in Keys \ damaged' : k # k0 => k \notin damaged
  BY <1>0 DEF Located
<1>6. ASSUME NEW k \in Keys \ damaged', k # k0 PROVE KeyIsRight(k)'
  <2>1. k \in Keys \ damaged /\ KeyIsRight(k) /\ acked'[k] = acked[k]
    BY <1>1, <1>2, <1>5, <1>6 DEF GhostsOK, ValueInv, KeysAreRight
  <2>2. items[i].key # k /\ items'[i].key # k
    BY <1>0, <1>4, <1>6, <2>1
  <2>3. CalcIndex(k) \in Items => items'[CalcIndex(k)] = items[CalcIndex(k)]
          \/ (items[CalcIndex(k)].key # k /\ items'[CalcIndex(k)].key # k)
    BY <1>0, <2>2
  <2> QED BY <1>0, <1>2, <1>3, <2>1, <2>3, KeyStays
<1>7. ASSUME k0 \notin damaged' PROVE KeyIsRight(k0)'
  <2>1. items'[i].location = loc[p] /\ Located(p)
    BY <1>0, <1>7
  <2>2. Holds(p) /\ ~ blind[p]
    BY <1>7, <2>1 DEF Located
  <2>3. Readable(loc[p]) /\ ReadAt(loc[p]) = Value(op[p])
    BY <1>0, <2>2 DEF ValueInv, WriteInHand
  <2>4. CalcIndex(k0)' = i /\ items'[i].key = k0
    BY <1>0, <1>1, <2>2 DEF Holds
  <2>5. Found(k0)'
    BY <1>1, <2>4, DoorPlateAssumption DEF Found, ItemKeyMatch, Items
  <2>6. LocationOf(k0)' = loc[p]
    BY <2>1, <2>4 DEF LocationOf
  <2>7. Readable(LocationOf(k0))' /\ ReadValue(k0)' = Value(op[p])
    BY <1>2, <2>3, <2>5, <2>6 DEF Readable, ReadValue, ReadAt
  <2>8. op[p].key = k0 /\ op[p].id >= acked'[k0].id
    <3>1. acked[k0].id <= Cardinality(started) /\ op[p].id \in Nat /\ acked[k0].id \in Nat
      <4>1. acked[k0] \in started \/ acked[k0] = NoWrite
        BY <1>1 DEF TableInv, CountInv
      <4>2. CASE acked[k0] \in started
        BY <1>1, <4>2 DEF TableInv, CountInv, GhostsOK, Writes
      <4>3. CASE acked[k0] = NoWrite
        BY <1>1, <4>3 DEF NoWrite, Writes
      <4> QED BY <4>1, <4>2, <4>3
    <3>2. acked'[k0].id = acked[k0].id \/ acked'[k0].id = op[p].id
      BY <1>1, <1>2 DEF GhostsOK
    <3> QED BY <1>1, <3>1, <3>2
  <2> QED BY <1>1, <1>2, <2>5, <2>7, <2>8 DEF KeyIsRight
<1> QED BY <1>6, <1>7 DEF KeysAreRight

\* Append returns the place of the value, unless the process is blind.
LEMMA AppendValues ==
  ASSUME TableInv, NEW p \in Procs, AppendValue(p), ~ blind'[p]
  PROVE  Readable(loc[p])' /\ ReadAt(loc[p])' = Value(op'[p])
<1>0. StoreOK /\ StoreInv /\ CallsOK /\ GhostsOK /\ CountInv
  BY DEF TableInv, TypeInv
<1>1. PICK k \in Keys, size \in Sizes :
        LET w == NewWrite(k, size) IN
          /\ Starts(p, w) /\ AppendSucceeds(p, w)
          /\ op' = [op EXCEPT ![p] = w]
          /\ loc' = [loc EXCEPT ![p] = Written(p, size)]
          /\ blind' = [blind EXCEPT ![p] = Blind(p, size)]
  BY DEF AppendValue
<1>2. PICK w \in Writes : w = NewWrite(k, size) /\ w.size = size
  BY <1>0, <1>1, NewWriteLemma
<1>3. PICK to : to = Target(p, size)
  OBVIOUS
<1>4. PICK f : f = Opened(p, size)[to.file_no + 1]
  OBVIOUS
<1>5. op'[p] = w /\ loc'[p] = Location(to.file_no, to.offset, size) /\ to.offset = Len(f)
  BY <1>0, <1>1, <1>2, <1>3, <1>4 DEF CallsOK, Written, Blind
<1>6. /\ HasFile(p, size)
      /\ files' = FileAppend(Opened(p, size), to.file_no, Value(w))
      /\ Value(w) \in Seq(Cells) /\ size \in Nat /\ Len(Value(w)) = size
  BY <1>1, <1>2, <1>3, ValueLemma DEF AppendSucceeds
<1>7. /\ to \in [file_no : Nat, offset : Nat] /\ to.file_no < Len(files')
      /\ files'[to.file_no + 1] = f \o Value(w)
  BY <1>0, <1>3, <1>4, <1>6, AppendedFiles
<1>8. f \in Seq(Cells)
  <2>1. Opened(p, size) \in Seq(Seq(Cells)) /\ to.file_no < Len(Opened(p, size))
        /\ Len(Opened(p, size)) \in Nat
    BY <1>0, <1>3, <1>6, TargetLemma
  <2>2. to.file_no + 1 \in 1 .. Len(Opened(p, size))
    BY <1>7, <2>1
  <2> QED BY <1>4, <2>1, <2>2, ElementOfSeq
<1>9. Len(f \o Value(w)) = Len(f) + size
  BY <1>6, <1>8, ConcatProperties
<1>10. SubSeq(f \o Value(w), Len(f) + 1, Len(f) + size) = Value(w)
  BY <1>2, <1>8, AppendedIsRead
<1>11. Len(f) + size <= Len(f) + size
  BY <1>6, <1>8, LenProperties
<1>12. Readable(loc[p])'
  BY <1>5, <1>7, <1>9, <1>11 DEF Readable, Location
<1>13. ReadAt(loc[p])' = SubSeq(f \o Value(w), Len(f) + 1, Len(f) + size)
  <2>1. /\ loc'[p].file_no = to.file_no /\ loc'[p].offset = Len(f)
        /\ loc'[p].len = size
    BY <1>5 DEF Location
  <2>2. ReadAt(loc[p])' = SubSeq(files'[to.file_no + 1], Len(f) + 1, Len(f) + size)
    BY <2>1 DEF ReadAt
  <2> QED BY <1>7, <2>2
<1> QED BY <1>5, <1>10, <1>12, <1>13

LEMMA HandValues ==
  ASSUME TableInv, TableInv', WriteInHand, Grows(files, files'), NEW p \in Procs,
         OpenStep(p) \/ WriteStep(p) \/ Close(p) \/ Death(p)
  PROVE  WriteInHand'
<1>0. CallsOK /\ files \in Seq(Seq(Cells)) /\ files' \in Seq(Seq(Cells))
  BY DEF TableInv, TypeInv, StoreOK, Cells
<1>1. ASSUME NEW q \in Procs, Placing(q)', ~ blind'[q],
             Placing(q), loc'[q] = loc[q], op'[q] = op[q], blind'[q] = blind[q]
      PROVE  Readable(loc[q])' /\ ReadAt(loc[q])' = Value(op'[q])
  <2>1. Readable(loc[q]) /\ ReadAt(loc[q]) = Value(op[q])
    BY <1>1 DEF WriteInHand
  <2>2. PICK m \in Locations : m = loc[q]
    BY <1>0 DEF CallsOK
  <2>3. Readable(m)' /\ ReadAt(m)' = ReadAt(m)
    BY <1>0, <2>1, <2>2, ReadsStay
  <2> QED BY <1>1, <2>1, <2>2, <2>3 DEF Readable, ReadAt
<1>2. ASSUME NEW q \in Procs, Placing(q)', q # p
      PROVE  Placing(q) /\ loc'[q] = loc[q] /\ op'[q] = op[q] /\ blind'[q] = blind[q]
  BY <1>0, <1>2 DEF OpenStep, OpenMeta, CreateMeta, Allocate, ClearItem, ClearRacing, OpenStore, TakeLock,
     WriteStep, AppendValue, AppendValueFails, Refuse, Place, Use, Locate, BusError, Close,
     Death, CrashBetween, CrashInClear, CrashInPlace, CrashInLocate, CrashInAppend,
     Dies, Return, Exit, Goto, Forget,
     callVars, CallsOK, Placing
<1>3. ASSUME Placing(p)', ~ AppendValue(p)
      PROVE  Placing(p) /\ loc'[p] = loc[p] /\ op'[p] = op[p] /\ blind'[p] = blind[p]
  <2>1. Place(p) \/ Use(p) \/ AppendValueFails(p) \/ ClearRacing(p)
    BY <1>0, <1>3 DEF OpenStep, OpenMeta, CreateMeta, Allocate, ClearItem, OpenStore, TakeLock,
       WriteStep, Refuse, Locate, BusError, Close,
       Death, CrashBetween, CrashInClear, CrashInPlace, CrashInLocate, CrashInAppend,
     Dies, Return, Exit, Goto, CallsOK, Placing
  <2>2. ~ AppendValueFails(p) /\ ~ ClearRacing(p)
    BY <1>3 DEF AppendValueFails, Starts, ClearRacing, Placing
  <2> QED BY <2>1, <2>2 DEF Place, Use, Placing, callVars
<1>4. ASSUME NEW q \in Procs, Placing(q)', ~ blind'[q]
      PROVE  Readable(loc[q])' /\ ReadAt(loc[q])' = Value(op'[q])
  <2>1. CASE q = p /\ AppendValue(p)
    BY <1>4, <2>1, AppendValues
  <2>2. CASE q = p /\ ~ AppendValue(p)
    BY <1>1, <1>3, <1>4, <2>2
  <2>3. CASE q # p
    BY <1>1, <1>2, <1>4, <2>3
  <2> QED BY <2>1, <2>2, <2>3
<1> QED BY <1>4 DEF WriteInHand

LEMMA NextValues ==
  ASSUME TableInv, TableInv', ValueInv, [Next]_vars
  PROVE  ValueInv'
<1>1. CASE Next
  <2>1. PICK p \in Procs : OpenStep(p) \/ WriteStep(p) \/ Close(p) \/ Death(p)
    BY <1>1 DEF Next
  <2>2. Grows(files, files')
    BY <2>1, StoreTypes DEF TableInv
  <2>3. WriteInHand'
    BY <2>1, <2>2, HandValues DEF ValueInv
  <2>4. CASE ClearItem(p) \/ CrashInClear(p)
    BY <2>2, <2>3, <2>4, ClearValues DEF ValueInv
  <2>5. CASE Place(p) \/ CrashInPlace(p)
    BY <2>2, <2>3, <2>5, NameValues DEF ValueInv
  <2>6. CASE Use(p)
    BY <2>2, <2>3, <2>6, UseValues DEF ValueInv
  <2>7. CASE Locate(p) \/ CrashInLocate(p)
    BY <2>3, <2>7, LocateValues DEF ValueInv
  <2>8. CASE ~ (\/ ClearItem(p) \/ CrashInClear(p) \/ Place(p) \/ CrashInPlace(p)
                \/ Use(p) \/ Locate(p) \/ CrashInLocate(p))
    BY <2>1, <2>2, <2>3, <2>8, OtherValues DEF ValueInv, WriteStep, Death
  <2> QED BY <2>4, <2>5, <2>6, <2>7, <2>8
<1>2. CASE UNCHANGED vars
  <2>1. /\ items' = items /\ damaged' = damaged /\ pc' = pc /\ at' = at /\ op' = op
        /\ loc' = loc /\ blind' = blind /\ files' = files /\ acked' = acked /\ started' = started
    BY <1>2 DEF vars, callVars, ghostVars, storeVars
  <2>2. WriteInHand'
    BY <2>1 DEF ValueInv, WriteInHand, Placing, Readable, ReadAt
  <2>3. Grows(files, files')
    BY <2>1, GrowsReflexive DEF TableInv, TypeInv, StoreOK, Cells
  <2> QED BY <2>1, <2>2, <2>3, SameItems DEF ValueInv
<1> QED BY <1>1, <1>2

LEMMA ValueInvHolds == Spec => []ValueInv
<1>1. Init => ValueInv
  BY InitValues
<1>2. TableInv /\ TableInv' /\ ValueInv /\ [Next]_vars => ValueInv'
  BY NextValues
<1> QED BY <1>1, <1>2, TableInvHolds, PTL DEF Spec

\* EngineExample::Write, Read: what was written and returned kSucc is read back,
\* or something later; whoever failed or died since, but for the keys they hit.
THEOREM WritesAreRead == Spec => []ReadsWhatWasWritten
<1>1. ValueInv => ReadsWhatWasWritten
  BY DEF ValueInv, KeysAreRight, KeyIsRight, Claimed, ReadsWhatWasWritten
<1> QED BY <1>1, ValueInvHolds, PTL

\* EngineExample::Range, GetRangeLocation: a range visits what Read would find,
\* with the same values, although it asks in_use where a search does not, and
\* goes through the table from the other end.
THEOREM RangesAreReads == Spec => []RangeMatchesRead
<1>1. ASSUME TableInv PROVE RangeMatchesRead
  <2> DEFINE Within(k, lower, upper) == (lower = NoKey \/ lower <= k) /\ (upper = NoKey \/ k < upper)
  <2>1. ASSUME NEW lower \in Keys \cup {NoKey}, NEW upper \in Keys \cup {NoKey},
               NEW k \in Claimed \ stray
        PROVE  /\ k \in RangeKeys(lower, upper) <=> Found(k) /\ Within(k, lower, upper)
               /\ k \in RangeKeys(lower, upper) => RangeVisits(lower, upper)[k] = ReadValue(k)
    <3>0. k \in Keys \ damaged /\ k \in Keys /\ k \notin stray /\ Keys \subseteq Nat
      BY DoorPlateAssumption DEF Claimed
    <3>1. CASE Found(k)
      <4> DEFINE i == CalcIndex(k)
      <4>1. i \in Items /\ items[i].key = k /\ items[i].in_use
        BY <1>1, <3>0, <3>1, FoundOrNowhere DEF Settled, TableInv, PlaceInv
      <4>2. \A j \in Items : items[j].in_use /\ items[j].key = k => i = j
        BY <1>1, <3>0 DEF TableInv, PlaceInv, EachKeyOnePlace
      <4> HIDE DEF i
      <4>3. {j \in Items : items[j].in_use /\ items[j].key = k} = {i}
        BY <4>1, <4>2
      <4>4. RangeLocation(k) = items[i].location
        <5>1. i \in Int /\ i <= i
          BY <4>1, DoorPlateAssumption DEF Items
        <5>2. Max({i}) = i
          BY <5>1 DEF Max
        <5> QED BY <4>3, <5>2 DEF RangeLocation
      <4>5. ReadAt(RangeLocation(k)) = ReadValue(k)
        BY <3>1, <4>4 DEF ReadValue, LocationOf, i
      <4>6. k \in RangeKeys(lower, upper) =>
              RangeVisits(lower, upper)[k] = ReadValue(k) /\ Within(k, lower, upper)
        BY <3>0, <4>5 DEF RangeVisits, RangeKeys
      <4>7. Within(k, lower, upper) => k \in RangeKeys(lower, upper)
        BY <3>0, <4>1 DEF RangeKeys
      <4> QED BY <3>1, <4>6, <4>7
    <3>2. CASE ~ Found(k)
      <4>1. \A i \in Items : items[i].key # k
        BY <1>1, <3>0, <3>2, FoundOrNowhere DEF TableInv, PlaceInv
      <4>2. k \notin RangeKeys(lower, upper)
        BY <4>1 DEF RangeKeys
      <4> QED BY <3>2, <4>2
    <3> QED BY <3>1, <3>2
  <2>2. ASSUME NEW k \in Claimed \ stray, Found(k)
        PROVE  RangeVisits(NoKey, NoKey)[k] = ReadValue(k)
    BY <2>1, <2>2
  <2> QED BY <2>1, <2>2 DEF RangeMatchesRead
<1> QED BY <1>1, TableInvHolds, PTL
=============================================================================
