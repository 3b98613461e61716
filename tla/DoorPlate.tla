------------------------------ MODULE DoorPlate ------------------------------
(***************************************************************************)
(* The table of the example engine that says where the value of a key is:  *)
(* class DoorPlate, an open-addressed table in the file META, which every  *)
(* process that has the directory open maps into its memory.  A location   *)
(* in it is one of DataStore.                                              *)
(***************************************************************************)
EXTENDS DataStore, FiniteSets

CONSTANTS
  kMaxDoorCnt,   \* number of items
  Keys,          \* keys that are not empty, as numbers in the order of names
  LongKeys,      \* those longer than kMaxKeyLen
  StrHash(_),    \* the hash of a key
  NoKey,         \* the empty string
  Torn(_, _)     \* what an item spells while one name is copied over another
                 \* and key_size is still that of the first

ASSUME DoorPlateAssumption ==
  /\ kMaxDoorCnt \in Nat \ {0}
  /\ Keys \subseteq Nat /\ LongKeys \subseteq Keys
  /\ \A k \in Keys : StrHash(k) \in Nat
  /\ NoKey \notin Keys
  /\ \A old, new \in Keys \cup {NoKey} : Torn(old, new) \subseteq Keys \cup {NoKey}

Items == 0 .. kMaxDoorCnt - 1

VARIABLE items

\* What posix_fallocate and memset leave.
EmptyItem == [in_use |-> FALSE, key |-> NoKey, location |-> NoLocation]
ClearedItems == [i \in Items |-> EmptyItem]

\* ItemKeyMatch does not ask whether the item is in use.
ItemKeyMatch(i, k) == items[i].key = k

\* Mutant: the search stops only at an item that is not in use.
ItemTryPlaceUnused(i, k) == ~ items[i].in_use

ItemTryPlace(i, k) == ~ items[i].in_use \/ ItemKeyMatch(i, k)

\* The item a search for k looks at after j others.
Door(k, j) == (StrHash(k) + j) % kMaxDoorCnt

\* CalcIndex: the first item that is k's or not in use; -1 when there is none.
CalcIndex(k) ==
  LET tries == {j \in Items : ItemTryPlace(Door(k, j), k)}
  IN  IF tries = {} THEN -1 ELSE Door(k, Min(tries))

\* The search for k looks at item i.
Comes(k, i) ==
  \E j \in Items : Door(k, j) = i /\ \A h \in 0 .. j - 1 : ~ ItemTryPlace(Door(k, h), k)

\* Find
Found(k)    == CalcIndex(k) # -1 /\ ItemKeyMatch(CalcIndex(k), k)
LocationOf(k) == items[CalcIndex(k)].location

\* Mutant: upper belongs to the range.
RangeKeysClosed(lower, upper) ==
  {items[i].key : i \in {j \in Items :
     /\ items[j].in_use
     /\ lower = NoKey \/ items[j].key >= lower
     /\ upper = NoKey \/ items[j].key <= upper}}

\* GetRangeLocation: the keys with lower <= key < upper; NoKey stands for the
\* empty string, which bounds nothing.
RangeKeys(lower, upper) ==
  {items[i].key : i \in {j \in Items :
     /\ items[j].in_use
     /\ lower = NoKey \/ items[j].key >= lower
     /\ upper = NoKey \/ items[j].key < upper}}

\* The map it makes of them keeps the location of the last item of a key.
RangeLocation(k) == items[Max({i \in Items : items[i].in_use /\ items[i].key = k})].location

\* The stores of AddOrUpdate: key, which may be cut short, and key_size; then
\* in_use; then location.
TearKey(i, k)     == \E torn \in Torn(items[i].key, k) : items' = [items EXCEPT ![i].key = torn]
PlaceKey(i, k)    == items' = [items EXCEPT ![i].key = k]
UseItem(i)        == items' = [items EXCEPT ![i].in_use = TRUE]
SetLocation(i, l) == items' = [items EXCEPT ![i].location = l]

\* An item of which memset has cleared some bytes.
PartlyCleared(i) ==
  [in_use   : {items[i].in_use, FALSE},
   key      : Torn(items[i].key, NoKey) \cup {items[i].key, NoKey},
   location : {Mixed(items[i].location, NoLocation, words) :
                 words \in SUBSET {"file_no", "offset", "len"}}]
=============================================================================
