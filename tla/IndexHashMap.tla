---------------------------- MODULE IndexHashMap ----------------------------
(***************************************************************************)
(* The hash table from keys to indexes: class IndexHashMap, used by the    *)
(* class Indexer with its mutex held.  An entry is free until its index    *)
(* has a status bit; entries are never freed.                              *)
(***************************************************************************)
EXTENDS Index

CONSTANTS
  HASH_TABLE_SIZE,
  hash_key(_)       \* the first entry a key is looked for at

ASSUME IndexHashMapAssumption == HASH_TABLE_SIZE \in Nat \ {0}

VARIABLE data

Entries == 0 .. HASH_TABLE_SIZE - 1

EmptyData == [e \in Entries |-> [key |-> 0, idx |-> NewIndex]]

\* The entry a search comes to after n others: 1, 2, 3 ... are added in turn.
Probe(key, n) == (hash_key(key) + (n * (n + 1)) \div 2) % HASH_TABLE_SIZE

Stops(key, e) == ~ IfValid(data[e].idx) \/ data[e].key = key

\* The assertion of update, "max hash table size reached", holds.
HasEntry(key) == {n \in Entries : Stops(key, Probe(key, n))} # {}

\* The first entry the search stops at.
Entry(key) ==
  Probe(key, CHOOSE n \in Entries :
               /\ Stops(key, Probe(key, n))
               /\ \A m \in 0 .. n - 1 : ~ Stops(key, Probe(key, m)))

\* get finds an index, which is:
InTable(key) == HasEntry(key) /\ IfValid(data[Entry(key)].idx)
IndexOf(key) == data[Entry(key)].idx

\* update.  A free entry takes the key, and one that is not free has it.
UpdateTable(key, w) ==
  data' = [data EXCEPT ![Entry(key)] = [key |-> key, idx |-> SetInHash(w)]]
=============================================================================
