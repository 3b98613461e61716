------------------------------- MODULE KeyMap -------------------------------
(***************************************************************************)
(* What the key index promises: a name is nowhere, in a slot of the cache  *)
(* or in a row of a file; the last write or dump of a name says where.     *)
(* The names written since the last submission are in the memtable; those  *)
(* that were submitted go to a new file one by one, in their order.        *)
(*                                                                         *)
(* KeyIndex implements it with a hash table and skip lists.                *)
(***************************************************************************)
EXTENDS Integers, Sequences

CONSTANTS
  Names,          \* sequences of bytes, all of the same length
  Slots,          \* slots of the cache
  NamedFiles      \* an index tells files apart modulo this

Nowhere         == [where |-> "nowhere"]
InCache(slot)   == [where |-> "cache", slot |-> slot]
InRow(file, row) == [where |-> "file", file |-> file % NamedFiles, row |-> row]

VARIABLES
  place,    \* of each name
  list,     \* the memtable: name -> slot
  dumping,  \* the part of the submitted memtable that is not in the file yet
  row,      \* the file's next row
  files     \* the number of files

mapVars == <<place, list, dumping, row, files>>

Empty == [n \in {} |-> 0]

Init ==
  /\ place = [n \in Names |-> Nowhere]
  /\ list = Empty /\ dumping = Empty
  /\ row = 0 /\ files \in Nat

\* The slot is one that no record uses.
Write(n, slot) ==
  /\ UNCHANGED <<row, files>>
  /\ place' = [place EXCEPT ![n] = InCache(slot)]
  /\ list' = [m \in DOMAIN list \cup {n} |-> IF m = n THEN slot ELSE list[m]]
  /\ UNCHANGED dumping
  /\ slot \notin {list[m] : m \in DOMAIN list} \cup {dumping[m] : m \in DOMAIN dumping}

Submit ==
  /\ row = 0 /\ UNCHANGED <<row, files>>
  /\ DOMAIN list # {} /\ list' = Empty
  /\ DOMAIN dumping = {} /\ dumping' = list
  /\ UNCHANGED place

\* Two names of the same length, in the order of their first different byte.
Precedes(m, n) ==
  \E i \in DOMAIN m : m[i] < n[i] /\ \A j \in 1 .. i - 1 : m[j] = n[j]

DumpRow(n) ==
  /\ row' = row + 1
  /\ n \in DOMAIN dumping /\ \A m \in DOMAIN dumping \ {n} : Precedes(n, m)
  /\ dumping' = [m \in DOMAIN dumping \ {n} |-> dumping[m]]
  /\ place' = [place EXCEPT ![n] = InRow(files, row)]
  /\ UNCHANGED <<list, files>>

EndDump ==
  /\ row > 0 /\ DOMAIN dumping = {}
  /\ row' = 0 /\ files' = files + 1
  /\ UNCHANGED <<place, list, dumping>>

Next ==
  \/ Submit \/ EndDump
  \/ \E n \in Names : DumpRow(n) \/ \E slot \in Slots : Write(n, slot)

Spec == Init /\ [][Next]_mapVars
=============================================================================
