------------------------- MODULE DBSystemRefinement -------------------------
(***************************************************************************)
(* DBSystem implements BufferClients: seen from the record cache, a write, *)
(* the logs, the memtables and the dumper are nothing but clients that     *)
(* fill a slot, publish it and drain it.                                   *)
(***************************************************************************)
EXTENDS DBSystem

CONSTANTS Loader, Dumper   \* the other threads of BufferClients

ASSUME RefinementAssumption ==
  /\ Loader \notin Writers
  /\ Dumper \notin Writers \cup {Loader}

Dumping == dpc \in {"access", "inside", "ending"}

\* The slot the dumper works on: the one it has appended once it has released
\* it, else the next one.
DumpedSlot == IF dpc = "ending" THEN LastKv.slot ELSE NextKv.slot

ClientLabel(label) ==
  CASE label \in {"request", "access", "inside"} -> label
    [] label \in {"hash", "get", "probe", "update"} -> "publish"
    [] OTHER -> "idle"

clientPc ==
  [t \in Writers \cup {Loader, Dumper} |->
     IF t = Loader THEN "done"
     ELSE IF t = Dumper THEN (IF Dumping THEN dpc ELSE "idle")
     ELSE ClientLabel(pc[t])]

clientIdx ==
  [t \in Writers \cup {Loader, Dumper} |->
     IF t = Loader THEN NoSlot
     ELSE IF t = Dumper THEN (IF Dumping THEN DumpedSlot ELSE NoSlot)
     ELSE idx[t]]

\* Everything handed out that nobody works on.
clientPublished ==
  {s \in idxes_wrote :
     /\ \A w \in Writers : Owns(w) => idx[w] # s
     /\ dpc \in {"access", "inside"} => DumpedSlot # s}

\* Nobody is ever seen asleep: here a thread that would wait just does not step.
Clients == INSTANCE BufferClients WITH
  idx_waiter <- {}, slot_waiter <- {},
  pc <- clientPc, idx <- clientIdx, published <- clientPublished

\* Every step of the engine is one of the clients' steps, or invisible to the
\* cache.
RefinesBufferClients == Clients!SafeSpec
=============================================================================
