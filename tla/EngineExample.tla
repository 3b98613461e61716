---------------------------- MODULE EngineExample ----------------------------
(***************************************************************************)
(* The example engine: a value is appended to a data file, and its         *)
(* location is then stored in the table.  Several processes may try to     *)
(* open the same directory; the lock file admits one, but only after it    *)
(* has opened both parts.  Files and table survive the death of a process. *)
(*                                                                         *)
(* Within a process the mutex mu_ is held over each call, so that calls do *)
(* not overlap.  Read and Range change nothing: they are the operators     *)
(* ReadValue and RangeVisits.                                              *)
(***************************************************************************)
EXTENDS DoorPlate

CONSTANTS
  Sizes,     \* sizes of the values written
  MaxWrites, \* bound: number of writes
  MaxFaults  \* bound: number of failing system calls and deaths

NoProc == "nobody"

ASSUME EngineExampleAssumption ==
  /\ NoProc \notin Procs
  /\ Sizes \subseteq 1 .. kSingleFileSize
  /\ MaxWrites \in Nat /\ MaxFaults \in Nat

VARIABLES
  meta,     \* META: "none", "short" before its space is allocated, "full", or
            \* "raced": stores to one item met in time, and the end
  uncleared, \* of each process: the items its memset has still to clear
  owner,    \* the process that holds the lock of the lock file
  pc, op, loc, at, \* of each process: where it is, the write, its location, its item
  started,  \* writes that were called
  acked,    \* the last write of each key that returned kSucc
  blind,    \* the write of a process went elsewhere than the process believes
  damaged,  \* keys whose item is lost, or whose location is torn, wrong or not stored
  stray,    \* keys that may have an item to which their search does not come
  faults    \* system calls that failed, and deaths

metaVars == <<meta, uncleared>>
callVars == <<op, loc, at, blind>>
ghostVars == <<started, acked, damaged, stray>>
vars == <<items, storeVars, metaVars, owner, pc, callVars, ghostVars, faults>>

NoWrite == [key |-> NoKey, id |-> 0, size |-> 0]
Start   == [file_no |-> 0, offset |-> 0]

Init ==
  /\ items = ClearedItems /\ meta = "none"
  /\ files = << >>
  /\ next_location_ = [p \in Procs |-> Start]
  /\ fd_ = [p \in Procs |-> FALSE]
  /\ uncleared = [p \in Procs |-> {}]
  /\ owner = NoProc
  /\ pc = [p \in Procs |-> "closed"]
  /\ op = [p \in Procs |-> NoWrite]
  /\ loc = [p \in Procs |-> NoLocation]
  /\ at = [p \in Procs |-> -1]
  /\ blind = [p \in Procs |-> FALSE]
  /\ started = {} /\ acked = [k \in Keys |-> NoWrite] /\ damaged = {} /\ stray = {}
  /\ faults = 0

Goto(p, label) == pc' = [pc EXCEPT ![p] = label]

\* A system call fails, or a process dies.
Fault == faults < MaxFaults /\ faults' = faults + 1

\* Write is over, or not begun: its variables hold nothing.
Forget(p) ==
  /\ op' = [op EXCEPT ![p] = NoWrite]
  /\ loc' = [loc EXCEPT ![p] = NoLocation]
  /\ at' = [at EXCEPT ![p] = -1]
  /\ blind' = [blind EXCEPT ![p] = FALSE]

Return(p) == Goto(p, "idle") /\ Forget(p)

LockFile(p) == owner = NoProc /\ owner' = p

\* Only the process that has the lock gives it back.
UnlockFile(p) == owner' = IF owner = p THEN NoProc ELSE owner

\* The process, or its engine, ends, and with it its descriptors and its lock.
Exit(p) ==
  /\ Goto(p, "closed") /\ Forget(p)
  /\ uncleared' = [uncleared EXCEPT ![p] = {}]
  /\ fd_' = [fd_ EXCEPT ![p] = FALSE]
  /\ next_location_' = [next_location_ EXCEPT ![p] = Start]
  /\ UnlockFile(p)

-----------------------------------------------------------------------------
(* Open *)

\* DoorPlate::Init opens META, or finds that it has to create it.
OpenMeta(p) ==
  /\ pc[p] = "closed"
  /\ Goto(p, IF meta = "none" THEN "create" ELSE "store")
  /\ UNCHANGED <<items, storeVars, metaVars, owner, callVars, ghostVars, faults>>

\* Without O_EXCL: another may have created it meanwhile.
CreateMeta(p) ==
  /\ pc[p] = "create"
  /\ \/ /\ meta' = IF meta = "none" THEN "short" ELSE meta
        /\ Goto(p, "allocate")
        /\ UNCHANGED faults
     \/ Fault /\ Goto(p, "closed") /\ UNCHANGED meta
  /\ UNCHANGED <<items, storeVars, uncleared, owner, callVars, ghostVars>>

Allocate(p) ==
  /\ pc[p] = "allocate"
  /\ \/ /\ meta' = "full" /\ Goto(p, "clear") /\ UNCHANGED faults
        /\ uncleared' = [uncleared EXCEPT ![p] = Items]
     \/ Fault /\ Goto(p, "closed") /\ UNCHANGED metaVars
  /\ UNCHANGED <<items, storeVars, owner, callVars, ghostVars>>

\* The keys whose item, or the way to it, is lost with item i.
Lost(i) == {k \in Keys : Found(k) /\ Comes(k, i)}

\* memset makes this of item i, whatever others have stored there.
Wipe(i, item) ==
  LET spelt == Keys \cap {item.key}
  IN  /\ items' = [items EXCEPT ![i] = item]
      /\ damaged' = damaged \cup Lost(i) \cup spelt
      /\ stray' = stray \cup {k \in Lost(i) : CalcIndex(k) # i} \cup spelt

\* The process that has created META clears it, item by item.
ClearItem(p) ==
  /\ pc[p] = "clear"
  /\ \E i \in uncleared[p] :
       /\ Wipe(i, EmptyItem)
       /\ uncleared' = [uncleared EXCEPT ![p] = @ \ {i}]
       /\ IF uncleared[p] = {i} THEN Goto(p, "store") ELSE UNCHANGED pc
  /\ UNCHANGED <<storeVars, meta, owner, callVars, started, acked, faults>>

\* AddOrUpdate of q looks at item i or changes it.
Touches(q, i) ==
  \/ pc[q] = "place" /\ Comes(op[q].key, i)
  \/ pc[q] \in {"use", "locate"} /\ at[q] = i

ClearRacing(p) ==
  /\ pc[p] = "clear"
  /\ \E i \in uncleared[p], q \in Procs : Touches(q, i)
  /\ meta' = "raced"
  /\ UNCHANGED <<items, storeVars, uncleared, owner, pc, callVars, ghostVars, faults>>

\* DataStore::Init
OpenStore(p) ==
  /\ pc[p] = "store"
  /\ \/ StoreOpens(p) /\ Goto(p, "lock") /\ UNCHANGED faults
     \/ Fault /\ Goto(p, "closed") /\ UNCHANGED storeVars
  /\ UNCHANGED <<items, metaVars, owner, callVars, ghostVars>>

\* Mutant: the lock is taken from whoever has it.
TakeLockAnyway(p) ==
  /\ pc[p] = "lock"
  /\ owner' = p /\ Goto(p, "idle")
  /\ UNCHANGED <<items, storeVars, metaVars, callVars, ghostVars, faults>>

\* When another process has the lock, or the lock file cannot be opened, Open
\* fails.
TakeLock(p) ==
  /\ pc[p] = "lock"
  /\ \/ LockFile(p) /\ Goto(p, "idle") /\ UNCHANGED <<next_location_, fd_, uncleared, callVars, faults>>
     \/ owner # NoProc /\ Exit(p) /\ UNCHANGED faults
     \/ Fault /\ Exit(p)
  /\ UNCHANGED <<items, files, meta, ghostVars>>

\* ~EngineExample
Close(p) ==
  /\ pc[p] = "idle"
  /\ Exit(p)
  /\ UNCHANGED <<items, files, meta, ghostVars, faults>>

-----------------------------------------------------------------------------
(* Write *)

NewWrite(k, size) == [key |-> k, id |-> Cardinality(started) + 1, size |-> size]

Starts(p, w) ==
  /\ pc[p] = "idle" /\ Cardinality(started) < MaxWrites
  /\ started' = started \cup {w}

\* The file that takes the value ends elsewhere than where p puts the value.
Blind(p, size) ==
  LET to == Target(p, size)
  IN  to.offset # Len(Opened(p, size)[to.file_no + 1])

\* DataStore::Append succeeds.
AppendValue(p) ==
  /\ \E k \in Keys, size \in Sizes : LET w == NewWrite(k, size) IN
       /\ Starts(p, w)
       /\ AppendSucceeds(p, w)
       /\ op' = [op EXCEPT ![p] = w]
       /\ loc' = [loc EXCEPT ![p] = Written(p, size)]
       /\ blind' = [blind EXCEPT ![p] = Blind(p, size)]
  /\ Goto(p, "place")
  /\ UNCHANGED <<items, metaVars, owner, at, acked, damaged, stray, faults>>

\* It fails, and so does Write.
AppendValueFails(p) ==
  /\ \E k \in Keys, size \in Sizes : LET w == NewWrite(k, size) IN
       /\ Starts(p, w)
       /\ \/ Fault /\ AppendFails(p, w)
          \/ Fault /\ NeedsNewFile(p, size) /\ AppendWithoutFile(p, w)
          \/ ~ fd_[p] /\ AppendWithoutFile(p, w) /\ UNCHANGED faults
  /\ UNCHANGED <<items, metaVars, owner, pc, callVars, acked, damaged, stray>>

\* AddOrUpdate.  A key that is too long, or a full table, and the value stays
\* in its file without a location.
Refused(k) == k \in LongKeys \/ CalcIndex(k) = -1

Refuse(p) ==
  /\ pc[p] = "place" /\ meta = "full"
  /\ Refused(op[p].key)
  /\ Return(p)
  /\ UNCHANGED <<items, storeVars, metaVars, owner, ghostVars, faults>>

\* An item in use is k's already.  Into another go k and its length; in_use and
\* the location follow.
Place(p) ==
  /\ pc[p] = "place" /\ meta = "full"
  /\ ~ Refused(op[p].key)
  /\ LET i == CalcIndex(op[p].key)
     IN  /\ at' = [at EXCEPT ![p] = i]
         /\ \/ items[i].in_use /\ Goto(p, "locate") /\ UNCHANGED <<items, damaged>>
            \/ /\ ~ items[i].in_use /\ Goto(p, "use")
               /\ PlaceKey(i, op[p].key)
               /\ damaged' = damaged \cup {op[p].key}
  /\ UNCHANGED <<storeVars, metaVars, owner, op, loc, blind, started, acked, stray, faults>>

Use(p) ==
  /\ pc[p] = "use"
  /\ UseItem(at[p])
  /\ Goto(p, "locate")
  /\ UNCHANGED <<storeVars, metaVars, owner, callVars, ghostVars, faults>>

\* p's item is still the one that a search for its key comes to.
Holds(p) ==
  /\ items[at[p]].in_use /\ items[at[p]].key = op[p].key
  /\ CalcIndex(op[p].key) = at[p]

\* The location of the key is now that of p's write.
Located(p) ==
  /\ SetLocation(at[p], loc[p])
  /\ damaged' = IF Holds(p) /\ ~ blind[p] THEN damaged \ {op[p].key} ELSE damaged \cup {op[p].key}

Locate(p) ==
  /\ pc[p] = "locate"
  /\ Located(p)
  /\ acked' = [acked EXCEPT ![op[p].key] = op[p]]
  /\ Return(p)
  /\ UNCHANGED <<storeVars, metaVars, owner, started, stray, faults>>

-----------------------------------------------------------------------------
(* Read and Range *)

NoValue == << >>

ReadValue(k) == IF Found(k) THEN ReadAt(LocationOf(k)) ELSE NoValue

\* What Range hands to the visitor: keys, with the values at the locations of
\* their items.
RangeVisits(lower, upper) == [k \in RangeKeys(lower, upper) |-> ReadAt(RangeLocation(k))]

-----------------------------------------------------------------------------
(* The end of a process between two steps *)

Dies(p) ==
  /\ pc[p] # "closed"
  /\ Exit(p)
  /\ UNCHANGED <<files, meta, started, acked>>

\* Files and table stay as they are: a table that is partly cleared, an item
\* that has its key but is not in use, or has no location.
CrashBetween(p) ==
  /\ Fault
  /\ Dies(p)
  /\ UNCHANGED <<items, damaged, stray>>

\* memset has got into item i.
CrashInClear(p) ==
  /\ Fault
  /\ pc[p] = "clear"
  /\ Dies(p)
  /\ \E i \in uncleared[p] : \E item \in PartlyCleared(i) : Wipe(i, item)

\* The key is stored, or a part of it, and key_size is not: the item spells
\* something else.
CrashInPlace(p) ==
  /\ Fault
  /\ pc[p] = "place" /\ meta = "full"
  /\ ~ Refused(op[p].key)
  /\ Dies(p)
  /\ LET i == CalcIndex(op[p].key)
     IN  /\ ~ items[i].in_use
         /\ TearKey(i, op[p].key)
         /\ damaged' = damaged \cup (Keys \cap {items'[i].key})
  /\ UNCHANGED stray

\* The location is three words, of which some are stored; if all are, the write
\* has happened.
CrashInLocate(p) ==
  /\ Fault
  /\ pc[p] = "locate"
  /\ Dies(p)
  /\ \/ Located(p)
     \/ /\ \E words \in SUBSET {"file_no", "offset", "len"} \ {{}} :
             SetLocation(at[p], Mixed(items[at[p]].location, loc[p], words))
        /\ damaged' = damaged \cup {op[p].key}
  /\ UNCHANGED stray

\* A part of the value is in the file.
CrashInAppend(p) ==
  /\ Fault
  /\ pc[p] = "idle"
  /\ \E k \in Keys, size \in Sizes : LET w == NewWrite(k, size) IN
       /\ Starts(p, w)
       /\ PartlyAppended(p, w)
  /\ Exit(p)
  /\ UNCHANGED <<items, meta, acked, damaged, stray>>

\* The table is mapped beyond the end of its file: its first use is fatal.
BusError(p) ==
  /\ pc[p] = "place" /\ meta = "short"
  /\ Dies(p)
  /\ UNCHANGED <<items, damaged, stray, faults>>

-----------------------------------------------------------------------------
OpenStep(p) ==
  \/ OpenMeta(p) \/ CreateMeta(p) \/ Allocate(p) \/ ClearItem(p) \/ ClearRacing(p)
  \/ OpenStore(p) \/ TakeLock(p)

WriteStep(p) ==
  \/ AppendValue(p) \/ AppendValueFails(p)
  \/ Refuse(p) \/ Place(p) \/ Use(p) \/ Locate(p) \/ BusError(p)

Death(p) ==
  \/ CrashBetween(p) \/ CrashInClear(p) \/ CrashInAppend(p)
  \/ CrashInPlace(p) \/ CrashInLocate(p)

Next ==
  \E p \in Procs : meta # "raced" /\ (OpenStep(p) \/ WriteStep(p) \/ Close(p) \/ Death(p))

Spec == Init /\ [][Next]_vars

-----------------------------------------------------------------------------
Labels == {"closed", "create", "allocate", "clear", "store", "lock", "idle", "place", "use", "locate"}
Writes == [key : Keys, id : 1 .. MaxWrites, size : Sizes]
Locations == [file_no : Nat, offset : Nat, len : Nat]

\* Types, and that the lock is held by the one process whose Open has returned
\* it an engine.
TypeOK ==
  /\ items \in [Items -> [in_use : BOOLEAN, key : Keys \cup {NoKey}, location : Locations]]
  /\ meta \in {"none", "short", "full", "raced"}
  /\ uncleared \in [Procs -> SUBSET Items]
  /\ \A p \in Procs : pc[p] = "clear" <=> uncleared[p] # {}
  /\ files \in Seq(Seq((1 .. MaxWrites) \X Nat))
  /\ next_location_ \in [Procs -> [file_no : Nat, offset : Nat]]
  /\ fd_ \in [Procs -> BOOLEAN]
  /\ owner \in Procs \cup {NoProc}
  /\ pc \in [Procs -> Labels]
  /\ \A p \in Procs : pc[p] \in {"idle", "place", "use", "locate"} <=> owner = p
  /\ op \in [Procs -> Writes \cup {NoWrite}]
  /\ started \subseteq Writes
  /\ acked \in [Keys -> Writes \cup {NoWrite}]
  /\ damaged \subseteq Keys /\ stray \subseteq Keys

\* The keys of which something is claimed.
Claimed == Keys \ damaged

\* A key has at most one item in use, and a search for it comes to that item, but
\* for the keys with an item beyond one that memset has cleared late, and those
\* that memset, cut short, has spelt.
EachKeyOnePlace ==
  \A i \in Items :
    items[i].in_use /\ items[i].key \in Keys \ stray => CalcIndex(items[i].key) = i

\* A write that returned kSucc is found by a read, as itself or as a later
\* write of its key, after any crashes, failed writes and reopenings; and a read
\* finds nothing but writes of its key.  The exceptions are confined to the
\* keys they befall until they are written again: those whose item, or the way
\* to it, is cleared by a process that opened META before its creator was done;
\* those whose item was being changed when a process died, and those a torn name
\* spells; and those written by a process that does not know where its file ends.
ReadsWhatWasWritten ==
  \A k \in Claimed :
    IF Found(k)
    THEN /\ Readable(LocationOf(k))
         /\ \E w \in started :
              w.key = k /\ w.id >= acked[k].id /\ ReadValue(k) = Value(w)
    ELSE acked[k] = NoWrite

\* A range visits the keys that a read finds, and no others, with the values
\* the reads return: it goes through the items in use, and a read through the
\* doors of its key, in use or not.
RangeMatchesRead ==
  LET keys  == Claimed \ stray
      found == {k \in keys : Found(k)}
  IN  /\ \A lower, upper \in Keys \cup {NoKey} :
           keys \cap RangeKeys(lower, upper) =
             {k \in found : (lower = NoKey \/ lower <= k) /\ (upper = NoKey \/ k < upper)}
      /\ \A k \in found : RangeVisits(NoKey, NoKey)[k] = ReadValue(k)
=============================================================================
