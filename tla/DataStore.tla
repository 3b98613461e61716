------------------------------ MODULE DataStore ------------------------------
(***************************************************************************)
(* The data files of the example engine: class DataStore.  Files are only  *)
(* appended to; a location says where in them a value is.  Each process    *)
(* that has the directory open keeps the place where it believes its next  *)
(* value will go.                                                          *)
(*                                                                         *)
(* A file is a sequence of cells; cell <<v, i>> is the i-th part of the    *)
(* value of write v.                                                       *)
(***************************************************************************)
EXTENDS Integers, Sequences, SequencesExt

CONSTANTS
  Procs,            \* processes that open the engine
  kSingleFileSize   \* a data file is not meant to grow beyond this

ASSUME DataStoreAssumption == kSingleFileSize \in Nat \ {0}

VARIABLES
  files,          \* files[n + 1] is the content of data file n
  next_location_, \* of each process
  fd_             \* fd_[p]: the descriptor of p is open

storeVars == <<files, next_location_, fd_>>

Location(n, at, size) == [file_no |-> n, offset |-> at, len |-> size]
NoLocation == Location(0, 0, 0)

\* A location of which some words have been overwritten, and the others not yet.
Mixed(old, new, words) == [f \in DOMAIN old |-> IF f \in words THEN new[f] ELSE old[f]]

Value(w) == [i \in 1 .. w.size |-> <<w.id, i>>]

LastFile == Len(files) - 1
EndOfFiles == [file_no |-> LastFile, offset |-> Len(Last(files))]

\* Init: go to the end of the last data file, or create the first.
StoreOpens(p) ==
  /\ files' = IF files = << >> THEN << << >> >> ELSE files
  /\ next_location_' = [next_location_ EXCEPT ![p] =
       IF files = << >> THEN [file_no |-> 0, offset |-> 0] ELSE EndOfFiles]
  /\ fd_' = [fd_ EXCEPT ![p] = TRUE]

NeedsNewFile(p, size) == next_location_[p].offset + size > kSingleFileSize

\* Where a value of this size goes.
Target(p, size) ==
  IF NeedsNewFile(p, size) THEN [file_no |-> next_location_[p].file_no + 1, offset |-> 0]
  ELSE next_location_[p]

\* The files once the new file, if one is needed, is open.
Opened(p, size) ==
  IF NeedsNewFile(p, size) /\ Len(files) <= Target(p, size).file_no
  THEN Append(files, << >>) ELSE files

\* O_APPEND: the cells go to the end of the file, wherever p thinks that is.
FileAppend(fs, n, cells) == [fs EXCEPT ![n + 1] = @ \o cells]

\* Mutant: the location is that of the end of the value.
WrittenAtEnd(p, size) ==
  LET to == Target(p, size) IN Location(to.file_no, to.offset + size, size)

\* The location Append returns.
Written(p, size) ==
  LET to == Target(p, size) IN Location(to.file_no, to.offset, size)

\* Append writes to an open file.
HasFile(p, size) == fd_[p] \/ NeedsNewFile(p, size)

AppendSucceeds(p, w) ==
  LET to == Target(p, w.size)
  IN  /\ HasFile(p, w.size)
      /\ files' = FileAppend(Opened(p, w.size), to.file_no, Value(w))
      /\ next_location_' = [next_location_ EXCEPT ![p] = [to EXCEPT !.offset = @ + w.size]]
      /\ fd_' = [fd_ EXCEPT ![p] = TRUE]

\* The value, or some of it, does not get into the file.
PartlyAppended(p, w) ==
  /\ HasFile(p, w.size)
  /\ \E n \in 0 .. w.size - 1 :
       files' = FileAppend(Opened(p, w.size), Target(p, w.size).file_no, SubSeq(Value(w), 1, n))

\* A write that fails leaves the place of the next value as it was, but for the
\* switch to a new file.
AppendFails(p, w) ==
  /\ PartlyAppended(p, w)
  /\ next_location_' = [next_location_ EXCEPT ![p] = Target(p, w.size)]
  /\ fd_' = [fd_ EXCEPT ![p] = TRUE]

\* The new file cannot be opened, which Append does not notice, or it could not
\* be opened before: the write goes to a closed descriptor.
AppendWithoutFile(p, w) ==
  /\ NeedsNewFile(p, w.size) \/ ~ fd_[p]
  /\ next_location_' = [next_location_ EXCEPT ![p] = Target(p, w.size)]
  /\ fd_' = [fd_ EXCEPT ![p] = FALSE]
  /\ UNCHANGED files

\* Read: beyond the end of a file it does not return.
Readable(l) == l.file_no < Len(files) /\ l.offset + l.len <= Len(files[l.file_no + 1])
ReadAt(l)   == SubSeq(files[l.file_no + 1], l.offset + 1, l.offset + l.len)
=============================================================================
