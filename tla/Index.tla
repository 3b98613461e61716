-------------------------------- MODULE Index --------------------------------
(***************************************************************************)
(* The index of a key: class Index, a word of 32 bits.                     *)
(*                                                                         *)
(*      31 .. 12              11 .. 8              7 .. 0                  *)
(*      slot or row           status               file                    *)
(*                                                                         *)
(* A word is the set of its bits that are set, so that an or is a union    *)
(* and a mask takes bits away.  The setters or their argument in as it is, *)
(* however long.                                                           *)
(***************************************************************************)
EXTENDS Integers, FiniteSetsExt

\* The bits of an int that is not negative, and the number of a set of bits.
Bits(n)      == {b \in 0 .. 30 : (n \div 2 ^ b) % 2 = 1}
Number(bits) == MapThenSumSet(LAMBDA b : 2 ^ b, bits)

NewIndex == {}

InFileBit == 8
InHashBit == 9

SetFid(w, fid) == (w \ (0 .. 7)) \cup Bits(fid)
GetFid(w)      == Number(w \cap (0 .. 7))

\* Mutant: the old index is not cleared.
SetIdxOver(w, idx) == w \cup {b + 12 : b \in Bits(idx) \cap (0 .. 19)}

\* clear_idx leaves the two highest bits.
SetIdx(w, idx) == (w \ (12 .. 29)) \cup {b + 12 : b \in Bits(idx) \cap (0 .. 19)}
GetIdx(w)      == Number({b - 12 : b \in w \cap (12 .. 31)})

IfValid(w)  == w \cap (8 .. 11) # {}
IfInFile(w) == InFileBit \in w

SetInFile(w) == w \cup {InFileBit}
SetInHash(w) == w \cup {InHashBit}
=============================================================================
