--------------------------- MODULE MCCacheReaders ---------------------------
(* Readers that are alike, for TLC. *)
EXTENDS CacheReaders, TLC

Symmetry == Permutations(Readers)
=============================================================================
