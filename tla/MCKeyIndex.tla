----------------------------- MODULE MCKeyIndex -----------------------------
(* Names of two bytes of two bits, and entries that collide, for TLC. *)
EXTENDS KeyIndex

\* Their keys are 0, 1, 4 and 5.
MCNames == [1 .. 2 -> {0, 1}]

\* A search reaches three of five entries.  Of three keys that start at the same
\* one the last finds no entry when the fourth came before it.
MCHash(key) == IF key = 5 THEN 3 ELSE 0
=============================================================================
