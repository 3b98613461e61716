-------------------------- MODULE MCEngineExample --------------------------
(* Keys whose first doors collide, for TLC.                                *)
EXTENDS EngineExample, TLC

MCHash(k) == k \div 2

\* The keys 1 to 3 are the names a, ab and b, where a is the byte 0.  While
\* another name, or zeros, are copied over an item, it has its length still and
\* some of its bytes.  NoKey stands for every name that is not among the keys.
Spelt(old, new) ==
  CASE old = 1 /\ new = 3            -> {1, 3}
    [] old = 2 /\ new \in {3, NoKey} -> {2, NoKey}
    [] old = 3 /\ new # 3            -> {1, 3}
    [] OTHER                         -> {old}

MCTorn(old, new) == {IF name \in Keys THEN name ELSE NoKey : name \in Spelt(old, new)}

ProcSymmetry == Permutations(Procs)
=============================================================================
