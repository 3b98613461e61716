--------------------------- MODULE KeyIndexProofs ---------------------------
(***************************************************************************)
(* What the keys, the skip lists and the hash table promise for every      *)
(* size, every height, every hash function, every set of names and every   *)
(* number of writes: their types, the shape of the lists, where a name is  *)
(* found, and that every name is given the place of its latest record,     *)
(* which is what KeyMap says.                                              *)
(***************************************************************************)
EXTENDS KeyIndex, BufferLemmas, WellFoundedInduction, FiniteSetTheorems, TLAPS

-----------------------------------------------------------------------------
(* Induction and recursion                                                 *)

\* A set of numbers has a least one.
LEMMA LeastNumber ==
  ASSUME NEW T, T \subseteq Nat, T # {}
  PROVE  \E n \in T : \A m \in T : n <= m
<1>1. PICK n \in T : \A m \in T : ~ (<<m, n>> \in OpToRel(<, Nat))
  BY NatLessThanWellFounded, WFMin
<1>2. \A m \in T : m < n => <<m, n>> \in OpToRel(<, Nat)
  BY DEF OpToRel
<1>3. \A m \in T : m \in Nat /\ n \in Nat
  OBVIOUS
<1>4. \A m \in T : ~ (m < n)
  BY <1>1, <1>2
<1> QED BY <1>3, <1>4

\* The value at x is given, or comes from that at next[x], which has a lower rank.
IsRecursion(D, V, Stop, base, next, step, N, rank) ==
  /\ Stop \in SUBSET D /\ V # {}
  /\ base \in [Stop -> V] /\ next \in [D \ Stop -> D] /\ step \in [D \X V -> V]
  /\ N \in Nat /\ rank \in [D -> 0 .. N]
  /\ \A x \in D \ Stop : rank[next[x]] < rank[x]

\* A function defined by recursion exists if every call has a lower rank.
LEMMA Recursion ==
  ASSUME NEW D, NEW V, NEW Stop, NEW base, NEW next, NEW step, NEW N, NEW rank,
         IsRecursion(D, V, Stop, base, next, step, N, rank)
  PROVE  \E f \in [D -> V] :
           \A x \in D : f[x] = IF x \in Stop THEN base[x] ELSE step[<<x, f[next[x]]>>]
<1> USE DEF IsRecursion
<1> DEFINE Upto(k, f) == \A x \in D : rank[x] < k =>
                           f[x] = IF x \in Stop THEN base[x] ELSE step[<<x, f[next[x]]>>]
           T == {k \in Nat : ~ \E f \in [D -> V] : Upto(k, f)}
<1>1. T = {}
  <2>0. SUFFICES ASSUME T # {} PROVE FALSE
    OBVIOUS
  <2>1. PICK k \in T : \A j \in T : k <= j
    <3> HIDE DEF Upto
    <3> QED BY <2>0, LeastNumber
  <2>2. k # 0
    <3>1. PICK v \in V : TRUE
      OBVIOUS
    <3>2. [x \in D |-> v] \in [D -> V] /\ Upto(0, [x \in D |-> v])
      OBVIOUS
    <3> QED BY <3>2, <2>1
  <2>3. k - 1 \in Nat /\ k - 1 \notin T
    BY <2>1, <2>2
  <2>4. PICK f \in [D -> V] : Upto(k - 1, f)
    BY <2>3
  <2> DEFINE g == [x \in D |-> IF x \in Stop THEN base[x] ELSE step[<<x, f[next[x]]>>]]
  <2>5. g \in [D -> V]
    OBVIOUS
  <2>6. \A x \in D : rank[x] < k - 1 => g[x] = f[x]
    BY <2>4
  <2>7. Upto(k, g)
    <3>1. SUFFICES ASSUME NEW x \in D, rank[x] < k, x \notin Stop
                   PROVE  g[x] = step[<<x, g[next[x]]>>]
      OBVIOUS
    <3>2. next[x] \in D /\ rank[next[x]] < k - 1
      BY <3>1, <2>1
    <3>3. g[x] = step[<<x, f[next[x]]>>]
      BY <3>1
    <3> QED BY <2>6, <3>2, <3>3
  <2> QED BY <2>1, <2>5, <2>7
<1> HIDE DEF Upto
<1>2. PICK f \in [D -> V] : Upto(N + 1, f)
  <2>1. N + 1 \in Nat
    OBVIOUS
  <2>2. \A k \in Nat : \E f \in [D -> V] : Upto(k, f)
    BY <1>1
  <2> QED BY <2>1, <2>2
<1>3. \A x \in D : rank[x] < N + 1
  OBVIOUS
<1> QED BY <1>2, <1>3 DEF Upto

-----------------------------------------------------------------------------
(* Powers of two and sums of them                                          *)

TwoTo(b) == 2 ^ b

\* The powers of two that a word of 32 bits needs.
LEMMA TwoToIs ==
  /\ TwoTo(0) = 1 /\ TwoTo(1) = 2 /\ TwoTo(2) = 4 /\ TwoTo(3) = 8
  /\ TwoTo(4) = 16 /\ TwoTo(5) = 32 /\ TwoTo(6) = 64 /\ TwoTo(7) = 128
  /\ TwoTo(8) = 256 /\ TwoTo(9) = 512 /\ TwoTo(10) = 1024 /\ TwoTo(11) = 2048
  /\ TwoTo(12) = 4096 /\ TwoTo(13) = 8192 /\ TwoTo(14) = 16384 /\ TwoTo(15) = 32768
  /\ TwoTo(16) = 65536 /\ TwoTo(17) = 131072 /\ TwoTo(18) = 262144 /\ TwoTo(19) = 524288
  /\ TwoTo(20) = 1048576 /\ TwoTo(21) = 2097152 /\ TwoTo(22) = 4194304 /\ TwoTo(23) = 8388608
  /\ TwoTo(24) = 16777216 /\ TwoTo(25) = 33554432 /\ TwoTo(26) = 67108864 /\ TwoTo(27) = 134217728
  /\ TwoTo(28) = 268435456 /\ TwoTo(29) = 536870912 /\ TwoTo(30) = 1073741824 /\ TwoTo(31) = 2147483648
BY DEF TwoTo

\* The highest bit of a word or a key.
TopBit == IF KeyBits <= 32 THEN 31 ELSE KeyBits - 1
Digits == 0 .. TopBit

\* The bits of words and of keys are among the digits.
LEMMA TopIs ==
  /\ KeyBits \in Nat /\ TopBit \in Nat /\ TopBit >= 31 /\ KeyBits - 1 <= TopBit
  /\ \A b \in Digits : b \in Nat /\ b <= TopBit
  /\ \A b \in 0 .. 31 : b \in 0 .. TopBit /\ b \in Digits
<1>1. KeyBits \in Nat
  <2>1. KeyBytes \in Nat /\ ByteBits \in Nat
    BY KeyIndexAssumption
  <2>2. PICK k \in Nat, b \in Nat : k = KeyBytes /\ b = ByteBits
    BY <2>1
  <2>3. k * b \in Nat
    OBVIOUS
  <2> QED BY <2>2, <2>3 DEF KeyBits
<1>2. TopBit \in Nat /\ TopBit >= 31 /\ KeyBits - 1 <= TopBit
  BY <1>1 DEF TopBit
<1> QED BY <1>1, <1>2 DEF Digits

\* Each power is twice the one before, as far as words and keys go.
LEMMA TwoToGrows ==
  /\ TwoTo(0) = 1
  /\ \A b \in 0 .. TopBit : TwoTo(b) \in Nat \ {0}
  /\ \A b \in 0 .. TopBit - 1 : TwoTo(b + 1) = 2 * TwoTo(b)
  /\ \A b \in 0 .. 31 : TwoTo(b) \in Nat \ {0}
<1>1. \A b \in 0 .. 30 : \/ b = 0 \/ b = 1 \/ b = 2 \/ b = 3 \/ b = 4 \/ b = 5 \/ b = 6 \/ b = 7
                         \/ b = 8 \/ b = 9 \/ b = 10 \/ b = 11 \/ b = 12 \/ b = 13 \/ b = 14 \/ b = 15
                         \/ b = 16 \/ b = 17 \/ b = 18 \/ b = 19 \/ b = 20 \/ b = 21 \/ b = 22 \/ b = 23
                         \/ b = 24 \/ b = 25 \/ b = 26 \/ b = 27 \/ b = 28 \/ b = 29 \/ b = 30
  OBVIOUS
<1>2. \A b \in 0 .. 30 : TwoTo(b + 1) = 2 * TwoTo(b)
  BY <1>1, TwoToIs
<1>3. \A b \in 0 .. KeyBits - 1 : TwoTo(b + 1) = 2 * TwoTo(b)
  BY PowersDouble, Zenon DEF TwoTo
<1>4. \A b \in 0 .. TopBit - 1 : TwoTo(b + 1) = 2 * TwoTo(b)
  <2>1. \A b \in 0 .. TopBit - 1 : b \in 0 .. 30 \/ b \in 0 .. KeyBits - 1
    BY TopIs DEF TopBit
  <2> QED BY <1>2, <1>3, <2>1
<1>5. \A b \in 0 .. TopBit : TwoTo(b) \in Nat \ {0}
  <2> DEFINE T == {b \in 0 .. TopBit : TwoTo(b) \notin Nat \ {0}}
  <2>1. SUFFICES ASSUME T # {} PROVE FALSE
    OBVIOUS
  <2>2. PICK b \in T : \A c \in T : b <= c
    <3>1. T \subseteq Nat
      OBVIOUS
    <3> HIDE DEF T
    <3> QED BY <2>1, <3>1, LeastNumber
  <2>3. b # 0
    <3>1. TwoTo(0) \in Nat \ {0}
      BY TwoToIs
    <3> QED BY <2>2, <3>1
  <2>4. PICK c \in 0 .. TopBit - 1 : b = c + 1
    <3>1. b - 1 \in 0 .. TopBit - 1 /\ b = (b - 1) + 1
      BY <2>2, <2>3, TopIs
    <3> QED BY <3>1
  <2>5. TwoTo(c) \in Nat \ {0}
    <3>1. c \in 0 .. TopBit /\ ~ (b <= c)
      BY <2>4, TopIs
    <3> QED BY <2>2, <3>1
  <2>6. TwoTo(b) = 2 * TwoTo(c)
    BY <1>4, <2>4
  <2> QED BY <2>2, <2>5, <2>6
<1> QED BY <1>4, <1>5, TwoToIs, TopIs

Chosen(s) == CHOOSE x \in s : TRUE

\* What MapThenSumSet does for Number.
IsSum(f, bits) == f = [s \in SUBSET bits |-> IF s = {} THEN 0
                                           ELSE TwoTo(Chosen(s)) + f[s \ {Chosen(s)}]]

\* Number, with the library operators it is made of opened.
LEMMA NumberIs ==
  ASSUME NEW bits
  PROVE  Number(bits) = (CHOOSE f : IsSum(f, bits))[bits]
BY DEF Number, MapThenSumSet, MapThenFoldSet, TwoTo, Chosen, IsSum

\* What is chosen from a set is in it.
LEMMA ChosenIsIn == ASSUME NEW s, s # {} PROVE Chosen(s) \in s
BY DEF Chosen

\* A set of digits is finite.
LEMMA FiniteBits ==
  ASSUME NEW s \in SUBSET Digits
  PROVE  IsFiniteSet(s) /\ Cardinality(s) \in 0 .. TopBit + 1
<1>1. s \in SUBSET Nat /\ TopBit \in Nat /\ \A b \in s : b <= TopBit
  BY TopIs DEF Digits
<1>2. IsFiniteSet(s) /\ Cardinality(s) <= TopBit + 1
  BY <1>1, FS_BoundedSetOfNaturals
<1>3. Cardinality(s) \in Nat
  BY <1>2, FS_CardinalityType
<1> QED BY <1>2, <1>3

\* A set of bits without one of them is a smaller one.
LEMMA RemoveBit ==
  ASSUME NEW s \in SUBSET Digits, NEW b \in s
  PROVE  s \ {b} \in SUBSET Digits /\ Cardinality(s \ {b}) < Cardinality(s)
<1>1. Cardinality(s \ {b}) = Cardinality(s) - 1 /\ Cardinality(s) \in Nat
  BY FiniteBits, FS_RemoveElement
<1> QED BY <1>1

\* The sum that Number chooses exists.
LEMMA SumExists ==
  ASSUME NEW bits \in SUBSET Digits
  PROVE  \E f \in [SUBSET bits -> Nat] : IsSum(f, bits)
<1> DEFINE D == SUBSET bits
           step == [x \in D \X Nat |->
                      IF x[1] = {} THEN 0 ELSE TwoTo(Chosen(x[1])) + x[2]]
           next == [s \in D \ {{}} |-> s \ {Chosen(s)}]
           rank == [s \in D |-> Cardinality(s)]
           base == [s \in {{}} |-> 0]
<1>1. \A s \in D \ {{}} : Chosen(s) \in s /\ Chosen(s) \in Digits
  BY ChosenIsIn
<1>2. step \in [D \X Nat -> Nat]
  <2>1. SUFFICES ASSUME NEW s \in D, NEW n \in Nat, s # {}
                 PROVE  TwoTo(Chosen(s)) + n \in Nat
    OBVIOUS
  <2>2. TwoTo(Chosen(s)) \in Nat
    BY <2>1, <1>1, TwoToGrows, TopIs DEF Digits
  <2> QED BY <2>2
<1>3. /\ {{}} \in SUBSET D /\ base \in [{{}} -> Nat]
      /\ next \in [D \ {{}} -> D] /\ rank \in [D -> 0 .. TopBit + 1]
  BY FiniteBits
<1>4. \A s \in D \ {{}} : rank[next[s]] < rank[s]
  BY <1>1, RemoveBit
<1> HIDE DEF rank, next, base, step, D
<1>5. PICK f \in [D -> Nat] :
        \A s \in D : f[s] = IF s \in {{}} THEN base[s] ELSE step[<<s, f[next[s]]>>]
  <2>1. IsRecursion(D, Nat, {{}}, base, next, step, TopBit + 1, rank)
    <3>1. TopBit + 1 \in Nat
      BY TopIs
    <3> QED BY <1>2, <1>3, <1>4, <3>1 DEF IsRecursion
  <2> QED BY <2>1, Recursion
<1>6. \A s \in D : f[s] = IF s = {} THEN 0 ELSE TwoTo(Chosen(s)) + f[s \ {Chosen(s)}]
  <2>1. SUFFICES ASSUME NEW s \in D
                 PROVE  f[s] = IF s = {} THEN 0 ELSE TwoTo(Chosen(s)) + f[s \ {Chosen(s)}]
    OBVIOUS
  <2>2. CASE s = {}
    BY <1>5, <2>2 DEF base
  <2>3. CASE s # {}
    <3>1. next[s] = s \ {Chosen(s)} /\ next[s] \in D
      BY <2>3, <1>3 DEF next
    <3>2. step[<<s, f[next[s]]>>] = TwoTo(Chosen(s)) + f[next[s]]
      BY <2>3, <3>1 DEF step
    <3> QED BY <1>5, <2>3, <3>1, <3>2
  <2> QED BY <2>2, <2>3
<1> QED BY <1>5, <1>6 DEF D, IsSum

\* Of some sets of bits one has the fewest.
LEMMA LeastSet ==
  ASSUME NEW T, T \subseteq SUBSET Digits, T # {}
  PROVE  \E s \in T : \A t \in T : Cardinality(s) <= Cardinality(t)
<1> DEFINE C == {Cardinality(s) : s \in T}
<1>1. C \subseteq Nat /\ C # {}
  BY FiniteBits
<1>2. PICK n \in C : \A m \in C : n <= m
  <2> HIDE DEF C
  <2> QED BY <1>1, LeastNumber
<1> QED BY <1>2

SumOf(bits) == CHOOSE f : IsSum(f, bits)

\* So what is chosen is that sum.
LEMMA SumIsSum ==
  ASSUME NEW bits \in SUBSET Digits
  PROVE  /\ IsSum(SumOf(bits), bits)
         /\ \A s \in SUBSET bits : SumOf(bits)[s] = IF s = {} THEN 0
                 ELSE TwoTo(Chosen(s)) + SumOf(bits)[s \ {Chosen(s)}]
<1>1. IsSum(SumOf(bits), bits)
  BY SumExists DEF SumOf
<1>2. PICK f : f = SumOf(bits) /\ IsSum(f, bits)
  BY <1>1
<1>3. \A s \in SUBSET bits : f[s] = IF s = {} THEN 0
                 ELSE TwoTo(Chosen(s)) + f[s \ {Chosen(s)}]
  BY <1>2 DEF IsSum
<1> QED BY <1>1, <1>2, <1>3

\* The sums over a set and over a larger one agree.
LEMMA SumsAgree ==
  ASSUME NEW bits \in SUBSET Digits, NEW s \in SUBSET bits
  PROVE  SumOf(bits)[s] = Number(s) /\ Number(s) \in Nat
<1> DEFINE T == {t \in SUBSET bits : ~ (SumOf(bits)[t] = SumOf(s)[t] /\ SumOf(s)[t] \in Nat)}
<1>1. SUFFICES ASSUME T \cap SUBSET s # {} PROVE FALSE
  <2>1. s \in SUBSET s /\ Number(s) = SumOf(s)[s]
    BY NumberIs DEF SumOf
  <2> QED BY <2>1
<1>2. PICK t \in T \cap SUBSET s : \A u \in T \cap SUBSET s : Cardinality(t) <= Cardinality(u)
  <2>1. T \cap SUBSET s \subseteq SUBSET Digits
    OBVIOUS
  <2> HIDE DEF T
  <2> QED BY <1>1, <2>1, LeastSet
<1>3. /\ SumOf(bits)[t] = IF t = {} THEN 0 ELSE TwoTo(Chosen(t)) + SumOf(bits)[t \ {Chosen(t)}]
      /\ SumOf(s)[t] = IF t = {} THEN 0 ELSE TwoTo(Chosen(t)) + SumOf(s)[t \ {Chosen(t)}]
  BY <1>2, SumIsSum
<1>4. t # {}
  BY <1>2, <1>3
<1> DEFINE u == t \ {Chosen(t)}
<1>5. Chosen(t) \in t /\ Chosen(t) \in Digits /\ TwoTo(Chosen(t)) \in Nat
  BY <1>2, <1>4, ChosenIsIn, TwoToGrows, TopIs DEF Digits
<1>6. u \in SUBSET s /\ u \in SUBSET bits /\ Cardinality(u) < Cardinality(t)
  BY <1>2, <1>5, RemoveBit
<1>7. u \notin T
  <2>1. Cardinality(u) \in Nat /\ Cardinality(t) \in Nat
    BY <1>2, <1>6, FiniteBits
  <2> HIDE DEF T, u
  <2> QED BY <1>2, <1>6, <2>1
<1>8. SumOf(bits)[u] = SumOf(s)[u] /\ SumOf(s)[u] \in Nat
  BY <1>6, <1>7
<1>9. SumOf(bits)[t] = SumOf(s)[t] /\ SumOf(s)[t] \in Nat
  BY <1>3, <1>4, <1>5, <1>8
<1> QED BY <1>2, <1>9

\* The number of a set of bits, by the bit that is chosen from it.
LEMMA NumberOf ==
  ASSUME NEW s \in SUBSET Digits
  PROVE  /\ Number(s) \in Nat
         /\ s = {} => Number(s) = 0
         /\ s # {} => /\ Chosen(s) \in s
                      /\ Number(s) = TwoTo(Chosen(s)) + Number(s \ {Chosen(s)})
<1>1. SumOf(s)[s] = IF s = {} THEN 0 ELSE TwoTo(Chosen(s)) + SumOf(s)[s \ {Chosen(s)}]
  BY SumIsSum
<1>2. s \in SUBSET s /\ s \ {Chosen(s)} \in SUBSET s
  OBVIOUS
<1> QED BY <1>1, <1>2, SumsAgree, ChosenIsIn

\* Whichever bit is taken away.
LEMMA NumberWith ==
  ASSUME NEW s \in SUBSET Digits, NEW b \in s
  PROVE  Number(s) = TwoTo(b) + Number(s \ {b})
<1> DEFINE T == {t \in SUBSET Digits : ~ \A a \in t : Number(t) = TwoTo(a) + Number(t \ {a})}
<1>1. SUFFICES ASSUME T # {} PROVE FALSE
  OBVIOUS
<1>2. PICK t \in T : \A u \in T : Cardinality(t) <= Cardinality(u)
  <2>1. T \subseteq SUBSET Digits
    OBVIOUS
  <2> HIDE DEF T
  <2> QED BY <1>1, <2>1, LeastSet
<1>3. PICK a \in t : Number(t) # TwoTo(a) + Number(t \ {a})
  BY <1>2
<1>4. PICK c \in t : Number(t) = TwoTo(c) + Number(t \ {c})
  BY <1>2, <1>3, NumberOf
<1>5. a # c /\ a \in Digits /\ c \in Digits /\ t \in SUBSET Digits
  BY <1>2, <1>3, <1>4
<1>6. ASSUME NEW x \in t, NEW y \in t, x # y
      PROVE  Number(t \ {x}) = TwoTo(y) + Number((t \ {x}) \ {y})
  <2>1. t \ {x} \in SUBSET Digits /\ Cardinality(t \ {x}) < Cardinality(t)
    BY <1>5, RemoveBit
  <2>2. Cardinality(t \ {x}) \in Nat /\ Cardinality(t) \in Nat
    BY <1>5, <2>1, FiniteBits
  <2>3. t \ {x} \notin T
    <3> HIDE DEF T
    <3> QED BY <1>2, <2>1, <2>2
  <2> QED BY <1>6, <2>1, <2>3
<1>7. Number(t \ {c}) = TwoTo(a) + Number((t \ {c}) \ {a})
  BY <1>5, <1>6
<1>8. Number(t \ {a}) = TwoTo(c) + Number((t \ {a}) \ {c})
  BY <1>5, <1>6
<1>9. (t \ {a}) \ {c} = (t \ {c}) \ {a}
  OBVIOUS
<1>10. /\ TwoTo(a) \in Nat /\ TwoTo(c) \in Nat
       /\ Number((t \ {c}) \ {a}) \in Nat
  <2>1. (t \ {c}) \ {a} \in SUBSET Digits
    BY <1>5
  <2> QED BY <1>5, <2>1, NumberOf, TwoToGrows, TopIs DEF Digits
<1>11. PICK x, y, z \in Nat : x = TwoTo(a) /\ y = TwoTo(c) /\ z = Number((t \ {c}) \ {a})
  BY <1>10
<1>12. Number(t \ {c}) = x + z /\ Number(t \ {a}) = y + z /\ Number(t) = y + Number(t \ {c})
  BY <1>4, <1>7, <1>8, <1>9, <1>11
<1>13. Number(t) = x + (y + z)
  BY <1>11, <1>12
<1> QED BY <1>3, <1>11, <1>12, <1>13

\* Numbers of disjoint sets of bits add up.
LEMMA NumberOfUnion ==
  ASSUME NEW s \in SUBSET Digits, NEW t \in SUBSET Digits, s \cap t = {}
  PROVE  Number(s \cup t) = Number(s) + Number(t)
<1> DEFINE T == {u \in SUBSET t : Number(s \cup u) # Number(s) + Number(u)}
<1>1. SUFFICES ASSUME T # {} PROVE FALSE
  OBVIOUS
<1>2. PICK u \in T : \A v \in T : Cardinality(u) <= Cardinality(v)
  <2>1. T \subseteq SUBSET Digits
    OBVIOUS
  <2> HIDE DEF T
  <2> QED BY <1>1, <2>1, LeastSet
<1>3. u \in SUBSET Digits /\ u \in SUBSET t /\ Number(s \cup u) # Number(s) + Number(u)
  BY <1>2
<1>4. u # {}
  <2>1. s \cup {} = s /\ Number({}) = 0 /\ Number(s) \in Nat
    BY NumberOf
  <2> QED BY <1>3, <2>1
<1>5. PICK b \in u : TRUE
  BY <1>4
<1> DEFINE v == u \ {b}
<1>6. v \in SUBSET Digits /\ v \in SUBSET t /\ Cardinality(v) < Cardinality(u)
  BY <1>3, <1>5, RemoveBit
<1>7. Number(s \cup v) = Number(s) + Number(v)
  <2>1. Cardinality(v) \in Nat /\ Cardinality(u) \in Nat
    BY <1>3, <1>6, FiniteBits
  <2>2. v \notin T
    <3> HIDE DEF T, v
    <3> QED BY <1>2, <1>6, <2>1
  <2> HIDE DEF v
  <2> QED BY <1>6, <2>2
<1>8. /\ s \cup u \in SUBSET Digits /\ b \in s \cup u /\ (s \cup u) \ {b} = s \cup v
      /\ b \in Digits
  BY <1>3, <1>5
<1>9. Number(s \cup u) = TwoTo(b) + Number(s \cup v) /\ Number(u) = TwoTo(b) + Number(v)
  BY <1>3, <1>5, <1>8, NumberWith
<1>10. Number(s) \in Nat /\ Number(v) \in Nat /\ TwoTo(b) \in Nat
  BY <1>6, <1>8, NumberOf, TwoToGrows, TopIs DEF Digits
<1> HIDE DEF T, v
<1> QED BY <1>3, <1>7, <1>9, <1>10

\* A number of bits below k is below 2 ^ k.
LEMMA NumberIsBelow ==
  ASSUME NEW k \in 0 .. TopBit, NEW s \in SUBSET (0 .. k - 1)
  PROVE  Number(s) < TwoTo(k)
<1> DEFINE T == {j \in 0 .. TopBit : \E t \in SUBSET (0 .. j - 1) : ~ (Number(t) < TwoTo(j))}
<1>1. SUFFICES ASSUME T # {} PROVE FALSE
  OBVIOUS
<1>2. PICK j \in T : \A i \in T : j <= i
  <2>1. T \subseteq Nat
    OBVIOUS
  <2> HIDE DEF T
  <2> QED BY <1>1, <2>1, LeastNumber
<1>3. PICK t \in SUBSET (0 .. j - 1) : ~ (Number(t) < TwoTo(j))
  BY <1>2
<1>4. j # 0
  <2>1. 0 .. 0 - 1 = {}
    OBVIOUS
  <2>2. Number({}) = 0
    BY NumberOf
  <2>3. j = 0 => t = {}
    BY <1>3, <2>1
  <2>4. j = 0 => Number(t) = 0 /\ TwoTo(j) = 1
    BY <2>2, <2>3, TwoToGrows, TopIs
  <2> QED BY <1>3, <2>4
<1>5. /\ j - 1 \in 0 .. TopBit - 1
      /\ \A w \in SUBSET (0 .. (j - 1) - 1) : Number(w) < TwoTo(j - 1)
  <2>1. j - 1 \in 0 .. TopBit /\ j - 1 \notin T /\ j - 1 \in 0 .. TopBit - 1
    <3>1. j \in 0 .. TopBit /\ j - 1 \in 0 .. TopBit /\ j - 1 \in 0 .. TopBit - 1 /\ ~ (j <= j - 1)
      BY <1>2, <1>4, TopIs
    <3> QED BY <1>2, <3>1
  <2> QED BY <2>1
<1>6. TwoTo(j) = 2 * TwoTo(j - 1) /\ TwoTo(j - 1) \in Nat
  <2>1. (j - 1) + 1 = j
    BY <1>2
  <2> QED BY <1>5, <2>1, TwoToGrows, TopIs
<1> DEFINE u == t \ {j - 1}
<1>7. u \in SUBSET (0 .. (j - 1) - 1) /\ t \in SUBSET Digits /\ u \in SUBSET Digits
  BY <1>2, <1>3, <1>4, TopIs DEF Digits
<1>8. Number(u) < TwoTo(j - 1) /\ Number(u) \in Nat
  BY <1>5, <1>7, NumberOf
<1>9. Number(t) = Number(u) \/ Number(t) = TwoTo(j - 1) + Number(u)
  <2>1. CASE j - 1 \in t
    BY <1>7, <2>1, NumberWith
  <2>2. CASE j - 1 \notin t
    <3>1. t = u
      BY <2>2
    <3> QED BY <3>1
  <2> QED BY <2>1, <2>2
<1> HIDE DEF u, T
<1> QED BY <1>3, <1>6, <1>8, <1>9

\* The highest bit in which two words differ decides.
LEMMA HigherNumber ==
  ASSUME NEW s \in SUBSET Digits, NEW t \in SUBSET Digits, NEW k \in Digits,
         k \in t, k \notin s, \A b \in Digits : b > k => (b \in s <=> b \in t)
  PROVE  Number(s) < Number(t)
<1> DEFINE high == {b \in s : b > k}
           low(w) == {b \in w : b < k}
<1>0. \A b \in Digits : b \in Nat /\ (b < k \/ b = k \/ b > k)
  BY TopIs DEF Digits
<1>1. /\ s = high \cup low(s) /\ high \cap low(s) = {}
      /\ t = (high \cup {k}) \cup low(t) /\ (high \cup {k}) \cap low(t) = {}
      /\ (high \cup {k}) \ {k} = high
  <2>1. \A b \in s : b \in Digits /\ (b < k \/ b > k)
    BY <1>0
  <2>2. \A b \in t : b \in Digits /\ (b < k \/ b = k \/ (b > k /\ b \in s))
    BY <1>0
  <2>3. \A b \in high : b \in t /\ ~ (b < k) /\ b # k
    BY <1>0
  <2> QED BY <2>1, <2>2, <2>3
<1>2. /\ high \in SUBSET Digits /\ low(s) \in SUBSET Digits /\ low(t) \in SUBSET Digits
      /\ high \cup {k} \in SUBSET Digits /\ k \in high \cup {k}
      /\ k \in 0 .. TopBit /\ low(s) \in SUBSET (0 .. k - 1)
  <2>1. \A b \in s : b \in 0 .. TopBit /\ (b < k => b \in 0 .. k - 1)
    BY TopIs DEF Digits
  <2>2. k \in 0 .. TopBit
    BY TopIs DEF Digits
  <2> QED BY <2>1, <2>2
<1> HIDE DEF high, low
<1>3. Number(s) = Number(high) + Number(low(s))
  BY <1>1, <1>2, NumberOfUnion
<1>4. Number(t) = Number(high \cup {k}) + Number(low(t))
  BY <1>1, <1>2, NumberOfUnion
<1>5. Number(high \cup {k}) = TwoTo(k) + Number(high)
  BY <1>1, <1>2, NumberWith
<1>6. Number(low(s)) < TwoTo(k)
  BY <1>2, NumberIsBelow
<1>7. /\ Number(high) \in Nat /\ Number(low(s)) \in Nat /\ Number(low(t)) \in Nat
      /\ TwoTo(k) \in Nat
  BY <1>2, NumberOf, TwoToGrows, TopIs
<1> QED BY <1>3, <1>4, <1>5, <1>6, <1>7

\* Two sets of bits that differ do so at a highest bit.
LEMMA HighestDifference ==
  ASSUME NEW s \in SUBSET Digits, NEW t \in SUBSET Digits, s # t
  PROVE  \E k \in (s \cup t) \ (s \cap t) :
           \A b \in Digits : b > k => (b \in s <=> b \in t)
<1> DEFINE D == (s \cup t) \ (s \cap t)
           T == {TopBit - b : b \in D}
<1>0. \A b \in Digits : b \in 0 .. TopBit /\ TopBit - b \in Nat
  BY TopIs DEF Digits
<1>1. T \subseteq Nat /\ T # {}
  BY <1>0
<1>2. PICK n \in T : \A m \in T : n <= m
  <2> HIDE DEF T
  <2> QED BY <1>1, LeastNumber
<1>3. PICK k \in D : n = TopBit - k
  BY <1>2
<1>4. \A b \in D : b <= k
  <2>1. \A b \in D : b \in 0 .. TopBit /\ k \in 0 .. TopBit /\ n <= TopBit - b
    BY <1>0, <1>2, <1>3
  <2> QED BY <1>3, <2>1, TopIs
<1>5. \A b \in Digits : b > k => b \notin D
  BY <1>0, <1>3, <1>4
<1> QED BY <1>3, <1>5

\* A number has one set of bits.
LEMMA NumbersDiffer ==
  ASSUME NEW s \in SUBSET Digits, NEW t \in SUBSET Digits, Number(s) = Number(t)
  PROVE  s = t
<1>1. SUFFICES ASSUME s # t PROVE FALSE
  OBVIOUS
<1>2. PICK k \in (s \cup t) \ (s \cap t) : \A b \in Digits : b > k => (b \in s <=> b \in t)
  BY <1>1, HighestDifference
<1>3. Number(s) < Number(t) \/ Number(t) < Number(s)
  BY <1>2, HigherNumber
<1>4. Number(s) \in Nat /\ Number(t) \in Nat
  BY NumberOf
<1> QED BY <1>3, <1>4

-----------------------------------------------------------------------------
(* The bits of a number                                                    *)

\* Dividing by 2p is dividing by p and halving.
LEMMA DivideTwice ==
  ASSUME NEW n \in Nat, NEW p \in Nat \ {0}
  PROVE  /\ n \div p \in Nat /\ n \div (2 * p) \in Nat
         /\ n \div p = 2 * (n \div (2 * p)) + ((n \div p) % 2)
<1> DEFINE q == n \div p
<1>1. q \in Nat /\ q * p <= n /\ n < q * p + p
  OBVIOUS
<1>2. q = 2 * (q \div 2) + (q % 2) /\ q % 2 \in {0, 1} /\ q \div 2 \in Nat
  BY <1>1
<1>3. n \div (2 * p) = q \div 2
  OBVIOUS
<1> QED BY <1>1, <1>2, <1>3

\* The bits of a number are digits.
LEMMA BitsAre ==
  ASSUME NEW n
  PROVE  /\ Bits(n) = {b \in 0 .. 30 : (n \div TwoTo(b)) % 2 = 1}
         /\ Bits(n) \in SUBSET (0 .. 30) /\ Bits(n) \in SUBSET Digits
<1>1. Bits(n) = {b \in 0 .. 30 : (n \div TwoTo(b)) % 2 = 1}
  BY DEF Bits, TwoTo
<1> QED BY <1>1, TopIs DEF Digits

\* A higher power of two is larger.
LEMMA TwoToIsMonotone ==
  ASSUME NEW k \in 0 .. 31, NEW b \in 0 .. 31, k <= b
  PROVE  TwoTo(k) <= TwoTo(b)
<1>1. CASE k = b
  BY <1>1, TwoToGrows, TopIs
<1>2. CASE k # b
  <2>1. {k} \in SUBSET (0 .. b - 1) /\ {k} \in SUBSET Digits /\ {k} \ {k} = {}
    BY <1>2, TopIs DEF Digits
  <2>2. Number({k}) < TwoTo(b)
    BY <2>1, NumberIsBelow, TopIs
  <2>3. Number({k}) = TwoTo(k) + Number({}) /\ Number({}) = 0
    BY <2>1, NumberWith, NumberOf
  <2> QED BY <2>2, <2>3, TwoToGrows, TopIs
<1> QED BY <1>1, <1>2

\* The bits below k are what is left by a division by the power k.
LEMMA LowBits ==
  ASSUME NEW n \in Nat, NEW k \in 0 .. 31
  PROVE  n = (n \div TwoTo(k)) * TwoTo(k) + Number(Bits(n) \cap (0 .. k - 1))
<1> DEFINE q(j) == n \div TwoTo(j)
           low(j) == Bits(n) \cap (0 .. j - 1)
           T == {j \in 0 .. 31 : n # q(j) * TwoTo(j) + Number(low(j))}
<1>1. SUFFICES ASSUME T # {} PROVE FALSE
  OBVIOUS
<1>2. PICK j \in T : \A i \in T : j <= i
  <2>1. T \subseteq Nat
    OBVIOUS
  <2> HIDE DEF T
  <2> QED BY <1>1, <2>1, LeastNumber
<1>3. j # 0
  <2>1. low(0) = {} /\ q(0) = n /\ TwoTo(0) = 1
    BY TwoToGrows, TopIs
  <2>2. Number(low(0)) = 0
    <3> HIDE DEF low
    <3> QED BY <2>1, NumberOf
  <2>3. n = n * 1 + 0
    OBVIOUS
  <2>4. n = q(0) * TwoTo(0) + Number(low(0))
    BY <2>1, <2>2, <2>3
  <2> QED BY <1>2, <2>4
<1>4. PICK i \in 0 .. 30 : i = j - 1 /\ j = i + 1
  <2>1. j \in 0 .. 31
    BY <1>2
  <2> QED BY <1>3, <2>1
<1>5. i \notin T /\ i \in 0 .. 31
  BY <1>2, <1>4
<1>6. n = q(i) * TwoTo(i) + Number(low(i))
  BY <1>5
<1>7. TwoTo(j) = 2 * TwoTo(i) /\ TwoTo(i) \in Nat \ {0}
  BY <1>4, TwoToGrows, TopIs
<1>8. q(i) \in Nat /\ q(j) \in Nat /\ q(i) = 2 * q(j) + (q(i) % 2)
  BY <1>7, DivideTwice
<1>9. /\ low(i) \in SUBSET Digits /\ low(j) \in SUBSET Digits /\ i \notin low(i)
      /\ i \in Bits(n) => low(j) \ {i} = low(i) /\ i \in low(j)
      /\ i \notin Bits(n) => low(j) = low(i)
  <2>1. 0 .. j - 1 = (0 .. i - 1) \cup {i} /\ i \notin 0 .. i - 1
    BY <1>4
  <2> QED BY <2>1, BitsAre
<1>10. i \in Bits(n) <=> q(i) % 2 = 1
  BY <1>4, BitsAre
<1>11. Number(low(j)) = (q(i) % 2) * TwoTo(i) + Number(low(i)) /\ Number(low(i)) \in Nat
  <2>1. q(i) % 2 \in {0, 1}
    BY <1>8
  <2>2. Number(low(i)) \in Nat
    <3> HIDE DEF low
    <3> QED BY <1>9, NumberOf
  <2>3. CASE i \in Bits(n)
    <3>1. Number(low(j)) = TwoTo(i) + Number(low(i))
      <4> HIDE DEF low
      <4> QED BY <1>9, <2>3, NumberWith
    <3>2. q(i) % 2 = 1
      BY <1>10, <2>3
    <3>3. 1 * TwoTo(i) = TwoTo(i)
      BY <1>7
    <3> QED BY <2>2, <3>1, <3>2, <3>3
  <2>4. CASE i \notin Bits(n)
    <3>1. q(i) % 2 = 0
      BY <1>10, <2>1, <2>4
    <3>2. 0 * TwoTo(i) + Number(low(i)) = Number(low(i))
      BY <1>7, <2>2
    <3>3. low(j) = low(i)
      BY <1>9, <2>4
    <3> HIDE DEF low
    <3> QED BY <2>2, <3>1, <3>2, <3>3
  <2> QED BY <2>3, <2>4
<1>12. n = q(j) * TwoTo(j) + Number(low(j))
  <2>1. PICK p \in Nat, a \in Nat, c \in Nat, d \in Nat, e \in Nat :
          /\ p = TwoTo(i) /\ a = q(i) /\ c = q(j) /\ d = q(i) % 2 /\ e = Number(low(i))
    BY <1>7, <1>8, <1>11
  <2>2. n = a * p + e /\ a = 2 * c + d /\ Number(low(j)) = d * p + e /\ TwoTo(j) = 2 * p
    BY <2>1, <1>6, <1>7, <1>8, <1>11
  <2>3. n = c * (2 * p) + (d * p + e)
    <3> HIDE DEF q, low
    <3> QED BY <2>2, SMTT(30)
  <2> QED BY <2>1, <2>2, <2>3
<1> QED BY <1>2, <1>12

\* A number below a power of two is made of the bits below it.
LEMMA NumberOfBits ==
  ASSUME NEW k \in 0 .. 31, NEW n \in Nat, n < TwoTo(k)
  PROVE  Bits(n) \in SUBSET (0 .. k - 1) /\ Number(Bits(n)) = n
<1>1. \A b \in 0 .. 30 : b >= k => n \div TwoTo(b) = 0
  <2>1. SUFFICES ASSUME NEW b \in 0 .. 30, b >= k PROVE n \div TwoTo(b) = 0
    OBVIOUS
  <2>2. TwoTo(k) <= TwoTo(b) /\ TwoTo(b) \in Nat \ {0} /\ TwoTo(k) \in Nat
    <3>1. b \in 0 .. 31 /\ k <= b
      BY <2>1
    <3> QED BY <3>1, TwoToIsMonotone, TwoToGrows, TopIs
  <2>3. PICK p \in Nat \ {0} : p = TwoTo(b) /\ n < p
    BY <2>2
  <2>4. n \div p = 0
    BY <2>3
  <2> QED BY <2>3, <2>4
<1>2. Bits(n) \in SUBSET (0 .. k - 1)
  <2>1. SUFFICES ASSUME NEW b \in Bits(n) PROVE b \in 0 .. k - 1
    OBVIOUS
  <2>2. b \in 0 .. 30 /\ (n \div TwoTo(b)) % 2 = 1
    BY BitsAre
  <2>3. ~ (b >= k)
    BY <1>1, <2>2
  <2> QED BY <2>2, <2>3
<1>3. Bits(n) \cap (0 .. k - 1) = Bits(n)
  BY <1>2
<1>4. n \div TwoTo(k) = 0
  <2>1. PICK p \in Nat \ {0} : p = TwoTo(k) /\ n < p
    BY TwoToGrows, TopIs
  <2>2. n \div p = 0
    BY <2>1
  <2> QED BY <2>1, <2>2
<1>5. n = 0 * TwoTo(k) + Number(Bits(n))
  <2>1. n = (n \div TwoTo(k)) * TwoTo(k) + Number(Bits(n) \cap (0 .. k - 1))
    BY LowBits
  <2> QED BY <1>3, <1>4, <2>1
<1>6. TwoTo(k) \in Nat /\ Number(Bits(n)) \in Nat
  BY BitsAre, NumberOf, TwoToGrows, TopIs
<1> QED BY <1>2, <1>5, <1>6

\* The low byte of a number.
LEMMA LowByte ==
  ASSUME NEW n \in Nat
  PROVE  Number(Bits(n) \cap (0 .. 7)) = n % 256
<1>1. n = (n \div 256) * 256 + Number(Bits(n) \cap (0 .. 7))
  <2>1. 8 \in 0 .. 31 /\ 8 - 1 = 7
    OBVIOUS
  <2>2. TwoTo(8) = 256
    BY TwoToIs
  <2>3. n = (n \div TwoTo(8)) * TwoTo(8) + Number(Bits(n) \cap (0 .. 8 - 1))
    BY <2>1, LowBits
  <2> QED BY <2>1, <2>2, <2>3
<1>2. Number(Bits(n) \cap (0 .. 7)) \in Nat
  <2>1. Bits(n) \cap (0 .. 7) \in SUBSET Digits
    BY BitsAre
  <2> QED BY <2>1, NumberOf
<1>3. n = (n \div 256) * 256 + (n % 256) /\ n % 256 \in Nat /\ n \div 256 \in Nat
  OBVIOUS
<1> QED BY <1>1, <1>2, <1>3

-----------------------------------------------------------------------------
(* The keys of names                                                       *)

\* The bit of a key that bit b of byte i becomes.
Place(i, b) == b + (KeyBytes - i) * ByteBits

KeyWord(name) == UNION {{Place(i, b) : b \in Bits(name[i])} : i \in 1 .. KeyBytes}

\* The bytes of a key fill its bits.
LEMMA KeySizes ==
  /\ KeyBytes \in Nat /\ KeyBytes >= 2 /\ ByteBits \in 1 .. 31
  /\ KeyBits = KeyBytes * ByteBits /\ KeyBits \in Nat /\ ByteBits < KeyBits
<1>1. /\ KeyBytes \in Nat /\ ByteBits \in Nat /\ KeyBytes >= 2 /\ ByteBits >= 1
      /\ KeyBits = KeyBytes * ByteBits /\ ByteBits <= 31
  BY KeyIndexAssumption DEF KeyBits
<1>2. PICK k \in Nat : k = KeyBytes - 2
  BY <1>1
<1>3. PICK b \in Nat : b = ByteBits
  BY <1>1
<1>4. KeyBits = k * b + 2 * b /\ k * b \in Nat
  <2>1. (k + 2) * b = k * b + 2 * b
    OBVIOUS
  <2>2. k + 2 = KeyBytes
    BY <1>1, <1>2
  <2> QED BY <1>1, <1>3, <2>1, <2>2
<1> QED BY <1>1, <1>3, <1>4

\* An earlier byte of a name goes to higher bits of its key.
LEMMA PlacesInOrder ==
  ASSUME NEW i \in 1 .. KeyBytes, NEW j \in 1 .. KeyBytes,
         NEW b \in 0 .. ByteBits - 1, NEW c \in 0 .. ByteBits - 1
  PROVE  /\ Place(i, b) \in 0 .. KeyBits - 1
         /\ i < j => Place(j, c) < Place(i, b)
         /\ Place(i, b) <= Place(i, c) <=> b <= c
<1>1. PICK B \in Nat, x \in Nat, y \in Nat :
        B = ByteBits /\ x = KeyBytes - i /\ y = KeyBytes - j
  BY KeySizes
<1>2. x * B \in Nat /\ y * B \in Nat
  OBVIOUS
<1>3. Place(i, b) = b + x * B /\ Place(j, c) = c + y * B /\ Place(i, c) = c + x * B
  BY <1>1 DEF Place
<1>4. ASSUME NEW u \in Nat, NEW v \in Nat, u < v PROVE u * B + B <= v * B
  <2>1. PICK d \in Nat : v = u + 1 + d
    <3>1. v - u - 1 \in Nat /\ v = u + 1 + (v - u - 1)
      BY <1>4
    <3> QED BY <3>1
  <2>2. (u + 1 + d) * B = u * B + B + d * B /\ d * B \in Nat /\ u * B \in Nat
    OBVIOUS
  <2> QED BY <2>1, <2>2
<1>5. x * B + B <= KeyBits
  <2>1. KeyBytes \in Nat /\ x < KeyBytes /\ KeyBits = KeyBytes * B
    BY <1>1, KeySizes
  <2> QED BY <1>4, <2>1
<1>6. i < j => y * B + B <= x * B
  <2>1. i < j => y < x
    BY <1>1, KeySizes
  <2> QED BY <1>4, <2>1
<1>7. KeyBits \in Int /\ b \in Int /\ c \in Int /\ 0 <= b /\ 0 <= c /\ b < B /\ c < B
  BY <1>1, KeySizes
<1> QED BY <1>2, <1>3, <1>5, <1>6, <1>7

\* A byte of a name.
LEMMA ByteOf ==
  ASSUME NEW name \in Names, NEW i \in 1 .. KeyBytes
  PROVE  /\ name[i] \in Nat /\ name[i] < TwoTo(ByteBits - 1)
         /\ SignExtended(name[i]) = Bits(name[i])
         /\ Bits(name[i]) \in SUBSET (0 .. ByteBits - 2)
         /\ Bits(name[i]) \in SUBSET (0 .. ByteBits - 1)
         /\ Bits(name[i]) \in SUBSET Digits
         /\ Number(Bits(name[i])) = name[i]
<1>1. ByteBits - 1 \in 0 .. 31 /\ TwoTo(ByteBits - 1) \in Nat
  BY KeySizes, TwoToGrows
<1>2. name[i] \in 0 .. TwoTo(ByteBits - 1) - 1
  <2>1. Names \subseteq [1 .. KeyBytes -> 0 .. TwoTo(ByteBits - 1) - 1]
    BY KeyIndexAssumption DEF TwoTo
  <2> QED BY <2>1
<1>3. name[i] \in Nat /\ name[i] < TwoTo(ByteBits - 1) /\ ~ (name[i] >= TwoTo(ByteBits - 1))
  BY <1>1, <1>2
<1>4. SignExtended(name[i]) = Bits(name[i])
  <2>1. SignExtended(name[i]) = Bits(name[i]) \cup
          (IF name[i] >= TwoTo(ByteBits - 1) THEN ByteBits .. KeyBits - 1 ELSE {})
    BY DEF SignExtended, TwoTo
  <2> QED BY <1>3, <2>1
<1>5. Bits(name[i]) \in SUBSET (0 .. (ByteBits - 1) - 1) /\ Number(Bits(name[i])) = name[i]
  BY <1>1, <1>3, NumberOfBits
<1>6. \A b \in 0 .. (ByteBits - 1) - 1 : b \in 0 .. ByteBits - 2 /\ b \in 0 .. ByteBits - 1
  BY KeySizes
<1> QED BY <1>3, <1>4, <1>5, <1>6, BitsAre

\* The key of a name is the number of its bytes' bits, each in its place.
LEMMA KeyOf ==
  ASSUME NEW name \in Names
  PROVE  /\ KeyWord(name) \in SUBSET (0 .. KeyBits - 1) /\ KeyWord(name) \in SUBSET Digits
         /\ get_key(name) = Number(KeyWord(name)) /\ get_key(name) \in Nat
<1>1. \A i \in 1 .. KeyBytes : \A b \in Bits(name[i]) : Place(i, b) \in 0 .. KeyBits - 1
  BY ByteOf, PlacesInOrder
<1>2. KeyWord(name) \in SUBSET (0 .. KeyBits - 1)
  BY <1>1 DEF KeyWord
<1>3. KeyWord(name) \in SUBSET Digits
  BY <1>2, TopIs DEF Digits
<1>4. get_key(name) = Number(KeyWord(name))
  <2>1. \A i \in 1 .. KeyBytes : SignExtended(name[i]) = Bits(name[i])
    BY ByteOf
  <2> DEFINE U == UNION {Shifted(name, i) : i \in 1 .. KeyBytes}
  <2>2. U = KeyWord(name)
    BY <2>1 DEF KeyWord, Shifted, Place
  <2>3. get_key(name) = Number(U \cap (0 .. KeyBits - 1))
    BY DEF get_key
  <2>4. U \cap (0 .. KeyBits - 1) = KeyWord(name)
    BY <1>2, <2>2
  <2> QED BY <2>3, <2>4
<1> QED BY <1>2, <1>3, <1>4, NumberOf

\* The order of names is that of their first different bytes.
Before(m, n) == \E i \in DOMAIN m : m[i] < n[i] /\ \A j \in 1 .. i - 1 : m[j] = n[j]

\* The name that is before another has the smaller key.
LEMMA KeysInOrder ==
  ASSUME NEW m \in Names, NEW n \in Names, Before(m, n)
  PROVE  get_key(m) < get_key(n)
<1>1. PICK i \in 1 .. KeyBytes : m[i] < n[i] /\ \A j \in 1 .. i - 1 : m[j] = n[j]
  <2>1. DOMAIN m = 1 .. KeyBytes
    BY KeyIndexAssumption
  <2> QED BY <2>1 DEF Before
<1> DEFINE s == Bits(m[i])
           t == Bits(n[i])
<1>2. /\ s \in SUBSET Digits /\ t \in SUBSET Digits /\ Number(s) = m[i] /\ Number(t) = n[i]
      /\ s \in SUBSET (0 .. ByteBits - 1) /\ t \in SUBSET (0 .. ByteBits - 1)
      /\ m[i] \in Nat /\ n[i] \in Nat
  BY ByteOf
<1>3. PICK k \in (s \cup t) \ (s \cap t) : \A b \in Digits : b > k => (b \in s <=> b \in t)
  <2>1. s # t
    BY <1>1, <1>2
  <2> QED BY <1>2, <2>1, HighestDifference
<1>4. k \in t /\ k \notin s
  <2>1. SUFFICES ASSUME k \in s, k \notin t PROVE FALSE
    BY <1>3
  <2>2. k \in Digits /\ \A b \in Digits : b > k => (b \in t <=> b \in s)
    BY <1>2, <1>3
  <2>3. Number(t) < Number(s)
    BY <1>2, <2>1, <2>2, HigherNumber
  <2> QED BY <1>1, <1>2, <2>3
<1> DEFINE p == Place(i, k)
<1>5. \A a \in Names : \A q \in KeyWord(a) :
        \E j \in 1 .. KeyBytes : \E b \in Bits(a[j]) : q = Place(j, b)
  BY DEF KeyWord
<1>6. \A a \in Names : \A j \in 1 .. KeyBytes : \A b \in Bits(a[j]) : Place(j, b) \in KeyWord(a)
  BY DEF KeyWord
<1>7. \A a \in Names : \A j \in 1 .. KeyBytes : \A b \in Bits(a[j]) : b \in 0 .. ByteBits - 1
  BY ByteOf
<1>8. k \in 0 .. ByteBits - 1 /\ p \in KeyWord(n)
  BY <1>2, <1>4, <1>6
<1>9. ASSUME NEW a \in Names, NEW j \in 1 .. KeyBytes, NEW b \in Bits(a[j]), Place(j, b) >= p
      PROVE  j <= i /\ (j = i => b >= k) /\ (Place(j, b) > p /\ j = i => b > k)
  <2>1. b \in 0 .. ByteBits - 1 /\ Place(j, b) \in Int /\ p \in Int
    BY <1>7, <1>8, PlacesInOrder, KeySizes
  <2>2. i < j => Place(j, b) < p
    BY <1>8, <2>1, PlacesInOrder
  <2>3. /\ i = j => (p <= Place(j, b) <=> k <= b)
        /\ i = j => (Place(j, b) <= p <=> b <= k)
    BY <1>8, <2>1, PlacesInOrder
  <2> HIDE DEF p
  <2> QED BY <1>8, <1>9, <2>1, <2>2, <2>3
<1>10. p \notin KeyWord(m)
  <2>1. SUFFICES ASSUME p \in KeyWord(m) PROVE FALSE
    OBVIOUS
  <2>2. PICK j \in 1 .. KeyBytes : \E c \in Bits(m[j]) : p = Place(j, c)
    BY <1>5, <2>1
  <2> PICK b \in Bits(m[j]) : p = Place(j, b)
    BY <2>2
  <2>3. b \in 0 .. ByteBits - 1 /\ p \in Int
    BY <1>7, <1>8, PlacesInOrder, KeySizes
  <2>4. j <= i
    BY <1>9, <2>2, <2>3
  <2>5. ~ (j < i)
    <3>1. j < i => p < Place(j, b)
      BY <1>8, <2>3, PlacesInOrder
    <3> QED BY <2>2, <2>3, <3>1
  <2>6. j = i /\ k <= b /\ b <= k
    <3>1. j = i
      BY <2>4, <2>5
    <3>2. (p <= Place(i, b) <=> k <= b) /\ (Place(i, b) <= p <=> b <= k)
      BY <1>8, <2>3, PlacesInOrder
    <3>3. Place(i, b) = p
      BY <2>2, <3>1
    <3>4. p <= p /\ p <= Place(i, b) /\ Place(i, b) <= p
      BY <2>3, <3>3
    <3> QED BY <3>1, <3>2, <3>4
  <2>7. b = k
    BY <1>8, <2>3, <2>6
  <2> QED BY <1>4, <2>2, <2>6, <2>7
<1>11. \A q \in Digits : q > p => (q \in KeyWord(m) <=> q \in KeyWord(n))
  <2>1. ASSUME NEW a \in {m, n}, NEW o \in {m, n}, NEW q \in KeyWord(a), q > p
        PROVE  q \in KeyWord(o)
    <3>0. PICK j \in 1 .. KeyBytes : \E c \in Bits(a[j]) : q = Place(j, c)
      BY <1>5, <2>1
    <3>1. PICK b \in Bits(a[j]) : q = Place(j, b)
      BY <3>0
    <3>2. b \in 0 .. ByteBits - 1 /\ p \in Int /\ q \in Int
      BY <1>7, <1>8, <3>1, PlacesInOrder, KeySizes
    <3>3. j <= i /\ (j = i => b > k)
      BY <1>9, <2>1, <3>1, <3>2
    <3>4. CASE j = i
      <4>1. b \in Digits
        BY <3>2, KeySizes, TopIs
      <4>2. b \in s <=> b \in t
        BY <1>3, <3>3, <3>4, <4>1
      <4> QED BY <1>6, <2>1, <3>1, <3>4, <4>2
    <3>5. CASE j # i
      <4>1. j \in 1 .. i - 1
        BY <3>3, <3>5
      <4> QED BY <1>1, <1>6, <2>1, <3>1, <4>1
    <3> QED BY <3>4, <3>5
  <2> QED BY <2>1
<1>12. p \in Digits
  BY <1>8, KeyOf
<1> HIDE DEF p
<1> QED BY <1>8, <1>10, <1>11, <1>12, KeyOf, HigherNumber

\* Of two names one is before the other.
LEMMA NamesAreOrdered ==
  ASSUME NEW m \in Names, NEW n \in Names, m # n
  PROVE  Before(m, n) \/ Before(n, m)
<1>1. /\ m \in [1 .. KeyBytes -> Nat] /\ n \in [1 .. KeyBytes -> Nat]
  <2>1. /\ DOMAIN m = 1 .. KeyBytes /\ DOMAIN n = 1 .. KeyBytes
        /\ m = [i \in DOMAIN m |-> m[i]] /\ n = [i \in DOMAIN n |-> n[i]]
    BY KeyIndexAssumption
  <2> QED BY <2>1, ByteOf
<1> DEFINE T == {i \in 1 .. KeyBytes : m[i] # n[i]}
<1>2. T \subseteq Nat /\ T # {}
  <2>1. (\A i \in 1 .. KeyBytes : m[i] = n[i]) => m = n
    <3>1. m = [i \in 1 .. KeyBytes |-> m[i]] /\ n = [i \in 1 .. KeyBytes |-> n[i]]
      BY <1>1
    <3> QED BY <3>1, Zenon
  <2>2. 1 .. KeyBytes \subseteq Nat
    BY KeySizes
  <2> QED BY <2>1, <2>2
<1>3. PICK i \in T : \A j \in T : i <= j
  <2> HIDE DEF T
  <2> QED BY <1>2, LeastNumber
<1>4. \A j \in 1 .. i - 1 : m[j] = n[j]
  BY <1>3, KeySizes
<1>5. m[i] < n[i] \/ n[i] < m[i]
  BY <1>1, <1>3
<1> QED BY <1>1, <1>3, <1>4, <1>5 DEF Before

\* get_key gives two names two keys, and the keys are in the order of the names:
\* no two names share an entry of the table or a node of a list, and the files,
\* sorted by key, are sorted by name.
THEOREM KeysDiffer ==
  ASSUME NEW m \in Names, NEW n \in Names
  PROVE  /\ get_key(m) = get_key(n) <=> m = n
         /\ get_key(m) < get_key(n) <=> Before(m, n)
<1>1. get_key(m) \in Nat /\ get_key(n) \in Nat
  BY KeyOf
<1> QED BY <1>1, KeysInOrder, NamesAreOrdered

\* No key is as large as the value that the merge starts from.
LEMMA KeysAreBelow ==
  ASSUME NEW name \in Names
  PROVE  get_key(name) < INT64_MAX /\ INT64_MAX \in Nat
<1> DEFINE s == KeyWord(name)
           b == ByteBits - 1
<1>1. \A p \in s : p < KeyBits - 1 /\ p # b
  <2>1. SUFFICES ASSUME NEW i \in 1 .. KeyBytes, NEW c \in Bits(name[i])
                 PROVE  Place(i, c) < KeyBits - 1 /\ Place(i, c) # b
    BY DEF KeyWord
  <2>2. c \in 0 .. ByteBits - 2 /\ c \in 0 .. ByteBits - 1 /\ b \in 0 .. ByteBits - 1 /\ ~ (b <= c)
    BY ByteOf, KeySizes
  <2>3. Place(i, c) \in Int /\ Place(i, b) \in 0 .. KeyBits - 1 /\ Place(i, c) < Place(i, b)
    BY <2>2, PlacesInOrder, KeySizes
  <2>4. Place(KeyBytes, b) = b
    <3>1. (KeyBytes - KeyBytes) * ByteBits = 0
      BY KeySizes
    <3> QED BY <3>1, KeySizes DEF Place
  <2>5. Place(i, c) # b
    <3>1. CASE i = KeyBytes
      BY <2>3, <2>4, <3>1
    <3>2. CASE i # KeyBytes
      <4>1. KeyBytes \in 1 .. KeyBytes /\ i < KeyBytes
        BY <3>2, KeySizes
      <4>2. Place(KeyBytes, b) < Place(i, c)
        BY <2>2, <4>1, PlacesInOrder
      <4> QED BY <2>3, <2>4, <4>2, KeySizes
    <3> QED BY <3>1, <3>2
  <2> QED BY <2>3, <2>5, KeySizes
<1> DEFINE t == s \cup {b}
<1>2. b \in Nat /\ b < KeyBits - 1 /\ KeyBits - 1 \in 0 .. TopBit
  BY KeySizes, TopIs
<1>3. t \in SUBSET (0 .. (KeyBits - 1) - 1) /\ t \in SUBSET Digits /\ t \ {b} = s /\ b \in t
  <2>1. s \in SUBSET (0 .. KeyBits - 1)
    BY KeyOf
  <2>2. \A p \in t : p \in Nat /\ p < KeyBits - 1
    BY <1>1, <1>2, <2>1
  <2>3. \A p \in t : p \in 0 .. (KeyBits - 1) - 1 /\ p \in 0 .. TopBit
    <3> HIDE DEF t
    <3> QED BY TopIs, <1>2, <2>2
  <2> QED BY <1>1, <2>3 DEF Digits
<1>4. Number(t) < TwoTo(KeyBits - 1)
  <2> HIDE DEF t
  <2> QED BY <1>2, <1>3, NumberIsBelow
<1>5. Number(t) = TwoTo(b) + Number(s)
  <2> HIDE DEF t, s
  <2> QED BY <1>3, NumberWith
<1>6. /\ get_key(name) = Number(s) /\ Number(s) \in Nat /\ TwoTo(b) \in Nat \ {0}
      /\ TwoTo(KeyBits - 1) \in Nat \ {0}
  <2>1. b \in 0 .. 31
    BY KeySizes
  <2> QED BY <1>2, <2>1, KeyOf, TwoToGrows
<1>7. INT64_MAX = TwoTo(KeyBits - 1) - 1
  BY DEF INT64_MAX, TwoTo
<1> HIDE DEF s, t, b
<1> QED BY <1>4, <1>5, <1>6, <1>7

-----------------------------------------------------------------------------
(* The chains of a level                                                   *)

\* Max of a set of numbers is its greatest.
LEMMA MaxIsGreatest ==
  ASSUME NEW N \in Nat, NEW S \in SUBSET (0 .. N), S # {}
  PROVE  Max(S) \in S /\ \A x \in S : x <= Max(S)
<1> DEFINE T == {N - x : x \in S}
<1>0. \A x \in S : x \in 0 .. N /\ N - x \in Nat
  OBVIOUS
<1>1. T \subseteq Nat /\ T # {}
  BY <1>0
<1>2. PICK n \in T : \A m \in T : n <= m
  <2> HIDE DEF T
  <2> QED BY <1>1, LeastNumber
<1>3. PICK x \in S : n = N - x
  BY <1>2
<1>4. \A y \in S : x >= y
  BY <1>2, <1>3
<1>5. \E z \in S : \A y \in S : z >= y
  BY <1>4
<1>6. Max(S) \in S /\ \A y \in S : Max(S) >= y
  BY <1>5 DEF Max
<1> QED BY <1>6

\* Nodes that are linked by next in the order of a number each has, from head on.
Linked(level, head, nodes, ord) ==
  /\ ord \in [nodes -> Int] /\ \A m, n \in nodes : ord[m] = ord[n] => m = n
  /\ IF head = 0 THEN nodes = {} ELSE head \in nodes /\ \A m \in nodes : ord[head] <= ord[m]
  /\ \A n \in nodes : LET next == level[n].next IN
       IF next = 0 THEN \A m \in nodes : ord[m] <= ord[n]
       ELSE /\ next \in nodes /\ ord[n] < ord[next]
            /\ \A m \in nodes : ord[m] <= ord[n] \/ ord[next] <= ord[m]

KeyOrder(level, recs) == [n \in recs |-> level[n].key]

\* A level with nodes up to last: records in the order of their keys, and free
\* nodes in some order.
LevelType(level, last) ==
  /\ last \in Nat
  /\ level \in [0 .. last -> [key : Nat, idx : SUBSET (0 .. 31), next : 0 .. last, bottom : Nat]]

Shape(level, last, recs, free, ord) ==
  /\ LevelType(level, last) /\ level[0].key = 0
  /\ recs \cap free = {} /\ recs \cup free = (0 .. last) \ {0}
  /\ Linked(level, level[0].next, recs, KeyOrder(level, recs))
  /\ Linked(level, level[0].bottom, free, ord)

\* The two chains of a level share its nodes out.
LEMMA ShapeSets ==
  ASSUME NEW level, NEW last, NEW recs, NEW free, NEW ord, Shape(level, last, recs, free, ord)
  PROVE  /\ last \in Nat /\ DOMAIN level = 0 .. last /\ 0 \in DOMAIN level
         /\ recs \subseteq 1 .. last /\ free \subseteq 1 .. last
         /\ \A n \in 1 .. last : n \in recs \/ n \in free
         /\ IsFiniteSet(recs) /\ IsFiniteSet(free)
         /\ Cardinality(recs) \in Nat /\ Cardinality(free) \in Nat
         /\ Cardinality(recs) + Cardinality(free) = last
<1>1. last \in Nat /\ DOMAIN level = 0 .. last /\ 0 \in DOMAIN level
  BY DEF Shape, LevelType
<1>2. (0 .. last) \ {0} = 1 .. last
  BY <1>1
<1>3. recs \cup free = 1 .. last /\ recs \cap free = {}
  BY <1>2 DEF Shape
<1>4. recs \in SUBSET (1 .. last) /\ free \in SUBSET (1 .. last)
  BY <1>3
<1>5. IsFiniteSet(1 .. last) /\ Cardinality(1 .. last) = last
  BY <1>1, FS_Interval
<1>6. IsFiniteSet(recs) /\ IsFiniteSet(free)
  BY <1>4, <1>5, FS_Subset
<1>7. Cardinality(recs) \in Nat /\ Cardinality(free) \in Nat
  BY <1>6, FS_CardinalityType
<1>8. Cardinality(recs \cup free) = Cardinality(recs) + Cardinality(free) - Cardinality(recs \cap free)
  BY <1>6, FS_Union
<1>9. Cardinality(recs) + Cardinality(free) = last
  <2>1. Cardinality(recs \cap free) = 0
    BY <1>3, FS_EmptySet
  <2>2. Cardinality(recs \cup free) = last
    BY <1>3, <1>5
  <2> QED BY <1>7, <1>8, <2>1, <2>2
<1> QED BY <1>1, <1>3, <1>6, <1>7, <1>9

\* Each link of a chain leads to a node with fewer after it.
LEMMA LinkedRank ==
  ASSUME NEW level, NEW head, NEW nodes, NEW ord, Linked(level, head, nodes, ord),
         IsFiniteSet(nodes)
  PROVE  \E rank \in [nodes -> 0 .. Cardinality(nodes)] :
           \A n \in nodes : level[n].next # 0 => rank[level[n].next] < rank[n]
<1> DEFINE after(n) == {m \in nodes : ord[n] < ord[m]}
           rank == [n \in nodes |-> Cardinality(after(n))]
<1>1. \A n \in nodes : /\ IsFiniteSet(after(n)) /\ Cardinality(after(n)) \in Nat
                       /\ Cardinality(after(n)) <= Cardinality(nodes)
  <2>1. \A n \in nodes : after(n) \in SUBSET nodes
    OBVIOUS
  <2> HIDE DEF after
  <2> QED BY <2>1, FS_Subset, FS_CardinalityType
<1>2. Cardinality(nodes) \in Nat
  BY FS_CardinalityType
<1>3. rank \in [nodes -> 0 .. Cardinality(nodes)]
  <2> HIDE DEF after
  <2> QED BY <1>1, <1>2
<1>4. ASSUME NEW n \in nodes, level[n].next # 0
      PROVE  Cardinality(after(level[n].next)) < Cardinality(after(n))
  <2>1. PICK x \in nodes : x = level[n].next /\ ord[n] < ord[x]
    BY <1>4 DEF Linked
  <2>2. \A m \in nodes : ord[m] \in Int
    BY DEF Linked
  <2>3. after(x) \in SUBSET after(n) /\ x \in after(n) /\ x \notin after(x)
    BY <2>1, <2>2
  <2>4. after(x) # after(n)
    BY <2>3
  <2> HIDE DEF after
  <2>5. Cardinality(after(x)) <= Cardinality(after(n)) /\ Cardinality(after(x)) # Cardinality(after(n))
    BY <1>1, <2>3, <2>4, FS_Subset
  <2> QED BY <1>1, <2>1, <2>5
<1>5. \A n \in nodes : level[n].next # 0 => level[n].next \in nodes
  BY DEF Linked
<1>6. \A n \in nodes : level[n].next # 0 => rank[level[n].next] < rank[n]
  <2> HIDE DEF after
  <2> QED BY <1>4, <1>5
<1> HIDE DEF rank
<1> QED BY <1>3, <1>6

\* Whatever chain a node is in, its next has a lower rank.
LEMMA LevelRank ==
  ASSUME NEW level, NEW last, NEW recs, NEW free, NEW ord, Shape(level, last, recs, free, ord)
  PROVE  \E N \in Nat : \E rank \in [0 .. last -> 0 .. N] :
           /\ \A n \in 1 .. last : rank[level[n].next] < rank[n]
           /\ rank[0] = 0
<1>0. /\ IsFiniteSet(recs) /\ IsFiniteSet(free)
      /\ Linked(level, level[0].next, recs, KeyOrder(level, recs))
      /\ Linked(level, level[0].bottom, free, ord)
  BY ShapeSets DEF Shape
<1>1. PICK r \in [recs -> 0 .. Cardinality(recs)] :
        \A n \in recs : level[n].next # 0 => r[level[n].next] < r[n]
  BY <1>0, LinkedRank
<1>2. PICK f \in [free -> 0 .. Cardinality(free)] :
        \A n \in free : level[n].next # 0 => f[level[n].next] < f[n]
  BY <1>0, LinkedRank
<1>3. PICK c \in Nat, d \in Nat : c = Cardinality(recs) /\ d = Cardinality(free)
  BY ShapeSets
<1> DEFINE rank == [n \in 0 .. last |-> IF n = 0 THEN 0
                                        ELSE IF n \in recs THEN r[n] + 1 ELSE f[n] + 1]
<1>4. \A n \in 1 .. last : n \in recs \/ n \in free
  BY ShapeSets
<1>5. /\ \A n \in recs : r[n] \in 0 .. c
      /\ \A n \in free : f[n] \in 0 .. d
  BY <1>1, <1>2, <1>3
<1>6. rank \in [0 .. last -> 0 .. c + d + 1] /\ rank[0] = 0
  <2>1. \A n \in 0 .. last : n # 0 => n \in 1 .. last
    BY ShapeSets
  <2>2. 0 \in 0 .. last
    BY ShapeSets
  <2> QED BY <1>4, <1>5, <2>1, <2>2
<1>7. ASSUME NEW n \in 1 .. last
      PROVE  rank[level[n].next] < rank[n]
  <2>1. n \in 0 .. last /\ n # 0 /\ level[n].next \in 0 .. last
    BY ShapeSets DEF Shape, LevelType
  <2>2. CASE n \in recs
    <3>1. level[n].next # 0 => level[n].next \in recs
      BY <2>2 DEF Shape, Linked
    <3>2. rank[n] = r[n] + 1 /\ rank[level[n].next] = IF level[n].next = 0 THEN 0 ELSE r[level[n].next] + 1
      BY <2>1, <2>2, <3>1
    <3>3. r[n] \in Nat /\ (level[n].next # 0 => r[level[n].next] \in Nat /\ r[level[n].next] < r[n])
      <4>1. r[n] \in 0 .. c
        BY <1>5, <2>2
      <4>2. level[n].next # 0 => r[level[n].next] \in 0 .. c /\ r[level[n].next] < r[n]
        BY <1>1, <1>5, <2>2, <3>1
      <4> QED BY <4>1, <4>2
    <3> HIDE DEF rank
    <3> QED BY <3>2, <3>3
  <2>3. CASE n \notin recs
    <3>0. n \in free
      BY <1>4, <2>3
    <3>1. level[n].next # 0 => level[n].next \in free /\ level[n].next \notin recs
      BY <3>0 DEF Shape, Linked
    <3>2. rank[n] = f[n] + 1 /\ rank[level[n].next] = IF level[n].next = 0 THEN 0 ELSE f[level[n].next] + 1
      BY <2>1, <2>3, <3>1
    <3>3. f[n] \in Nat /\ (level[n].next # 0 => f[level[n].next] \in Nat /\ f[level[n].next] < f[n])
      <4>1. f[n] \in 0 .. d
        BY <1>5, <3>0
      <4>2. level[n].next # 0 => f[level[n].next] \in 0 .. d /\ f[level[n].next] < f[n]
        BY <1>2, <1>5, <3>0, <3>1
      <4> QED BY <4>1, <4>2
    <3> HIDE DEF rank
    <3> QED BY <3>2, <3>3
  <2> QED BY <2>2, <2>3
<1>8. c + d + 1 \in Nat
  OBVIOUS
<1> HIDE DEF rank
<1> QED BY <1>6, <1>7, <1>8

-----------------------------------------------------------------------------
(* What Records and Free are                                               *)

IsFrom(f, level) ==
  f = [m \in DOMAIN level |-> IF m = 0 THEN {} ELSE {m} \cup f[level[m].next]]

\* The function that Chain recurs by exists.
LEMMA FromExists ==
  ASSUME NEW level, NEW last, NEW recs, NEW free, NEW ord, Shape(level, last, recs, free, ord)
  PROVE  \E f : IsFrom(f, level)
<1>1. PICK N \in Nat : \E rank \in [0 .. last -> 0 .. N] :
        (\A n \in 1 .. last : rank[level[n].next] < rank[n]) /\ rank[0] = 0
  BY LevelRank
<1>2. PICK rank \in [0 .. last -> 0 .. N] :
        (\A n \in 1 .. last : rank[level[n].next] < rank[n]) /\ rank[0] = 0
  BY <1>1
<1> DEFINE D == 0 .. last
           V == SUBSET D
           step == [x \in D \X V |-> {x[1]} \cup x[2]]
           next == [n \in D \ {0} |-> level[n].next]
           Stop == {0}
           base == [n \in {0} |-> {}]
<1>3. last \in Nat /\ DOMAIN level = D /\ 0 \in D /\ D \ {0} = 1 .. last
  BY ShapeSets
<1>4. \A n \in D \ {0} : level[n].next \in D
  BY DEF Shape, LevelType
<1>5. IsRecursion(D, V, Stop, base, next, step, N, rank)
  BY <1>2, <1>3, <1>4 DEF IsRecursion
<1> HIDE DEF D, Stop, V, step, next, base
<1>6. PICK f \in [D -> V] :
        \A x \in D : f[x] = IF x \in Stop THEN base[x] ELSE step[<<x, f[next[x]]>>]
  BY <1>5, Recursion
<1> USE DEF D, Stop, V, step, next, base
<1>7. \A x \in D : f[x] = IF x = 0 THEN {} ELSE {x} \cup f[level[x].next]
  <2>1. SUFFICES ASSUME NEW x \in D, x # 0 PROVE f[x] = {x} \cup f[level[x].next]
    BY <1>6
  <2>2. next[x] \in D /\ next[x] = level[x].next
    BY <1>4, <2>1
  <2>3. f[next[x]] \in V
    BY <2>2
  <2>4. step[<<x, f[next[x]]>>] = {x} \cup f[next[x]]
    <3>1. \A v \in V : step[<<x, v>>] = {x} \cup v
      <4> HIDE DEF D, V
      <4> QED OBVIOUS
    <3> HIDE DEF step, V, next
    <3> QED BY <2>3, <3>1
  <2>5. f[x] = step[<<x, f[next[x]]>>]
    BY <1>6, <2>1
  <2> HIDE DEF V, step, next, base
  <2> QED BY <2>2, <2>4, <2>5
<1>8. IsFrom(f, level)
  <2> HIDE DEF V, step, next, base
  <2> QED BY <1>3, <1>7 DEF IsFrom
<1> QED BY <1>8

\* Following a chain from its head gives its nodes.
LEMMA FromIs ==
  ASSUME NEW level, NEW head, NEW nodes, NEW ord, NEW f, IsFrom(f, level),
         Linked(level, head, nodes, ord), IsFiniteSet(nodes),
         0 \in DOMAIN level, nodes \subseteq DOMAIN level, 0 \notin nodes
  PROVE  f[head] = nodes
<1>1. PICK rank \in [nodes -> 0 .. Cardinality(nodes)] :
        \A n \in nodes : level[n].next # 0 => rank[level[n].next] < rank[n]
  BY LinkedRank
<1> DEFINE rest(n) == {m \in nodes : ord[n] <= ord[m]}
           T == {rank[n] : n \in {m \in nodes : f[m] # rest(m)}}
<1>2. \A n \in nodes : rank[n] \in Nat
  BY FS_CardinalityType
<1>3. f[0] = {} /\ \A n \in nodes : f[n] = {n} \cup f[level[n].next]
  BY DEF IsFrom
<1>4. T = {}
  <2>1. SUFFICES ASSUME T # {} PROVE FALSE
    OBVIOUS
  <2>2. T \subseteq Nat
    BY <1>2
  <2>3. PICK k \in T : \A j \in T : k <= j
    <3> HIDE DEF T
    <3> QED BY <2>1, <2>2, LeastNumber
  <2>4. PICK n \in nodes : f[n] # rest(n) /\ k = rank[n]
    BY <2>3
  <2>5. \A m \in nodes : rank[m] < rank[n] => f[m] = rest(m)
    <3>1. SUFFICES ASSUME NEW m \in nodes, rank[m] < rank[n], f[m] # rest(m) PROVE FALSE
      OBVIOUS
    <3>2. rank[m] \in T
      BY <3>1
    <3> HIDE DEF T, rest
    <3> QED BY <1>2, <2>3, <2>4, <3>1, <3>2
  <2>6. \A m \in nodes : ord[m] \in Int
    BY DEF Linked
  <2>7. \A m \in nodes : ord[m] = ord[n] => m = n
    BY DEF Linked
  <2>8. CASE level[n].next = 0
    <3>1. \A m \in nodes : ord[m] <= ord[n]
      BY <2>8 DEF Linked
    <3>2. rest(n) = {n}
      BY <2>6, <2>7, <3>1
    <3> HIDE DEF rest
    <3> QED BY <1>3, <2>4, <2>8, <3>2
  <2>9. CASE level[n].next # 0
    <3>1. PICK x \in nodes : /\ x = level[n].next /\ ord[n] < ord[x]
                             /\ \A m \in nodes : ord[m] <= ord[n] \/ ord[x] <= ord[m]
      BY <2>9 DEF Linked
    <3>2. rest(n) = {n} \cup rest(x)
      BY <2>6, <2>7, <3>1
    <3>3. f[x] = rest(x)
      BY <1>1, <2>5, <2>9, <3>1
    <3> HIDE DEF rest
    <3> QED BY <1>3, <2>4, <3>1, <3>2, <3>3
  <2> QED BY <2>8, <2>9
<1>5. \A n \in nodes : f[n] = rest(n)
  BY <1>4
<1>6. CASE head = 0
  BY <1>3, <1>6 DEF Linked
<1>7. CASE head # 0
  <2>1. head \in nodes /\ rest(head) = nodes
    BY <1>7 DEF Linked
  <2> QED BY <1>5, <2>1
<1> QED BY <1>6, <1>7

\* Chain, with the recursion made a choice.
LEMMA ChainIsFrom ==
  ASSUME NEW level, NEW n
  PROVE  Chain(level, n) = (CHOOSE f : IsFrom(f, level))[n]
BY DEF Chain, IsFrom

\* Records and Free are the two chains.
LEMMA ChainsAre ==
  ASSUME NEW level, NEW last, NEW recs, NEW free, NEW ord, Shape(level, last, recs, free, ord)
  PROVE  Records(level) = recs /\ Free(level) = free
<1> DEFINE f == CHOOSE g : IsFrom(g, level)
<1>1. IsFrom(f, level)
  BY FromExists
<1> HIDE DEF f
<1>2. /\ IsFiniteSet(recs) /\ IsFiniteSet(free) /\ 0 \in DOMAIN level
      /\ recs \subseteq DOMAIN level /\ free \subseteq DOMAIN level
      /\ 0 \notin recs /\ 0 \notin free
  BY ShapeSets
<1>3. /\ Linked(level, level[0].next, recs, KeyOrder(level, recs))
      /\ Linked(level, level[0].bottom, free, ord)
  BY DEF Shape
<1>4. f[level[0].next] = recs
  BY <1>1, <1>2, <1>3, FromIs
<1>5. f[level[0].bottom] = free
  BY <1>1, <1>2, <1>3, FromIs
<1> USE DEF f
<1> QED BY <1>4, <1>5, ChainIsFrom DEF Records, Free

-----------------------------------------------------------------------------
(* Where a walk ends                                                       *)

Advances(level, key, m) == level[m].next # 0 /\ level[level[m].next].key <= key

IsWalk(w, level, key) ==
  w = [m \in DOMAIN level |-> IF Advances(level, key, m) THEN w[level[m].next] ELSE m]

\* Node x is that of the last record whose key is not beyond key, or node 0.
LastUpTo(level, recs, key, x) ==
  /\ x \in recs \cup {0}
  /\ x # 0 => level[x].key <= key
  /\ \A m \in recs : level[m].key <= key => x # 0 /\ level[m].key <= level[x].key

\* A rank that falls along next and is greatest at node 0.
LEMMA WalkRank ==
  ASSUME NEW level, NEW last, NEW recs, NEW free, NEW ord, Shape(level, last, recs, free, ord)
  PROVE  \E N \in Nat : \E rank \in [0 .. last -> 0 .. N] :
           \A n \in 0 .. last : level[n].next # 0 => rank[level[n].next] < rank[n]
<1>1. PICK N \in Nat : \E rank \in [0 .. last -> 0 .. N] :
        (\A n \in 1 .. last : rank[level[n].next] < rank[n]) /\ rank[0] = 0
  BY LevelRank
<1>2. PICK r \in [0 .. last -> 0 .. N] : \A n \in 1 .. last : r[level[n].next] < r[n]
  BY <1>1
<1> DEFINE rank == [n \in 0 .. last |-> IF n = 0 THEN N + 1 ELSE r[n]]
<1>3. \A n \in 0 .. last : r[n] \in 0 .. N /\ level[n].next \in 0 .. last
  BY DEF Shape, LevelType
<1>4. rank \in [0 .. last -> 0 .. N + 1]
  BY <1>3
<1>5. ASSUME NEW n \in 0 .. last, level[n].next # 0
      PROVE  rank[level[n].next] < rank[n]
  <2>1. level[n].next \in 0 .. last /\ rank[level[n].next] = r[level[n].next]
    BY <1>3, <1>5
  <2>2. r[level[n].next] \in 0 .. N /\ r[n] \in 0 .. N
    BY <1>3, <2>1
  <2>3. CASE n = 0
    <3>1. rank[n] = N + 1
      BY <2>3
    <3> HIDE DEF rank
    <3> QED BY <2>1, <2>2, <3>1
  <2>4. CASE n # 0
    <3>1. rank[n] = r[n] /\ n \in 1 .. last
      BY <2>4, ShapeSets
    <3> HIDE DEF rank
    <3> QED BY <1>2, <2>1, <3>1
  <2> QED BY <2>3, <2>4
<1>6. N + 1 \in Nat
  OBVIOUS
<1> HIDE DEF rank
<1> QED BY <1>4, <1>5, <1>6

\* The function that WalkTo recurs by exists.
LEMMA WalkExists ==
  ASSUME NEW level, NEW last, NEW recs, NEW free, NEW ord, Shape(level, last, recs, free, ord),
         NEW key \in Nat
  PROVE  \E w : IsWalk(w, level, key)
<1>1. PICK N \in Nat : \E rank \in [0 .. last -> 0 .. N] :
        \A n \in 0 .. last : level[n].next # 0 => rank[level[n].next] < rank[n]
  BY WalkRank
<1>2. PICK rank \in [0 .. last -> 0 .. N] :
        \A n \in 0 .. last : level[n].next # 0 => rank[level[n].next] < rank[n]
  BY <1>1
<1> DEFINE D == 0 .. last
           Stop == {m \in D : ~ Advances(level, key, m)}
           step == [x \in D \X D |-> x[2]]
           next == [m \in D \ Stop |-> level[m].next]
           base == [m \in Stop |-> m]
<1>3. DOMAIN level = D /\ D # {}
  BY ShapeSets
<1>4. \A n \in D : level[n].next \in D
  BY DEF Shape, LevelType
<1>5. IsRecursion(D, D, Stop, base, next, step, N, rank)
  BY <1>2, <1>3, <1>4 DEF IsRecursion, Advances
<1> HIDE DEF D, Stop, step, next, base
<1>6. PICK w \in [D -> D] :
        \A x \in D : w[x] = IF x \in Stop THEN base[x] ELSE step[<<x, w[next[x]]>>]
  BY <1>5, Recursion
<1>7. \A x \in D : w[x] = IF Advances(level, key, x) THEN w[level[x].next] ELSE x
  <2>1. ASSUME NEW x \in D, Advances(level, key, x) PROVE w[x] = w[level[x].next]
    <3>1. x \notin Stop /\ next[x] = level[x].next
      BY <2>1 DEF Stop, next
    <3>2. level[x].next \in D /\ w[level[x].next] \in D
      BY <1>4
    <3>3. \A v \in D : step[<<x, v>>] = v
      BY DEF step
    <3> QED BY <1>6, <3>1, <3>2, <3>3
  <2>2. ASSUME NEW x \in D, ~ Advances(level, key, x) PROVE w[x] = x
    <3>1. x \in Stop /\ base[x] = x
      BY <2>2 DEF Stop, base
    <3> QED BY <1>6, <3>1
  <2> QED BY <2>1, <2>2
<1>8. IsWalk(w, level, key)
  BY <1>3, <1>7 DEF IsWalk
<1> QED BY <1>8

\* WalkTo, with the recursion made a choice.
LEMMA WalkToIs ==
  ASSUME NEW level, NEW n, NEW key
  PROVE  WalkTo(level, n, key) = (CHOOSE w : IsWalk(w, level, key))[n]
BY DEF WalkTo, IsWalk, Advances

\* A walk ends at the last record whose key is not beyond its own.
LEMMA WalkEnds ==
  ASSUME NEW level, NEW last, NEW recs, NEW free, NEW ord, Shape(level, last, recs, free, ord),
         NEW key \in Nat, NEW n \in recs \cup {0}, n # 0 => level[n].key <= key
  PROVE  LastUpTo(level, recs, key, WalkTo(level, n, key))
<1>1. PICK N \in Nat : \E rank \in [0 .. last -> 0 .. N] :
        \A m \in 0 .. last : level[m].next # 0 => rank[level[m].next] < rank[m]
  BY WalkRank
<1>2. PICK rank \in [0 .. last -> 0 .. N] :
        \A m \in 0 .. last : level[m].next # 0 => rank[level[m].next] < rank[m]
  BY <1>1
<1> DEFINE w == CHOOSE g : IsWalk(g, level, key)
<1>3. IsWalk(w, level, key)
  BY WalkExists
<1> HIDE DEF w
<1> DEFINE S == {m \in recs \cup {0} : m # 0 => level[m].key <= key}
           T == {rank[m] : m \in {x \in S : ~ LastUpTo(level, recs, key, w[x])}}
<1>4. /\ DOMAIN level = 0 .. last /\ recs \subseteq 1 .. last /\ 0 \in 0 .. last
      /\ S \subseteq 0 .. last /\ 0 \notin recs
  BY ShapeSets
<1>5. \A m \in 0 .. last : rank[m] \in Nat
  BY <1>2
<1>6. \A m \in recs : level[m].key \in Nat
  BY <1>4 DEF Shape, LevelType
<1>7. \A m \in 0 .. last : w[m] = IF Advances(level, key, m) THEN w[level[m].next] ELSE m
  BY <1>3, <1>4 DEF IsWalk
<1>8. /\ level[0].next = 0 => recs = {}
      /\ level[0].next # 0 => /\ level[0].next \in recs
                              /\ \A m \in recs : level[level[0].next].key <= level[m].key
  BY DEF Shape, Linked, KeyOrder
<1>9. \A x \in recs :
        /\ level[x].next = 0 => \A m \in recs : level[m].key <= level[x].key
        /\ level[x].next # 0 =>
             /\ level[x].next \in recs
             /\ \A m \in recs : level[m].key <= level[x].key \/ level[level[x].next].key <= level[m].key
  BY DEF Shape, Linked, KeyOrder
<1>10. T = {}
  <2>1. SUFFICES ASSUME T # {} PROVE FALSE
    OBVIOUS
  <2>2. T \subseteq Nat
    BY <1>4, <1>5
  <2>3. PICK k \in T : \A j \in T : k <= j
    <3> HIDE DEF T
    <3> QED BY <2>1, <2>2, LeastNumber
  <2>4. PICK x \in S : ~ LastUpTo(level, recs, key, w[x]) /\ k = rank[x]
    BY <2>3
  <2>5. \A m \in S : rank[m] < rank[x] => LastUpTo(level, recs, key, w[m])
    <3>1. SUFFICES ASSUME NEW m \in S, rank[m] < rank[x], ~ LastUpTo(level, recs, key, w[m])
                   PROVE  FALSE
      OBVIOUS
    <3>2. rank[m] \in T
      BY <3>1
    <3>3. rank[m] \in Nat /\ rank[x] \in Nat
      BY <1>4, <1>5
    <3> HIDE DEF T, S
    <3> QED BY <2>3, <2>4, <3>1, <3>2, <3>3
  <2>6. CASE Advances(level, key, x)
    <3>1. level[x].next # 0 /\ level[x].next \in S
      BY <1>8, <1>9, <2>6 DEF Advances
    <3>2. rank[level[x].next] < rank[x]
      BY <1>2, <1>4, <3>1
    <3>3. w[x] = w[level[x].next]
      BY <1>4, <1>7, <2>6
    <3> HIDE DEF S, T
    <3> QED BY <2>4, <2>5, <3>1, <3>2, <3>3
  <2>7. CASE ~ Advances(level, key, x)
    <3>1. w[x] = x
      BY <1>4, <1>7, <2>7
    <3>2. CASE level[x].next = 0
      <4>1. \A m \in recs : level[m].key <= key => x # 0 /\ level[m].key <= level[x].key
        BY <1>8, <1>9, <3>2
      <4> QED BY <2>4, <3>1, <4>1 DEF LastUpTo
    <3>3. CASE level[x].next # 0
      <4>1. level[x].next \in recs /\ ~ (level[level[x].next].key <= key)
        BY <1>8, <1>9, <2>7, <3>3 DEF Advances
      <4>2. \A m \in recs : level[m].key <= key => x # 0 /\ level[m].key <= level[x].key
        BY <1>6, <1>8, <1>9, <3>3, <4>1
      <4> QED BY <2>4, <3>1, <4>2 DEF LastUpTo
    <3> QED BY <3>2, <3>3
  <2> QED BY <2>6, <2>7
<1>11. n \in S /\ \A m \in S : LastUpTo(level, recs, key, w[m])
  BY <1>10
<1> USE DEF w
<1> HIDE DEF S
<1> QED BY <1>11, WalkToIs

\* There is one such node.
LEMMA LastIsOne ==
  ASSUME NEW level, NEW last, NEW recs, NEW free, NEW ord, Shape(level, last, recs, free, ord),
         NEW key \in Nat, NEW x, NEW y,
         LastUpTo(level, recs, key, x), LastUpTo(level, recs, key, y)
  PROVE  x = y
<1>1. \A m \in recs : level[m].key \in Nat
  BY ShapeSets DEF Shape, LevelType
<1>2. \A m, n \in recs : level[m].key = level[n].key => m = n
  BY DEF Shape, Linked, KeyOrder
<1> QED BY <1>1, <1>2 DEF LastUpTo

-----------------------------------------------------------------------------
(* Lists and searches                                                      *)

GoodLevel(level) == \E last, recs, free, ord : Shape(level, last, recs, free, ord)

\* A level is well formed with its own Records and Free.
LEMMA GoodLevelIs ==
  ASSUME NEW level, GoodLevel(level)
  PROVE  \E last, ord :
           /\ last \in Nat
           /\ Shape(level, last, Records(level), Free(level), ord)
           /\ last = Cardinality(DOMAIN level) - 1
<1>1. PICK last, recs, free, ord : Shape(level, last, recs, free, ord)
  BY DEF GoodLevel
<1>2. Records(level) = recs /\ Free(level) = free
  BY <1>1, ChainsAre
<1>3. last \in Nat /\ DOMAIN level = 0 .. last
  BY <1>1, ShapeSets
<1>4. Cardinality(0 .. last) = last + 1
  BY <1>3, FS_Interval
<1>5. last = Cardinality(DOMAIN level) - 1
  BY <1>3, <1>4
<1> QED BY <1>1, <1>2, <1>3, <1>5

\* A list whose levels nest.
Nested(l) ==
  \A i \in Levels \ {0} : \A n \in Records(l.sk_data[i]) :
    /\ l.sk_data[i][n].bottom \in Records(l.sk_data[i - 1])
    /\ l.sk_data[i - 1][l.sk_data[i][n].bottom].key = l.sk_data[i][n].key

HasLevels(l) ==
  /\ l = [sk_data |-> l.sk_data, sk_capacity |-> l.sk_capacity]
  /\ l.sk_data = [i \in Levels |-> l.sk_data[i]]
  /\ l.sk_capacity = [i \in Levels |-> l.sk_capacity[i]]
  /\ \A i \in Levels : GoodLevel(l.sk_data[i])

GoodList(l) == HasLevels(l) /\ Nested(l)

\* The levels are numbered from 0.
LEMMA LevelsAre == /\ 0 \in Levels /\ Levels \subseteq Nat
                   /\ \A i \in Levels : \A j \in 0 .. i : j \in Levels
                   /\ \A i \in Levels : i # 0 => i - 1 \in Levels
BY SkipListAssumption DEF Levels

\* What holds at i and from each number at the one below holds from 0 to i.
LEMMA Downward ==
  ASSUME NEW i \in Nat, NEW S, i \in S, \A j \in 0 .. i : j # i /\ j + 1 \in S => j \in S
  PROVE  \A j \in 0 .. i : j \in S
<1> DEFINE T == {i - j : j \in {k \in 0 .. i : k \notin S}}
<1>0. \A k \in 0 .. i : i - k \in Nat
  OBVIOUS
<1>1. T \subseteq Nat
  BY <1>0
<1>2. SUFFICES ASSUME T # {} PROVE FALSE
  OBVIOUS
<1>3. PICK m \in T : \A k \in T : m <= k
  <2> HIDE DEF T
  <2> QED BY <1>1, <1>2, LeastNumber
<1>4. PICK j \in 0 .. i : j \notin S /\ m = i - j
  BY <1>3
<1>5. j # i /\ j + 1 \in 0 .. i
  BY <1>4
<1>6. j + 1 \notin S
  BY <1>4, <1>5
<1>7. i - (j + 1) \in T
  BY <1>5, <1>6
<1>8. m <= i - (j + 1)
  <2> HIDE DEF T
  <2> QED BY <1>3, <1>7
<1> QED BY <1>4, <1>8

\* A key on one level is on all below.
LEMMA KeysNest ==
  ASSUME NEW l, GoodList(l), NEW i \in Levels, NEW n \in Records(l.sk_data[i]), NEW j \in 0 .. i
  PROVE  \E m \in Records(l.sk_data[j]) : l.sk_data[j][m].key = l.sk_data[i][n].key
<1> DEFINE S == {k \in 0 .. i : \E m \in Records(l.sk_data[k]) :
                                  l.sk_data[k][m].key = l.sk_data[i][n].key}
<1>1. i \in Nat /\ i \in S
  BY LevelsAre
<1>2. ASSUME NEW k \in 0 .. i, k # i, k + 1 \in S
      PROVE  k \in S
  <2>1. PICK m \in Records(l.sk_data[k + 1]) : l.sk_data[k + 1][m].key = l.sk_data[i][n].key
    BY <1>2
  <2>2. k + 1 \in Levels \ {0} /\ (k + 1) - 1 = k
    <3>1. k + 1 \in 0 .. i /\ k + 1 # 0 /\ (k + 1) - 1 = k
      BY <1>1, <1>2
    <3> QED BY <3>1, LevelsAre
  <2>3. /\ l.sk_data[k + 1][m].bottom \in Records(l.sk_data[k])
        /\ l.sk_data[k][l.sk_data[k + 1][m].bottom].key = l.sk_data[k + 1][m].key
    BY <2>1, <2>2 DEF GoodList, Nested
  <2> QED BY <2>1, <2>3
<1> HIDE DEF S
<1>3. j \in S
  BY <1>1, <1>2, Downward
<1> QED BY <1>3 DEF S

\* Facts of the records of a level.
LEMMA RecordsAre ==
  ASSUME NEW level, GoodLevel(level)
  PROVE  /\ level[0].key = 0 /\ 0 \notin Records(level) /\ Records(level) \subseteq DOMAIN level
         /\ Records(level) \subseteq Nat
         /\ \A m \in Records(level) : level[m].key \in Nat
         /\ \A m, n \in Records(level) : level[m].key = level[n].key => m = n
         /\ level[0].next = 0 <=> Records(level) = {}
         /\ level[0].next # 0 => level[0].next \in Records(level)
<1>1. PICK last, ord : last \in Nat /\ Shape(level, last, Records(level), Free(level), ord)
  BY GoodLevelIs
<1>2. Records(level) \subseteq 1 .. last /\ DOMAIN level = 0 .. last
  BY <1>1, ShapeSets
<1>3. level[0].key = 0 /\ 0 \notin Records(level) /\ Records(level) \subseteq DOMAIN level
  BY <1>1, <1>2 DEF Shape
<1>4. \A m \in Records(level) : level[m].key \in Nat
  BY <1>1, <1>3 DEF Shape, LevelType
<1>5. /\ \A m, n \in Records(level) : level[m].key = level[n].key => m = n
      /\ level[0].next = 0 => Records(level) = {}
      /\ level[0].next # 0 => level[0].next \in Records(level)
  BY <1>1 DEF Shape, Linked, KeyOrder
<1> QED BY <1>2, <1>3, <1>4, <1>5

\* WalkEnds, for a level that is well formed.
LEMMA WalkIs ==
  ASSUME NEW level, GoodLevel(level), NEW key \in Nat, NEW n \in Records(level) \cup {0},
         n # 0 => level[n].key <= key
  PROVE  LastUpTo(level, Records(level), key, WalkTo(level, n, key))
<1>1. PICK last, ord : last \in Nat /\ Shape(level, last, Records(level), Free(level), ord)
  BY GoodLevelIs
<1> QED BY <1>1, WalkEnds

\* A level has one record that is the last up to a key.
LEMMA LastIsUnique ==
  ASSUME NEW level, GoodLevel(level), NEW key \in Nat, NEW x, NEW y,
         LastUpTo(level, Records(level), key, x), LastUpTo(level, Records(level), key, y)
  PROVE  x = y
<1>1. PICK last, ord : last \in Nat /\ Shape(level, last, Records(level), Free(level), ord)
  BY GoodLevelIs
<1> QED BY <1>1, LastIsOne

\* No level above the highest has a record.
LEMMA HighestIs ==
  ASSUME NEW l, GoodList(l)
  PROVE  /\ HighestLevel(l) \in Levels /\ HighestLevel(l) \in Nat
         /\ \A i \in 0 .. HighestLevel(l) : i \in Levels
         /\ \A i \in Levels : i \notin 0 .. HighestLevel(l) => Records(l.sk_data[i]) = {}
<1> DEFINE S == {0} \cup {i \in Levels : l.sk_data[i][0].next # 0}
<1>1. S \in SUBSET (0 .. SKIP_LIST_MAX_HEIGHT) /\ S # {}
  BY SkipListAssumption DEF Levels
<1> HIDE DEF S
<1>2. Max(S) \in S /\ \A x \in S : x <= Max(S)
  BY <1>1, SkipListAssumption, MaxIsGreatest
<1> USE DEF S
<1>3. HighestLevel(l) = Max(S)
  BY DEF HighestLevel
<1>4. Max(S) \in Levels /\ Max(S) \in Nat
  BY <1>2, LevelsAre
<1>5. \A i \in 0 .. Max(S) : i \in Levels
  BY <1>4, LevelsAre
<1>6. ASSUME NEW i \in Levels, i \notin 0 .. Max(S)
      PROVE  Records(l.sk_data[i]) = {}
  <2>1. i \notin S
    <3>1. i \in Nat
      BY LevelsAre
    <3> QED BY <1>2, <1>4, <1>6, <3>1
  <2>2. l.sk_data[i][0].next = 0
    BY <2>1
  <2>3. GoodLevel(l.sk_data[i])
    BY DEF GoodList, HasLevels
  <2> QED BY <2>2, <2>3, RecordsAre
<1> HIDE DEF S
<1> QED BY <1>3, <1>4, <1>5, <1>6

IsTrace(t, l, key, h) ==
  t = [i \in 0 .. h |->
         WalkTo(l.sk_data[i], IF i = h THEN 0 ELSE Below(l, i + 1, t[i + 1]), key)]

\* Trace, with the recursion made a choice.
LEMMA TraceIsChosen ==
  ASSUME NEW l, NEW key
  PROVE  Trace(l, key) = CHOOSE t : IsTrace(t, l, key, HighestLevel(l))
BY DEF Trace, IsTrace

\* Where the walk on one level ends is where the walk below can begin.
LEMMA BelowIsStart ==
  ASSUME NEW l, GoodList(l), NEW key \in Nat, NEW i \in Levels, i + 1 \in Levels, NEW x,
         LastUpTo(l.sk_data[i + 1], Records(l.sk_data[i + 1]), key, x)
  PROVE  LastUpTo(l.sk_data[i], Records(l.sk_data[i]), key,
                  WalkTo(l.sk_data[i], Below(l, i + 1, x), key))
<1>1. i \in Nat /\ (i + 1) - 1 = i /\ i + 1 # 0
  BY LevelsAre
<1>2. GoodLevel(l.sk_data[i])
  BY DEF GoodList, HasLevels
<1> DEFINE b == Below(l, i + 1, x)
<1>3. b \in Records(l.sk_data[i]) \cup {0} /\ (b # 0 => l.sk_data[i][b].key <= key)
  <2>1. CASE x = 0
    BY <2>1 DEF Below
  <2>2. CASE x # 0
    <3>1. x \in Records(l.sk_data[i + 1]) /\ l.sk_data[i + 1][x].key <= key
      BY <2>2 DEF LastUpTo
    <3>2. b = l.sk_data[i + 1][x].bottom
      BY <2>2 DEF Below
    <3>3. b \in Records(l.sk_data[i]) /\ l.sk_data[i][b].key = l.sk_data[i + 1][x].key
      BY <1>1, <3>1, <3>2 DEF GoodList, Nested
    <3> QED BY <3>1, <3>3
  <2> QED BY <2>1, <2>2
<1> HIDE DEF b
<1>4. LastUpTo(l.sk_data[i], Records(l.sk_data[i]), key, WalkTo(l.sk_data[i], b, key))
  BY <1>2, <1>3, WalkIs
<1> QED BY <1>4 DEF b

\* A walk from node 0 ends at the last record up to the key.
LEMMA WalkFromTop ==
  ASSUME NEW l, GoodList(l), NEW key \in Nat, NEW i \in Levels
  PROVE  LastUpTo(l.sk_data[i], Records(l.sk_data[i]), key, WalkTo(l.sk_data[i], 0, key))
<1>1. GoodLevel(l.sk_data[i])
  BY DEF GoodList, HasLevels
<1> QED BY <1>1, WalkIs

\* The function that Trace recurs by exists.
LEMMA TraceExists ==
  ASSUME NEW l, GoodList(l), NEW key \in Nat
  PROVE  IsTrace(Trace(l, key), l, key, HighestLevel(l))
<1>1. PICK h \in Nat : h = HighestLevel(l) /\ \A i \in 0 .. h : i \in Levels
  BY HighestIs
<1> DEFINE t == [i \in 0 .. h |-> WalkTo(l.sk_data[i], 0, key)]
<1>2. ASSUME NEW i \in 0 .. h
      PROVE  t[i] = WalkTo(l.sk_data[i], IF i = h THEN 0 ELSE Below(l, i + 1, t[i + 1]), key)
  <2>1. CASE i = h
    BY <2>1
  <2>2. CASE i # h
    <3>1. i + 1 \in 0 .. h /\ i \in Levels /\ i + 1 \in Levels
      <4>1. i + 1 \in 0 .. h
        BY <2>2
      <4> QED BY <1>1, <4>1
    <3>2. t[i + 1] = WalkTo(l.sk_data[i + 1], 0, key) /\ t[i] = WalkTo(l.sk_data[i], 0, key)
      BY <3>1
    <3> HIDE DEF t
    <3>3. LastUpTo(l.sk_data[i + 1], Records(l.sk_data[i + 1]), key, t[i + 1])
      BY <3>1, <3>2, WalkFromTop
    <3>4. LastUpTo(l.sk_data[i], Records(l.sk_data[i]), key,
                   WalkTo(l.sk_data[i], Below(l, i + 1, t[i + 1]), key))
      BY <3>1, <3>3, BelowIsStart
    <3>5. LastUpTo(l.sk_data[i], Records(l.sk_data[i]), key, t[i])
      BY <3>1, <3>2, WalkFromTop
    <3>6. GoodLevel(l.sk_data[i])
      BY <3>1 DEF GoodList, HasLevels
    <3>7. t[i] = WalkTo(l.sk_data[i], Below(l, i + 1, t[i + 1]), key)
      BY <3>4, <3>5, <3>6, LastIsUnique
    <3> QED BY <2>2, <3>7
  <2> QED BY <2>1, <2>2
<1>3. IsTrace(t, l, key, h)
  BY <1>2 DEF IsTrace
<1> HIDE DEF t
<1> QED BY <1>1, <1>3, TraceIsChosen

\* On every level the search comes to the last record up to its key.
LEMMA TraceIs ==
  ASSUME NEW l, GoodList(l), NEW key \in Nat
  PROVE  /\ DOMAIN Trace(l, key) = 0 .. HighestLevel(l)
         /\ \A i \in 0 .. HighestLevel(l) :
              LastUpTo(l.sk_data[i], Records(l.sk_data[i]), key, Trace(l, key)[i])
<1>1. PICK h \in Nat : h = HighestLevel(l) /\ \A i \in 0 .. h : i \in Levels
  BY HighestIs
<1>2. PICK t : t = Trace(l, key)
  OBVIOUS
<1>3. IsTrace(t, l, key, h)
  BY <1>1, <1>2, TraceExists
<1>4. /\ DOMAIN t = 0 .. h
      /\ \A i \in 0 .. h : t[i] = WalkTo(l.sk_data[i],
                             IF i = h THEN 0 ELSE Below(l, i + 1, t[i + 1]), key)
  <2>1. t = [i \in 0 .. h |->
               WalkTo(l.sk_data[i], IF i = h THEN 0 ELSE Below(l, i + 1, t[i + 1]), key)]
    BY <1>3 DEF IsTrace
  <2> QED BY <2>1
<1> DEFINE S == {i \in 0 .. h : LastUpTo(l.sk_data[i], Records(l.sk_data[i]), key, t[i])}
<1>5. h \in S
  BY <1>1, <1>4, WalkFromTop
<1>6. ASSUME NEW i \in 0 .. h, i # h, i + 1 \in S
      PROVE  i \in S
  <2>1. i \in Levels /\ i + 1 \in Levels
    BY <1>1, <1>6
  <2>2. t[i] = WalkTo(l.sk_data[i], Below(l, i + 1, t[i + 1]), key)
    BY <1>4, <1>6
  <2>3. LastUpTo(l.sk_data[i + 1], Records(l.sk_data[i + 1]), key, t[i + 1])
    BY <1>6
  <2>4. LastUpTo(l.sk_data[i], Records(l.sk_data[i]), key, t[i])
    BY <2>1, <2>2, <2>3, BelowIsStart
  <2> QED BY <2>4
<1> HIDE DEF S
<1>7. \A i \in 0 .. h : i \in S
  BY <1>5, <1>6, Downward
<1> QED BY <1>1, <1>2, <1>4, <1>7 DEF S

-----------------------------------------------------------------------------
(* What a search finds                                                     *)

IsGround(g, l, i, n) ==
  g = [j \in 0 .. i |-> IF j = i THEN n ELSE l.sk_data[j + 1][g[j + 1]].bottom]

\* Ground, with the recursion made a choice.
LEMMA GroundIsChosen ==
  ASSUME NEW l, NEW i, NEW n
  PROVE  Ground(l, i, n) = (CHOOSE g : IsGround(g, l, i, n))[0]
BY DEF Ground, IsGround

\* Going down from a node leads to that of its key.
LEMMA GroundIs ==
  ASSUME NEW l, GoodList(l), NEW i \in Levels, NEW n \in Records(l.sk_data[i])
  PROVE  /\ Ground(l, i, n) \in Records(l.sk_data[0])
         /\ l.sk_data[0][Ground(l, i, n)].key = l.sk_data[i][n].key
<1> DEFINE key == l.sk_data[i][n].key
           Is(j, x) == x \in Records(l.sk_data[j]) /\ l.sk_data[j][x].key = key
           w == [j \in 0 .. i |-> CHOOSE x \in Records(l.sk_data[j]) : l.sk_data[j][x].key = key]
<1>1. i \in Nat /\ 0 \in 0 .. i /\ \A j \in 0 .. i : j \in Levels
  BY LevelsAre
<1>2. \A j \in 0 .. i : GoodLevel(l.sk_data[j])
  BY <1>1 DEF GoodList, HasLevels
<1>3. \A j \in 0 .. i : Is(j, w[j])
  BY <1>1, KeysNest
<1>4. \A j \in 0 .. i : \A x, y : Is(j, x) /\ Is(j, y) => x = y
  BY <1>2, RecordsAre
<1>5. ASSUME NEW j \in 0 .. i, j # i
      PROVE  /\ j + 1 \in 0 .. i
             /\ \A x : Is(j + 1, x) => Is(j, l.sk_data[j + 1][x].bottom)
  <2>1. j + 1 \in 0 .. i /\ j + 1 # 0 /\ (j + 1) - 1 = j
    BY <1>1, <1>5
  <2>2. j + 1 \in Levels \ {0}
    BY <1>1, <2>1
  <2> QED BY <2>1, <2>2 DEF GoodList, Nested
<1> HIDE DEF Is
<1>6. IsGround(w, l, i, n)
  <2>1. Is(i, n)
    BY DEF Is
  <2>2. ASSUME NEW j \in 0 .. i
        PROVE  w[j] = IF j = i THEN n ELSE l.sk_data[j + 1][w[j + 1]].bottom
    <3> HIDE DEF w
    <3>1. CASE j = i
      BY <1>3, <1>4, <2>1, <3>1
    <3>2. CASE j # i
      BY <1>3, <1>4, <1>5, <3>2
    <3> QED BY <3>1, <3>2
  <2>3. w = [j \in 0 .. i |-> w[j]]
    OBVIOUS
  <2> HIDE DEF w
  <2>4. w = [j \in 0 .. i |-> IF j = i THEN n ELSE l.sk_data[j + 1][w[j + 1]].bottom]
    BY <2>2, <2>3
  <2> QED BY <2>4 DEF IsGround
<1> HIDE DEF w
<1> DEFINE g == CHOOSE h : IsGround(h, l, i, n)
<1>7. IsGround(g, l, i, n)
  BY <1>6
<1> HIDE DEF g
<1>8. \A j \in 0 .. i : g[j] = IF j = i THEN n ELSE l.sk_data[j + 1][g[j + 1]].bottom
  <2>1. g = [j \in 0 .. i |-> IF j = i THEN n ELSE l.sk_data[j + 1][g[j + 1]].bottom]
    BY <1>7 DEF IsGround
  <2> QED BY <2>1
<1> DEFINE S == {j \in 0 .. i : Is(j, g[j])}
<1>9. i \in S
  BY <1>1, <1>8 DEF Is
<1>10. ASSUME NEW j \in 0 .. i, j # i, j + 1 \in S PROVE j \in S
  BY <1>5, <1>8, <1>10
<1> HIDE DEF S
<1>11. \A j \in 0 .. i : j \in S
  BY <1>1, <1>9, <1>10, Downward
<1>12. Is(0, g[0])
  BY <1>1, <1>11 DEF S
<1> USE DEF g
<1> QED BY <1>12, GroundIsChosen DEF Is

\* Node n is where a search for key ends that finds it.
Holds(l, key, n) == n \in Records(l.sk_data[0]) /\ l.sk_data[0][n].key = key

\* A key has one node at most on level 0.
LEMMA HoldsIsOne ==
  ASSUME NEW l, GoodList(l), NEW key, NEW m, NEW n, Holds(l, key, m), Holds(l, key, n)
  PROVE  m = n
<1>1. GoodLevel(l.sk_data[0])
  BY LevelsAre DEF GoodList, HasLevels
<1> QED BY <1>1, RecordsAre DEF Holds

\* SkipList::get finds the node of the key on level 0, whatever the heights of the
\* nodes, and -1 if the list has none.
THEOREM FindIs ==
  ASSUME NEW l, GoodList(l), NEW key \in Nat
  PROVE  \/ Holds(l, key, Find(l, key)) /\ Find(l, key) \in Nat \ {0}
         \/ Find(l, key) = -1 /\ \A n : ~ Holds(l, key, n)
<1> DEFINE t == Trace(l, key)
           found == {i \in DOMAIN t : (t[i] # 0 \/ key # 0) /\ l.sk_data[i][t[i]].key = key}
<1>1. PICK h \in Nat : h = HighestLevel(l) /\ h \in Levels /\ \A i \in 0 .. h : i \in Levels
  BY HighestIs
<1>2. /\ DOMAIN t = 0 .. h
      /\ \A i \in 0 .. h : LastUpTo(l.sk_data[i], Records(l.sk_data[i]), key, t[i])
  BY <1>1, TraceIs
<1>3. Find(l, key) = IF found = {} THEN -1 ELSE Ground(l, Max(found), t[Max(found)])
  BY DEF Find
<1> HIDE DEF t
<1>4. \A i \in 0 .. h : GoodLevel(l.sk_data[i])
  BY <1>1 DEF GoodList, HasLevels
<1>5. \A i \in 0 .. h : i \in found => t[i] \in Records(l.sk_data[i]) /\ l.sk_data[i][t[i]].key = key
  BY <1>2, <1>4, RecordsAre DEF LastUpTo
<1>6. CASE found = {}
  <2>1. SUFFICES ASSUME NEW n, Holds(l, key, n) PROVE FALSE
    BY <1>3, <1>6
  <2>2. 0 \in 0 .. h
    BY <1>1
  <2>3. n \in Records(l.sk_data[0]) /\ l.sk_data[0][n].key = key
    BY <2>1 DEF Holds
  <2>4. t[0] # 0 /\ t[0] \in Records(l.sk_data[0]) /\ l.sk_data[0][t[0]].key <= key
        /\ key <= l.sk_data[0][t[0]].key
    BY <1>2, <2>2, <2>3 DEF LastUpTo
  <2>5. l.sk_data[0][t[0]].key \in Nat
    BY <1>4, <2>2, <2>4, RecordsAre
  <2>6. l.sk_data[0][t[0]].key = key
    BY <2>4, <2>5
  <2>7. 0 \in found
    BY <1>2, <2>2, <2>4, <2>6
  <2> QED BY <1>6, <2>7
<1>7. CASE found # {}
  <2>1. found \in SUBSET (0 .. h)
    BY <1>2
  <2> HIDE DEF found
  <2>2. Max(found) \in found
    BY <1>1, <1>7, <2>1, MaxIsGreatest
  <2>3. PICK i \in 0 .. h : i = Max(found) /\ i \in found /\ i \in Levels
    BY <1>1, <2>1, <2>2
  <2>4. t[i] \in Records(l.sk_data[i]) /\ l.sk_data[i][t[i]].key = key
    BY <1>5, <2>3
  <2>5. Find(l, key) = Ground(l, i, t[i])
    BY <1>3, <1>7, <2>3
  <2>6. Holds(l, key, Find(l, key))
    BY <2>3, <2>4, <2>5, GroundIs DEF Holds
  <2>7. GoodLevel(l.sk_data[0])
    BY LevelsAre DEF GoodList, HasLevels
  <2>8. Find(l, key) \in Nat \ {0}
    BY <2>6, <2>7, RecordsAre DEF Holds
  <2> QED BY <2>6, <2>8
<1> QED BY <1>6, <1>7

-----------------------------------------------------------------------------
(* The operations on a level                                               *)

\* Node n of level and node m of another have the same record.
SameRecord(level, n, new, m) == new[m].key = level[n].key /\ new[m].bottom = level[n].bottom

LevelNode(last) == [key : Nat, idx : SUBSET (0 .. 31), next : 0 .. last, bottom : Nat]

\* A node is the record of its four fields.
LEMMA NodeFields ==
  ASSUME NEW last, NEW r \in LevelNode(last)
  PROVE  /\ r = [key |-> r.key, idx |-> r.idx, next |-> r.next, bottom |-> r.bottom]
         /\ r.key \in Nat /\ r.idx \in SUBSET (0 .. 31) /\ r.next \in 0 .. last /\ r.bottom \in Nat
BY DEF LevelNode

\* Four fields of the right types make a node.
LEMMA NodeWith ==
  ASSUME NEW last, NEW k \in Nat, NEW x \in SUBSET (0 .. 31), NEW n \in 0 .. last, NEW b \in Nat
  PROVE  [key |-> k, idx |-> x, next |-> n, bottom |-> b] \in LevelNode(last)
BY DEF LevelNode

\* A level has nodes of that type.
LEMMA NodesOf ==
  ASSUME NEW level, NEW last, LevelType(level, last)
  PROVE  \A n \in 0 .. last : level[n] \in LevelNode(last)
BY DEF LevelType, LevelNode

\* check_and_resize gives a level new free nodes and keeps its records.
LEMMA ExtendedIs ==
  ASSUME NEW level, NEW last, NEW recs, NEW ord, Shape(level, last, recs, {}, ord),
         NEW size, size = last + 1, NEW newlast \in Nat, newlast > last
  PROVE  /\ \E o : Shape(Extended(level, size, newlast), newlast, recs, size .. newlast, o)
         /\ \A n \in recs : Extended(level, size, newlast)[n] = level[n]
<1> DEFINE E == Extended(level, size, newlast)
           new == size .. newlast
           neg == [n \in new |-> - n]
<1>1. /\ last \in Nat /\ size \in Nat /\ DOMAIN level = 0 .. last /\ recs \subseteq 1 .. last
      /\ \A n \in 1 .. last : n \in recs
  BY ShapeSets
<1>2. /\ level \in [0 .. last -> [key : Nat, idx : SUBSET (0 .. 31), next : 0 .. last, bottom : Nat]]
      /\ level[0].key = 0 /\ Linked(level, level[0].next, recs, KeyOrder(level, recs))
      /\ level[0].bottom = 0
  BY DEF Shape, LevelType, Linked
<1>3. /\ 0 \in 0 .. newlast /\ 0 \in 0 .. last /\ recs \subseteq 0 .. last
      /\ \A n \in 0 .. newlast : \/ n = 0 /\ n \notin recs /\ n \notin new
                                 \/ n \in new /\ n # 0 /\ n \notin recs /\ n >= size
                                 \/ n \in recs /\ n # 0 /\ n \notin new /\ ~ (n >= size)
      /\ recs \subseteq 0 .. newlast /\ new \subseteq 0 .. newlast
      /\ \A n \in 0 .. last : n \in 0 .. newlast
  BY <1>1
<1>4. /\ E[0] = [level[0] EXCEPT !.bottom = newlast]
      /\ \A n \in new : E[n] = [NewNode EXCEPT !.next = IF n = size THEN level[0].bottom ELSE n - 1]
      /\ \A n \in recs : E[n] = level[n]
      /\ DOMAIN E = 0 .. newlast
  BY <1>3 DEF Extended
<1>5. E = [n \in 0 .. newlast |-> E[n]]
  BY DEF Extended
<1> HIDE DEF E, neg
<1>6. /\ E[0] = [key |-> 0, idx |-> level[0].idx, next |-> level[0].next, bottom |-> newlast]
      /\ \A n \in new : E[n] = [key |-> 0, idx |-> {}, next |-> IF n = size THEN 0 ELSE n - 1, bottom |-> 0]
  <2>1. level[0] \in LevelNode(last)
    BY <1>2, <1>3 DEF LevelNode
  <2>2. E[0] = [key |-> level[0].key, idx |-> level[0].idx, next |-> level[0].next, bottom |-> newlast]
    <3>1. PICK r : r = level[0]
      OBVIOUS
    <3>2. r = [key |-> r.key, idx |-> r.idx, next |-> r.next, bottom |-> r.bottom]
      BY <2>1, <3>1, NodeFields
    <3>3. [r EXCEPT !.bottom = newlast]
            = [key |-> r.key, idx |-> r.idx, next |-> r.next, bottom |-> newlast]
      BY <3>2
    <3> QED BY <1>4, <3>1, <3>3
  <2>3. NewNode = [key |-> 0, idx |-> {}, next |-> 0, bottom |-> 0]
    BY DEF NewNode, NewIndex
  <2>4. ASSUME NEW n \in new
        PROVE  E[n] = [key |-> 0, idx |-> {}, next |-> IF n = size THEN 0 ELSE n - 1, bottom |-> 0]
    <3>1. PICK x : x = IF n = size THEN 0 ELSE n - 1
      OBVIOUS
    <3>2. E[n] = [NewNode EXCEPT !.next = x]
      <4> HIDE DEF new
      <4> QED BY <1>2, <1>4, <3>1
    <3>3. [NewNode EXCEPT !.next = x] = [key |-> 0, idx |-> {}, next |-> x, bottom |-> 0]
      BY <2>3
    <3> QED BY <3>1, <3>2, <3>3
  <2> HIDE DEF new
  <2> QED BY <1>2, <2>2, <2>4
<1>7. LevelType(E, newlast)
  <2>0. \A n \in 0 .. last : level[n] \in LevelNode(last)
    BY <1>2 DEF LevelNode
  <2>1. E[0] \in LevelNode(newlast)
    <3>1. level[0].next \in 0 .. newlast /\ level[0].idx \in SUBSET (0 .. 31)
      BY <1>3, <2>0, NodeFields
    <3> QED BY <1>6, <3>1, NodeWith
  <2>2. \A n \in new : E[n] \in LevelNode(newlast)
    <3>1. TAKE n \in new
    <3>1a. PICK x : x = IF n = size THEN 0 ELSE n - 1
      OBVIOUS
    <3>2. x \in 0 .. newlast
      BY <1>1, <3>1a
    <3> HIDE DEF new
    <3>3. E[n] = [key |-> 0, idx |-> {}, next |-> x, bottom |-> 0]
      BY <1>6, <3>1a
    <3>4. {} \in SUBSET (0 .. 31)
      OBVIOUS
    <3> QED BY <3>2, <3>3, <3>4, NodeWith
  <2>3. \A n \in recs : E[n] \in LevelNode(newlast)
    <3>1. TAKE n \in recs
    <3>2. level[n] \in LevelNode(last) /\ level[n].next \in 0 .. newlast
      BY <1>3, <2>0, NodeFields
    <3>3. [key |-> level[n].key, idx |-> level[n].idx, next |-> level[n].next,
           bottom |-> level[n].bottom] \in LevelNode(newlast)
      BY <3>2, NodeFields, NodeWith
    <3> QED BY <1>4, <3>2, <3>3, NodeFields
  <2>4. \A n \in 0 .. newlast : E[n] \in LevelNode(newlast)
    <3> HIDE DEF new
    <3> QED BY <1>3, <2>1, <2>2, <2>3
  <2>5. E \in [0 .. newlast -> LevelNode(newlast)]
    BY <1>5, <2>4
  <2> QED BY <2>5 DEF LevelType, LevelNode
<1>8. recs \cap new = {} /\ recs \cup new = (0 .. newlast) \ {0}
  <2> HIDE DEF new
  <2> QED BY <1>3
<1>9. Linked(E, E[0].next, recs, KeyOrder(E, recs))
  <2>1. KeyOrder(E, recs) = KeyOrder(level, recs)
    BY <1>4 DEF KeyOrder
  <2>2. E[0].next = level[0].next
    BY <1>6
  <2> QED BY <1>2, <1>4, <2>1, <2>2 DEF Linked
<1>10. Linked(E, E[0].bottom, new, neg)
  <2>1. neg \in [new -> Int] /\ \A n \in new : neg[n] = - n
    BY <1>1 DEF neg
  <2>2. E[0].bottom = newlast /\ newlast \in new /\ newlast # 0
    BY <1>1, <1>6
  <2>3. \A m, n \in new : neg[m] = neg[n] => m = n
    BY <1>1, <2>1
  <2>4. \A m \in new : neg[newlast] <= neg[m]
    BY <1>1, <2>1, <2>2
  <2>5. ASSUME NEW n \in new
        PROVE  LET next == E[n].next IN
               IF next = 0 THEN \A m \in new : neg[m] <= neg[n]
               ELSE /\ next \in new /\ neg[n] < neg[next]
                    /\ \A m \in new : neg[m] <= neg[n] \/ neg[next] <= neg[m]
    <3>1. CASE n = size
      <4>1. E[n].next = 0
        <5> HIDE DEF new
        <5>1. E[n] = [key |-> 0, idx |-> {}, next |-> 0, bottom |-> 0]
          BY <1>6, <3>1
        <5> QED BY <5>1
      <4>2. \A m \in new : neg[m] <= neg[n]
        BY <1>1, <2>1, <3>1
      <4> QED BY <4>1, <4>2
    <3>2. CASE n # size
      <4>1. E[n].next = n - 1
        <5> HIDE DEF new
        <5>1. E[n] = [key |-> 0, idx |-> {}, next |-> n - 1, bottom |-> 0]
          BY <1>6, <3>2
        <5> QED BY <5>1
      <4>2. n - 1 \in new /\ n - 1 # 0
        BY <1>1, <3>2
      <4>3. neg[n] < neg[n - 1] /\ \A m \in new : neg[m] <= neg[n] \/ neg[n - 1] <= neg[m]
        BY <1>1, <2>1, <4>2
      <4> QED BY <4>1, <4>2, <4>3
    <3> QED BY <3>1, <3>2
  <2> HIDE DEF new
  <2> QED BY <2>1, <2>2, <2>3, <2>4, <2>5 DEF Linked
<1>11. E[0].key = 0
  BY <1>6
<1>12. Shape(E, newlast, recs, new, neg)
  BY <1>7, <1>8, <1>9, <1>10, <1>11 DEF Shape
<1> QED BY <1>4, <1>12 DEF E

\* The first free node of level, f, has become that of the record of key.
InsertedInto(level, last, recs, free, key, w, below, f, new) ==
  /\ f \in free
  /\ \E o : Shape(new, last, recs \cup {f}, free \ {f}, o)
  /\ new[f].key = key /\ new[f].bottom = below /\ new[f].idx = w
  /\ \A m \in recs : /\ new[m].key = level[m].key /\ new[m].bottom = level[m].bottom
                     /\ new[m].idx = level[m].idx

\* insert_after makes the first free node the record of the key, in its place.
LEMMA InsertedIs ==
  ASSUME NEW level, NEW last, NEW recs, NEW free, NEW ord, Shape(level, last, recs, free, ord),
         NEW key \in Nat, NEW n, LastUpTo(level, recs, key, n),
         \A m \in recs : level[m].key # key,
         NEW w \in SUBSET (0 .. 31), NEW below \in Nat, free # {}
  PROVE  InsertedInto(level, last, recs, free, key, w, below, level[0].bottom,
                      Inserted(level, n, key, w, below))
<1> DEFINE f   == level[0].bottom
           new == Inserted(level, n, key, w, below)
           R   == recs \cup {f}
           F   == free \ {f}
           o   == [m \in F |-> ord[m]]
<1>1. /\ last \in Nat /\ DOMAIN level = 0 .. last /\ recs \subseteq 1 .. last /\ free \subseteq 1 .. last
      /\ 0 \in 0 .. last /\ 0 \notin recs /\ 0 \notin free
  BY ShapeSets
<1>2. /\ level \in [0 .. last -> LevelNode(last)]
      /\ level[0].key = 0 /\ Linked(level, level[0].next, recs, KeyOrder(level, recs))
      /\ Linked(level, f, free, ord) /\ recs \cap free = {} /\ recs \cup free = (0 .. last) \ {0}
  BY DEF Shape, LevelType, LevelNode
<1>3. f \in free /\ f # 0 /\ f \notin recs
  BY <1>1, <1>2 DEF Linked
<1>4. n \in recs \cup {0} /\ n \in 0 .. last /\ f \in 0 .. last /\ n # f
  <2>1. n \in recs \cup {0}
    BY DEF LastUpTo
  <2>2. n # f
    BY <1>3, <2>1
  <2>3. \A m \in 1 .. last : m \in 0 .. last
    BY <1>1
  <2> HIDE DEF f
  <2> QED BY <1>1, <1>3, <2>1, <2>2, <2>3
<1>5. \A m \in 0 .. last : level[m] \in LevelNode(last)
  BY <1>2
<1>6. /\ new[f] = [key |-> key, idx |-> w, next |-> level[n].next, bottom |-> below]
      /\ \A m \in 0 .. last : m # f =>
           /\ new[m].key = level[m].key /\ new[m].idx = level[m].idx
           /\ new[m].next = IF m = n THEN f ELSE level[m].next
           /\ new[m].bottom = IF m = 0 THEN level[f].next ELSE level[m].bottom
           /\ new[m] = [key |-> new[m].key, idx |-> new[m].idx, next |-> new[m].next,
                        bottom |-> new[m].bottom]
      /\ new = [m \in 0 .. last |-> new[m]]
  <2> DEFINE moved == [level EXCEPT ![0].bottom = level[f].next]
  <2>1. /\ moved = [m \in 0 .. last |-> moved[m]]
        /\ \A m \in 0 .. last : m # 0 => moved[m] = level[m]
        /\ moved[0] = [level[0] EXCEPT !.bottom = level[f].next]
    BY <1>1, <1>2
  <2>2. moved[0] = [key |-> level[0].key, idx |-> level[0].idx, next |-> level[0].next,
                    bottom |-> level[f].next]
    <3>1. PICK r : r = level[0]
      OBVIOUS
    <3>2. r = [key |-> r.key, idx |-> r.idx, next |-> r.next, bottom |-> r.bottom]
      BY <1>1, <1>5, <3>1, NodeFields
    <3>3. [r EXCEPT !.bottom = level[f].next]
            = [key |-> r.key, idx |-> r.idx, next |-> r.next, bottom |-> level[f].next]
      <4> HIDE DEF f
      <4> QED BY <3>2
    <3> QED BY <2>1, <3>1, <3>3
  <2>3. new = [moved EXCEPT ![n].next = f,
                            ![f] = [key |-> key, idx |-> w, next |-> moved[n].next,
                                    bottom |-> below]]
    BY DEF Inserted
  <2> HIDE DEF new, moved
  <2>4. moved[n].next = level[n].next
    BY <1>4, <2>1, <2>2
  <2>5. new = [m \in 0 .. last |-> new[m]]
    BY <2>1, <2>3
  <2>6. /\ new[f] = [key |-> key, idx |-> w, next |-> level[n].next, bottom |-> below]
        /\ new[n] = [moved[n] EXCEPT !.next = f]
        /\ \A m \in 0 .. last : m # f /\ m # n => new[m] = moved[m]
    BY <1>4, <2>1, <2>3, <2>4
  <2>7. \A m \in 0 .. last : moved[m] = [key |-> level[m].key, idx |-> level[m].idx,
          next |-> level[m].next, bottom |-> IF m = 0 THEN level[f].next ELSE level[m].bottom]
    BY <1>5, <2>1, <2>2, NodeFields
  <2>8. new[n] = [key |-> level[n].key, idx |-> level[n].idx,
          next |-> f, bottom |-> IF n = 0 THEN level[f].next ELSE level[n].bottom]
    <3>1. PICK b : b = IF n = 0 THEN level[f].next ELSE level[n].bottom
      OBVIOUS
    <3>2. PICK r : r = moved[n]
      OBVIOUS
    <3>3. r = [key |-> level[n].key, idx |-> level[n].idx, next |-> level[n].next, bottom |-> b]
      BY <1>4, <2>7, <3>1, <3>2
    <3>4. new[n] = [r EXCEPT !.next = f]
      BY <2>6, <3>2
    <3>5. new[n] = [key |-> level[n].key, idx |-> level[n].idx, next |-> f, bottom |-> b]
      <4> HIDE DEF f
      <4> QED BY <3>3, <3>4
    <3> QED BY <3>1, <3>5
  <2>9. ASSUME NEW m \in 0 .. last, m # f
        PROVE  new[m] = [key |-> level[m].key, idx |-> level[m].idx,
                 next |-> IF m = n THEN f ELSE level[m].next,
                 bottom |-> IF m = 0 THEN level[f].next ELSE level[m].bottom]
    <3>1. CASE m = n
      BY <2>8, <3>1
    <3>2. CASE m # n
      BY <2>6, <2>7, <2>9, <3>2
    <3> QED BY <3>1, <3>2
  <2>10. ASSUME NEW m \in 0 .. last, m # f
         PROVE  /\ new[m].key = level[m].key /\ new[m].idx = level[m].idx
                /\ new[m].next = IF m = n THEN f ELSE level[m].next
                /\ new[m].bottom = IF m = 0 THEN level[f].next ELSE level[m].bottom
                /\ new[m] = [key |-> new[m].key, idx |-> new[m].idx, next |-> new[m].next,
                             bottom |-> new[m].bottom]
    <3>1. PICK x, b : /\ x = IF m = n THEN f ELSE level[m].next
                      /\ b = IF m = 0 THEN level[f].next ELSE level[m].bottom
      OBVIOUS
    <3>2. new[m] = [key |-> level[m].key, idx |-> level[m].idx, next |-> x, bottom |-> b]
      BY <2>9, <2>10, <3>1
    <3>3. /\ new[m].key = level[m].key /\ new[m].idx = level[m].idx
          /\ new[m].next = x /\ new[m].bottom = b
      BY <3>2
    <3> QED BY <3>1, <3>2, <3>3
  <2> QED BY <2>5, <2>6, <2>10
<1> HIDE DEF new, o
<1>7. /\ new[f].key = key /\ new[f].bottom = below /\ new[f].idx = w /\ new[f].next = level[n].next
      /\ \A m \in recs : /\ new[m].key = level[m].key /\ new[m].bottom = level[m].bottom
                         /\ new[m].idx = level[m].idx
                         /\ new[m].next = IF m = n THEN f ELSE level[m].next
      /\ \A m \in F : new[m].next = level[m].next
      /\ new[0].key = 0 /\ new[0].bottom = level[f].next
      /\ new[0].next = IF n = 0 THEN f ELSE level[0].next
  BY <1>1, <1>2, <1>3, <1>4, <1>6
<1>8. LevelType(new, last)
  <2>1. \A m \in 0 .. last : new[m].next \in 0 .. last /\ level[m].next \in 0 .. last
    BY <1>4, <1>5, <1>6, NodeFields
  <2>2. new[f] \in LevelNode(last)
    BY <1>4, <1>6, <2>1, NodeWith
  <2>3. ASSUME NEW m \in 0 .. last, m # f PROVE new[m] \in LevelNode(last)
    <3>1. new[m].key \in Nat /\ new[m].idx \in SUBSET (0 .. 31)
      BY <1>5, <1>6, <2>3, NodeFields
    <3>2. level[f].next \in Nat /\ level[m].bottom \in Nat
      BY <1>4, <1>5, NodeFields
    <3>3. new[m].bottom \in Nat
      <4> HIDE DEF f
      <4> QED BY <1>6, <2>3, <3>2
    <3>4. new[m] = [key |-> new[m].key, idx |-> new[m].idx, next |-> new[m].next,
                    bottom |-> new[m].bottom]
      BY <1>6, <2>3
    <3>5. [key |-> new[m].key, idx |-> new[m].idx, next |-> new[m].next, bottom |-> new[m].bottom]
            \in LevelNode(last)
      BY <2>1, <3>1, <3>3, NodeWith
    <3> QED BY <3>4, <3>5
  <2>4. new \in [0 .. last -> LevelNode(last)]
    BY <1>6, <2>2, <2>3
  <2> QED BY <1>1, <2>4 DEF LevelType, LevelNode
<1>9. R \cap F = {} /\ R \cup F = (0 .. last) \ {0}
  BY <1>2, <1>3
<1>10. Linked(new, new[0].bottom, F, o)
  <2>1. o \in [F -> Int] /\ \A m \in F : o[m] = ord[m]
    BY <1>2 DEF Linked, o
  <2>2. \A m \in free : ord[m] \in Int
    BY <1>2 DEF Linked
  <2>3. \A m, x \in F : o[m] = o[x] => m = x
    BY <1>2, <2>1 DEF Linked
  <2>4. /\ level[f].next = 0 => \A m \in free : ord[m] <= ord[f]
        /\ level[f].next # 0 => /\ level[f].next \in free /\ ord[f] < ord[level[f].next]
                                /\ \A m \in free : ord[m] <= ord[f] \/ ord[level[f].next] <= ord[m]
        /\ \A m \in free : ord[f] <= ord[m]
        /\ \A m, x \in free : ord[m] = ord[x] => m = x
    BY <1>2, <1>3 DEF Linked
  <2>5. /\ level[f].next = 0 => F = {}
        /\ level[f].next # 0 => /\ level[f].next \in F
                                /\ \A m \in F : o[level[f].next] <= o[m]
    BY <2>1, <2>2, <2>4, <1>3
  <2>6. ASSUME NEW m \in F
        PROVE  LET next == new[m].next IN
               IF next = 0 THEN \A x \in F : o[x] <= o[m]
               ELSE /\ next \in F /\ o[m] < o[next]
                    /\ \A x \in F : o[x] <= o[m] \/ o[next] <= o[x]
    <3>1. new[m].next = level[m].next
      BY <1>7
    <3>2. /\ level[m].next = 0 => \A x \in free : ord[x] <= ord[m]
          /\ level[m].next # 0 => /\ level[m].next \in free /\ ord[m] < ord[level[m].next]
                                  /\ \A x \in free : ord[x] <= ord[m] \/ ord[level[m].next] <= ord[x]
      BY <1>2 DEF Linked
    <3>3. level[m].next # f
      <4>1. ord[f] <= ord[m] /\ ord[f] \in Int /\ ord[m] \in Int /\ m \in free
        BY <1>3, <2>2, <2>4
      <4> QED BY <1>3, <3>2, <4>1
    <3> QED BY <2>1, <3>1, <3>2, <3>3
  <2> HIDE DEF F
  <2> QED BY <1>7, <2>1, <2>3, <2>5, <2>6 DEF Linked
<1>11. Linked(new, new[0].next, R, KeyOrder(new, R))
  <2> DEFINE k == KeyOrder(new, R)
  <2>1. \A m \in recs : level[m].key \in Nat
    <3>1. \A m \in recs : m \in 0 .. last
      BY <1>1
    <3> QED BY <1>5, <3>1, NodeFields
  <2>2. \A m \in recs : new[m].key = level[m].key /\ new[m].key \in Nat
    BY <1>7, <2>1
  <2>3. /\ k \in [R -> Int] /\ k[f] = key
        /\ \A m \in recs : k[m] = level[m].key
    BY <1>7, <2>2 DEF KeyOrder
  <2> HIDE DEF k
  <2>4. \A m, x \in recs : level[m].key = level[x].key => m = x
    BY <1>2 DEF Linked, KeyOrder
  <2>5. \A m, x \in R : k[m] = k[x] => m = x
    BY <2>3, <2>4
  <2>6. \A m \in recs : \/ key < level[m].key
                        \/ level[m].key < key /\ n # 0 /\ level[m].key <= level[n].key
    BY <2>1 DEF LastUpTo
  <2>7. n # 0 => n \in recs /\ level[n].key < key
    BY <2>1 DEF LastUpTo
  <2>8. /\ level[0].next = 0 => recs = {}
        /\ level[0].next # 0 => /\ level[0].next \in recs
                                /\ \A m \in recs : level[level[0].next].key <= level[m].key
    BY <1>2 DEF Linked, KeyOrder
  <2>9. \A m \in recs :
          /\ level[m].next = 0 => \A x \in recs : level[x].key <= level[m].key
          /\ level[m].next # 0 =>
               /\ level[m].next \in recs /\ level[m].key < level[level[m].next].key
               /\ \A x \in recs : level[x].key <= level[m].key \/ level[level[m].next].key <= level[x].key
    BY <1>2 DEF Linked, KeyOrder
  <2>10. \A m \in R : k[m] \in Int
    BY <2>3
  <2>11. IF new[0].next = 0 THEN R = {}
         ELSE new[0].next \in R /\ \A m \in R : k[new[0].next] <= k[m]
    <3>1. CASE n = 0
      <4>1. \A m \in recs : key < level[m].key
        BY <2>6, <3>1
      <4> QED BY <1>3, <1>7, <2>1, <2>3, <3>1, <4>1
    <3>2. CASE n # 0
      <4>1. level[0].next # 0 /\ level[0].next \in recs /\ new[0].next = level[0].next
        BY <1>7, <2>7, <2>8, <3>2
      <4>2. level[level[0].next].key <= level[n].key
        BY <2>7, <2>8, <3>2, <4>1
      <4>3. level[level[0].next].key \in Nat /\ level[n].key \in Nat
        BY <2>1, <2>7, <3>2, <4>1
      <4>4. level[level[0].next].key < key
        BY <2>7, <3>2, <4>2, <4>3
      <4> QED BY <2>3, <2>8, <4>1, <4>3, <4>4
    <3> QED BY <3>1, <3>2
  <2>12. ASSUME NEW m \in R
         PROVE  LET next == new[m].next IN
                IF next = 0 THEN \A x \in R : k[x] <= k[m]
                ELSE /\ next \in R /\ k[m] < k[next]
                     /\ \A x \in R : k[x] <= k[m] \/ k[next] <= k[x]
    <3>1. CASE m = f
      <4>1. new[m].next = level[n].next /\ k[m] = key
        BY <1>7, <2>3, <3>1
      <4>2. CASE level[n].next = 0
        <5>1. \A x \in recs : level[x].key < key
          BY <2>1, <2>6, <2>7, <2>8, <2>9, <4>2
        <5> QED BY <2>1, <2>3, <4>1, <4>2, <5>1
      <4>3. CASE level[n].next # 0
        <5>1. PICK y \in recs : /\ y = level[n].next /\ y # 0
                                /\ \A x \in recs : \/ n # 0 /\ level[x].key <= level[n].key
                                                   \/ level[y].key <= level[x].key
          BY <2>7, <2>8, <2>9, <4>3
        <5>2. key < level[y].key
          <6>1. n # 0 => level[n].key < level[y].key
            BY <2>7, <2>9, <5>1
          <6>2. level[y].key \in Nat /\ (n # 0 => level[n].key \in Nat)
            BY <2>1, <2>7
          <6> QED BY <2>6, <6>1, <6>2
        <5>3. \A x \in recs : level[x].key <= key \/ level[y].key <= level[x].key
          BY <2>1, <2>7, <5>1
        <5> QED BY <2>1, <2>3, <4>1, <5>1, <5>2, <5>3
      <4> QED BY <4>2, <4>3
    <3>2. CASE m \in recs /\ m = n
      <4>1. new[m].next = f /\ k[m] = level[m].key /\ k[m] < key
        BY <1>1, <1>7, <2>3, <2>7, <3>2
      <4>2. \A x \in recs : level[x].key <= level[m].key \/ key <= level[x].key
        BY <2>1, <2>6, <3>2
      <4> QED BY <1>3, <2>1, <2>3, <4>1, <4>2
    <3>3. CASE m \in recs /\ m # n
      <4>1. new[m].next = level[m].next /\ k[m] = level[m].key
        BY <1>7, <2>3, <3>3
      <4>2. CASE level[m].next = 0
        <5>1. \A x \in recs : level[x].key <= level[m].key
          BY <2>9, <3>3, <4>2
        <5>2. key < level[m].key
          BY <2>1, <2>4, <2>6, <2>7, <3>3, <5>1
        <5> QED BY <2>1, <2>3, <3>3, <4>1, <4>2, <5>1, <5>2
      <4>3. CASE level[m].next # 0
        <5>1. PICK y \in recs : /\ y = level[m].next /\ y # 0 /\ level[m].key < level[y].key
                                /\ \A x \in recs : level[x].key <= level[m].key \/ level[y].key <= level[x].key
          BY <2>9, <3>3, <4>3
        <5>2. key <= level[m].key \/ level[y].key <= key
          <6>1. CASE key < level[m].key
            BY <2>1, <3>3, <6>1
          <6>2. CASE ~ (key < level[m].key)
            <7>1. n # 0 /\ n \in recs /\ level[m].key <= level[n].key /\ level[n].key < key
              BY <2>6, <2>7, <3>3, <6>2
            <7>2. level[m].key < level[n].key
              BY <2>1, <2>4, <3>3, <7>1
            <7>3. level[y].key <= level[n].key
              BY <2>1, <3>3, <5>1, <7>1, <7>2
            <7> QED BY <2>1, <5>1, <7>1, <7>3
          <6> QED BY <6>1, <6>2
        <5> QED BY <2>1, <2>3, <3>3, <4>1, <5>1, <5>2
      <4> QED BY <4>2, <4>3
    <3> QED BY <3>1, <3>2, <3>3
  <2> HIDE DEF R
  <2> QED BY <2>3, <2>5, <2>11, <2>12 DEF Linked, k
<1>12. Shape(new, last, R, F, o)
  BY <1>7, <1>8, <1>9, <1>10, <1>11 DEF Shape
<1>13. \E p : Shape(new, last, R, F, p)
  BY <1>12
<1> QED BY <1>3, <1>7, <1>13 DEF new, InsertedInto

\* What changes no key and no link leaves a level well formed.
LEMMA SameLinks ==
  ASSUME NEW level, NEW last, NEW recs, NEW free, NEW ord, Shape(level, last, recs, free, ord),
         NEW new, LevelType(new, last), new[0].bottom = level[0].bottom,
         \A n \in 0 .. last : new[n].key = level[n].key /\ new[n].next = level[n].next
  PROVE  Shape(new, last, recs, free, ord)
<1>1. \A n \in recs \cup free \cup {0} : new[n].key = level[n].key /\ new[n].next = level[n].next
  BY ShapeSets
<1>2. KeyOrder(new, recs) = KeyOrder(level, recs)
  BY <1>1 DEF KeyOrder
<1>3. /\ Linked(level, level[0].next, recs, KeyOrder(level, recs))
      /\ Linked(level, level[0].bottom, free, ord)
  BY DEF Shape
<1>4. Linked(new, new[0].next, recs, KeyOrder(new, recs))
  BY <1>1, <1>2, <1>3 DEF Linked
<1>5. Linked(new, new[0].bottom, free, ord)
  BY <1>1, <1>3 DEF Linked
<1>6. new[0].key = 0
  BY <1>1 DEF Shape
<1> QED BY <1>4, <1>5, <1>6 DEF Shape

Popped(level) ==
  LET n == level[0].next
  IN  [level EXCEPT ![0] = [@ EXCEPT !.next = level[n].next, !.bottom = n],
                    ![n].next = level[0].bottom]

\* pop_lvl_0 makes a free node of the record with the least key.
LEMMA PoppedIs ==
  ASSUME NEW level, NEW last, NEW recs, NEW free, NEW ord, Shape(level, last, recs, free, ord),
         level[0].next # 0
  PROVE  LET n   == level[0].next
             new == Popped(level)
         IN  /\ n \in recs /\ \A m \in recs : level[n].key <= level[m].key
             /\ \E o : Shape(new, last, recs \ {n}, free \cup {n}, o)
             /\ \A m \in 1 .. last : /\ new[m].key = level[m].key /\ new[m].bottom = level[m].bottom
                                     /\ new[m].idx = level[m].idx
<1> DEFINE n   == level[0].next
           f   == level[0].bottom
           new == Popped(level)
           R   == recs \ {n}
           F   == free \cup {n}
           least == IF free = {} THEN 0 ELSE ord[f] - 1
           o   == [m \in F |-> IF m = n THEN least ELSE ord[m]]
<1>1. /\ last \in Nat /\ DOMAIN level = 0 .. last /\ recs \subseteq 1 .. last /\ free \subseteq 1 .. last
      /\ 0 \in 0 .. last /\ 0 \notin recs /\ 0 \notin free
      /\ \A m \in 1 .. last : m \in 0 .. last /\ m # 0
      /\ \A m \in 0 .. last : m # 0 => m \in 1 .. last
  BY ShapeSets
<1>2. /\ level \in [0 .. last -> LevelNode(last)] /\ LevelType(level, last)
      /\ level[0].key = 0 /\ Linked(level, n, recs, KeyOrder(level, recs))
      /\ Linked(level, f, free, ord) /\ recs \cap free = {} /\ recs \cup free = (0 .. last) \ {0}
  BY DEF Shape, LevelType, LevelNode
<1>3. /\ n \in recs /\ n # 0 /\ n \in 0 .. last /\ n \in 1 .. last /\ n \notin free
      /\ \A m \in recs : level[n].key <= level[m].key
  BY <1>1, <1>2 DEF Linked, KeyOrder
<1>4. \A m \in 0 .. last : level[m] \in LevelNode(last)
  BY <1>2, NodesOf
<1>5. \A m \in recs : level[m].key \in Nat
  BY <1>1, <1>4, NodeFields
<1>6. /\ new[0] = [key |-> 0, idx |-> level[0].idx, next |-> level[n].next, bottom |-> n]
      /\ new[n] = [key |-> level[n].key, idx |-> level[n].idx, next |-> f, bottom |-> level[n].bottom]
      /\ \A m \in 1 .. last : m # n => new[m] = level[m]
      /\ new = [m \in 0 .. last |-> new[m]]
  <2>1. PICK r, q : r = level[0] /\ q = level[n]
    OBVIOUS
  <2>2. /\ r = [key |-> 0, idx |-> r.idx, next |-> r.next, bottom |-> r.bottom]
        /\ q = [key |-> q.key, idx |-> q.idx, next |-> q.next, bottom |-> q.bottom]
    BY <1>1, <1>2, <1>3, <1>4, <2>1, NodeFields
  <2> DEFINE x == [r EXCEPT !.next = q.next, !.bottom = n]
  <2>3. x = [key |-> 0, idx |-> r.idx, next |-> q.next, bottom |-> n]
    <3>1. PICK y, z : y = n /\ z = q.next
      OBVIOUS
    <3>2. [r EXCEPT !.next = z] = [key |-> 0, idx |-> r.idx, next |-> z, bottom |-> r.bottom]
      BY <2>2
    <3>3. PICK s : s = [r EXCEPT !.next = z]
      OBVIOUS
    <3>4. [s EXCEPT !.bottom = y] = [key |-> 0, idx |-> r.idx, next |-> z, bottom |-> y]
      <4>1. s = [key |-> 0, idx |-> r.idx, next |-> z, bottom |-> r.bottom]
        BY <3>2, <3>3
      <4>2. /\ s = [key |-> s.key, idx |-> s.idx, next |-> s.next, bottom |-> s.bottom]
            /\ s.key = 0 /\ s.idx = r.idx /\ s.next = z
        BY <4>1
      <4>3. [s EXCEPT !.bottom = y] = [key |-> s.key, idx |-> s.idx, next |-> s.next, bottom |-> y]
        BY <4>2
      <4> QED BY <4>2, <4>3
    <3>5. [r EXCEPT !.next = z, !.bottom = y] = [s EXCEPT !.bottom = y]
      BY <3>3
    <3> QED BY <3>1, <3>4, <3>5
  <2>4. [q EXCEPT !.next = f] = [key |-> q.key, idx |-> q.idx, next |-> f, bottom |-> q.bottom]
    <3> HIDE DEF f
    <3> QED BY <2>2
  <2>5. new = [level EXCEPT ![0] = x, ![n].next = f]
    BY <2>1 DEF Popped
  <2> HIDE DEF x, new, n, f
  <2>6. /\ new[0] = x /\ new[n] = [level[n] EXCEPT !.next = f]
        /\ \A m \in 1 .. last : m # n => new[m] = level[m]
        /\ new = [m \in 0 .. last |-> new[m]]
    BY <1>1, <1>2, <1>3, <2>5
  <2> QED BY <2>1, <2>3, <2>4, <2>6
<1> HIDE DEF new, o, least
<1>7. /\ new[0].key = 0 /\ new[0].next = level[n].next /\ new[0].bottom = n
      /\ \A m \in 1 .. last : /\ new[m].key = level[m].key /\ new[m].bottom = level[m].bottom
                              /\ new[m].idx = level[m].idx
                              /\ new[m].next = IF m = n THEN f ELSE level[m].next
  <2>1. new[0].key = 0 /\ new[0].next = level[n].next /\ new[0].bottom = n
    BY <1>6
  <2>2. /\ new[n].key = level[n].key /\ new[n].idx = level[n].idx
        /\ new[n].next = f /\ new[n].bottom = level[n].bottom
    BY <1>6
  <2> HIDE DEF n, f
  <2> QED BY <1>6, <2>1, <2>2
<1>8. LevelType(new, last)
  <2>1. \A m \in 0 .. last : level[m].next \in 0 .. last
    BY <1>4, NodeFields
  <2>2. f \in 0 .. last
    BY <1>1, <1>2 DEF Linked
  <2>3. new[0] \in LevelNode(last)
    <3>1. level[0].idx \in SUBSET (0 .. 31) /\ level[n].next \in 0 .. last /\ n \in Nat
      <4>1. n \in Nat
        BY <1>1, <1>3
      <4> HIDE DEF n
      <4> QED BY <1>1, <1>3, <1>4, <2>1, <4>1, NodeFields
    <3> HIDE DEF n
    <3>2. 0 \in Nat
      OBVIOUS
    <3> QED BY <1>6, <3>1, <3>2, NodeWith
  <2>4. new[n] \in LevelNode(last)
    <3>1. level[n].key \in Nat /\ level[n].idx \in SUBSET (0 .. 31) /\ level[n].bottom \in Nat
      BY <1>3, <1>4, NodeFields
    <3> HIDE DEF n, f
    <3> QED BY <1>6, <2>2, <3>1, NodeWith
  <2>5. \A m \in 0 .. last : new[m] \in LevelNode(last)
    <3> HIDE DEF n
    <3> QED BY <1>1, <1>4, <1>6, <2>3, <2>4
  <2>6. new \in [0 .. last -> LevelNode(last)]
    BY <1>6, <2>5
  <2> QED BY <1>1, <2>6 DEF LevelType, LevelNode
<1>9. R \cap F = {} /\ R \cup F = (0 .. last) \ {0}
  BY <1>2, <1>3
<1>10. Linked(new, new[0].next, R, KeyOrder(new, R))
  <2>1. /\ KeyOrder(new, R) \in [R -> Int]
        /\ \A m \in R : KeyOrder(new, R)[m] = level[m].key
    <3>1. \A m \in R : new[m].key = level[m].key /\ new[m].key \in Int
      <4> HIDE DEF n
      <4> QED BY <1>1, <1>5, <1>7
    <3> HIDE DEF R
    <3> QED BY <3>1 DEF KeyOrder
  <2>2. \A m, x \in recs : level[m].key = level[x].key => m = x
    BY <1>2 DEF Linked, KeyOrder
  <2>3. \A m \in recs :
          /\ level[m].next = 0 => \A x \in recs : level[x].key <= level[m].key
          /\ level[m].next # 0 =>
               /\ level[m].next \in recs /\ level[m].key < level[level[m].next].key
               /\ \A x \in recs : level[x].key <= level[m].key \/ level[level[m].next].key <= level[x].key
    BY <1>2 DEF Linked, KeyOrder
  <2>4. IF level[n].next = 0 THEN R = {}
        ELSE level[n].next \in R /\ \A m \in R : level[level[n].next].key <= level[m].key
    <3> HIDE DEF n
    <3> QED BY <1>3, <1>5, <2>2, <2>3
  <2>5. ASSUME NEW m \in R
        PROVE  /\ new[m].next = level[m].next
               /\ level[m].next # 0 => level[m].next \in R
    <3> HIDE DEF n
    <3>1. new[m].next = level[m].next
      BY <1>1, <1>7
    <3>2. level[m].next # 0 => level[m].next # n
      BY <1>3, <1>5, <2>3
    <3> QED BY <2>3, <3>1, <3>2
  <2>6. \A m, x \in R : KeyOrder(new, R)[m] = KeyOrder(new, R)[x] => m = x
    BY <2>1, <2>2
  <2>7. IF new[0].next = 0 THEN R = {}
        ELSE new[0].next \in R /\ \A m \in R : KeyOrder(new, R)[new[0].next] <= KeyOrder(new, R)[m]
    BY <1>7, <2>1, <2>4
  <2>8. ASSUME NEW m \in R
        PROVE  LET next == new[m].next IN
               IF next = 0 THEN \A x \in R : KeyOrder(new, R)[x] <= KeyOrder(new, R)[m]
               ELSE /\ next \in R /\ KeyOrder(new, R)[m] < KeyOrder(new, R)[next]
                    /\ \A x \in R : KeyOrder(new, R)[x] <= KeyOrder(new, R)[m]
                                    \/ KeyOrder(new, R)[next] <= KeyOrder(new, R)[x]
    BY <2>1, <2>3, <2>5
  <2> HIDE DEF R
  <2> QED BY <2>1, <2>6, <2>7, <2>8 DEF Linked
<1>11. Linked(new, new[0].bottom, F, o)
  <2> DEFINE a == least
  <2>1. /\ ord \in [free -> Int] /\ \A m \in free : ord[m] \in Int
        /\ \A m, x \in free : ord[m] = ord[x] => m = x
        /\ IF f = 0 THEN free = {} ELSE f \in free /\ \A m \in free : ord[f] <= ord[m]
    BY <1>2 DEF Linked
  <2>2. least \in Int /\ (\A m \in free : least < ord[m])
    BY <2>1 DEF least
  <2>3. o \in [F -> Int] /\ o[n] = least /\ \A m \in free : o[m] = ord[m]
    <3> HIDE DEF n
    <3> QED BY <1>3, <2>1, <2>2 DEF o
  <2>4. \A m, x \in F : o[m] = o[x] => m = x
    <3> HIDE DEF n
    <3> QED BY <2>1, <2>2, <2>3
  <2>5. \A m \in F : o[n] <= o[m]
    <3> HIDE DEF n
    <3> QED BY <2>1, <2>2, <2>3
  <2>6. \A m \in free :
          /\ new[m].next = level[m].next
          /\ level[m].next = 0 => \A x \in free : ord[x] <= ord[m]
          /\ level[m].next # 0 => /\ level[m].next \in free /\ ord[m] < ord[level[m].next]
                                  /\ \A x \in free : ord[x] <= ord[m] \/ ord[level[m].next] <= ord[x]
    <3>1. \A m \in free : new[m].next = level[m].next
      <4> HIDE DEF n
      <4> QED BY <1>1, <1>3, <1>7
    <3> QED BY <1>2, <3>1 DEF Linked
  <2>7. new[n].next = f
    BY <1>3, <1>7
  <2>8. ASSUME NEW m \in F
        PROVE  LET next == new[m].next IN
               IF next = 0 THEN \A x \in F : o[x] <= o[m]
               ELSE /\ next \in F /\ o[m] < o[next]
                    /\ \A x \in F : o[x] <= o[m] \/ o[next] <= o[x]
    <3> HIDE DEF n, f
    <3>1. CASE m = n
      BY <2>1, <2>2, <2>3, <2>7, <3>1
    <3>2. CASE m \in free
      BY <2>1, <2>2, <2>3, <2>6, <3>2
    <3> QED BY <3>1, <3>2
  <2>9. n \in F /\ new[0].bottom = n /\ n # 0
    BY <1>3, <1>7
  <2> HIDE DEF F, n
  <2> QED BY <2>3, <2>4, <2>5, <2>8, <2>9 DEF Linked
<1>12. Shape(new, last, R, F, o)
  BY <1>7, <1>8, <1>9, <1>10, <1>11 DEF Shape
<1> QED BY <1>3, <1>7, <1>12 DEF new

-----------------------------------------------------------------------------
(* The operations on a list                                                *)

\* What a shape says of Records, Free and the size of a level.
LEMMA GoodLevelOf ==
  ASSUME NEW level, NEW last, NEW recs, NEW free, NEW ord, Shape(level, last, recs, free, ord)
  PROVE  /\ GoodLevel(level) /\ Records(level) = recs /\ Free(level) = free
         /\ IsFiniteSet(recs) /\ IsFiniteSet(free)
         /\ Cardinality(recs) \in Nat /\ Cardinality(free) \in Nat
         /\ Cardinality(recs) + Cardinality(free) = last /\ Cardinality(DOMAIN level) = last + 1
<1>1. /\ Records(level) = recs /\ Free(level) = free
  BY ChainsAre
<1>2. GoodLevel(level)
  BY DEF GoodLevel
<1>3. PICK k \in Nat : Shape(level, k, recs, free, ord) /\ k = last /\ DOMAIN level = 0 .. k
  BY ShapeSets
<1>4. Cardinality(0 .. k) = k + 1
  BY FS_Interval
<1> QED BY <1>1, <1>2, <1>3, <1>4, ShapeSets

\* The first free node of level has joined the records.
LevelGrown(level, key, w, below, nodes, capacity) ==
  LET f == level[0].bottom
  IN  /\ GoodLevel(nodes) /\ f \notin Records(level) /\ f \in Nat
      /\ Records(nodes) = Records(level) \cup {f}
      /\ nodes[f].key = key /\ nodes[f].bottom = below /\ nodes[f].idx = w
      /\ \A m \in Records(level) :
           /\ nodes[m].key = level[m].key /\ nodes[m].bottom = level[m].bottom
           /\ nodes[m].idx = level[m].idx
      /\ capacity \in Nat \ {0} /\ capacity = Cardinality(Free(nodes))

\* An insertion, with the growth that may follow, keeps a level and its counter.
LEMMA LevelInsert ==
  ASSUME NEW level, GoodLevel(level), NEW cap \in Nat \ {0}, cap = Cardinality(Free(level)),
         NEW key \in Nat, NEW n, LastUpTo(level, Records(level), key, n),
         \A m \in Records(level) : level[m].key # key,
         NEW w \in SUBSET (0 .. 31), NEW below \in Nat, NEW new,
         new = Resized(Inserted(level, n, key, w, below), cap - 1)
  PROVE  LevelGrown(level, key, w, below, new.nodes, new.capacity)
<1> DEFINE f   == level[0].bottom
           ins == Inserted(level, n, key, w, below)
           recs == Records(level)
           free == Free(level)
<1>1. PICK last, ord : last \in Nat /\ Shape(level, last, recs, free, ord)
  BY GoodLevelIs
<1>2. free # {}
  BY FS_EmptySet
<1> DEFINE R == recs \cup {f}
           F == free \ {f}
<1> HIDE DEF ins
<1>3. /\ f \in free
      /\ \E o : Shape(ins, last, R, F, o)
      /\ ins[f].key = key /\ ins[f].bottom = below /\ ins[f].idx = w
      /\ \A m \in recs : /\ ins[m].key = level[m].key /\ ins[m].bottom = level[m].bottom
                         /\ ins[m].idx = level[m].idx
  <2>1. \A m \in recs : level[m].key # key
    OBVIOUS
  <2>2. LastUpTo(level, recs, key, n)
    OBVIOUS
  <2> HIDE DEF recs, free
  <2>3. InsertedInto(level, last, recs, free, key, w, below, f, ins)
    BY <1>1, <1>2, <2>1, <2>2, InsertedIs DEF ins
  <2> QED BY <2>3 DEF InsertedInto
<1>4. PICK o : Shape(ins, last, R, F, o)
  BY <1>3
<1>5. f \notin recs /\ f \in Nat
  <2>1. recs \cap free = {} /\ free \subseteq 1 .. last
    BY <1>1, ShapeSets DEF Shape
  <2> QED BY <1>3, <2>1
<1>6. Cardinality(F) = cap - 1
  <2>1. IsFiniteSet(free)
    BY <1>1, ShapeSets
  <2> QED BY <1>3, <2>1, FS_RemoveElement
<1>7. CASE cap - 1 > 0
  <2>1. new.nodes = ins /\ new.capacity = cap - 1
    BY <1>7 DEF Resized, ins
  <2>2. GoodLevel(ins) /\ Records(ins) = R /\ Free(ins) = F
    BY <1>4, GoodLevelOf
  <2>3. cap - 1 \in Nat \ {0}
    BY <1>7
  <2> HIDE DEF F
  <2> QED BY <1>3, <1>5, <1>6, <2>1, <2>2, <2>3 DEF LevelGrown
<1>8. CASE ~ (cap - 1 > 0)
  <2>1. F = {}
    <3>1. Cardinality(F) = 0 /\ IsFiniteSet(F)
      BY <1>4, <1>6, <1>8, ShapeSets
    <3> HIDE DEF F
    <3> QED BY <3>1, FS_EmptySet
  <2>2. DOMAIN ins = 0 .. last /\ Cardinality(DOMAIN ins) = last + 1
    BY <1>4, ShapeSets, GoodLevelOf
  <2> DEFINE size == last + 1
             newlast == 2 * size - 1
             ext == Extended(ins, size, newlast)
  <2>3. new.nodes = ext /\ new.capacity = size
    BY <1>8, <2>2 DEF Resized, ins
  <2>4. newlast \in Nat /\ newlast > last /\ size = last + 1
    BY <1>1
  <2>5. Shape(ins, last, R, {}, o)
    BY <1>4, <2>1
  <2> HIDE DEF size, newlast, R
  <2>6. /\ \E p : Shape(ext, newlast, R, size .. newlast, p)
        /\ \A m \in R : ext[m] = ins[m]
    BY <2>4, <2>5, ExtendedIs
  <2>7. GoodLevel(ext) /\ Records(ext) = R /\ Free(ext) = size .. newlast
    BY <2>6, GoodLevelOf
  <2>8. Cardinality(size .. newlast) = size /\ size \in Nat \ {0}
    <3>1. size \in Nat \ {0} /\ newlast \in Nat /\ newlast - size + 1 = size /\ size <= newlast
      BY <1>1 DEF size, newlast
    <3>2. PICK a \in Nat, b \in Nat : a = size /\ b = newlast
      BY <3>1
    <3>3. Cardinality(a .. b) = b - a + 1
      BY <3>1, <3>2, FS_Interval
    <3> QED BY <3>1, <3>2, <3>3
  <2>9. f \in R /\ recs \subseteq R
    BY DEF R
  <2>10. /\ ext[f].key = key /\ ext[f].bottom = below /\ ext[f].idx = w
         /\ \A m \in recs : /\ ext[m].key = level[m].key /\ ext[m].bottom = level[m].bottom
                            /\ ext[m].idx = level[m].idx
    BY <1>3, <2>6, <2>9
  <2> HIDE DEF ext
  <2> QED BY <1>5, <2>3, <2>7, <2>8, <2>10 DEF R, LevelGrown
<1> QED BY <1>7, <1>8

\* The capacity of a level is the number of its free nodes, but for the nodes
\* that pops have given to level 0.
Fits(l, popped) ==
  \A i \in Levels :
    /\ l.sk_capacity[i] \in Nat \ {0}
    /\ Cardinality(Free(l.sk_data[i])) = l.sk_capacity[i] + IF i = 0 THEN popped ELSE 0

\* A list in which the key has a node more.
Grown(l, key, w, new, f) ==
  /\ f \in Nat /\ f \notin Records(l.sk_data[0])
  /\ Records(new.sk_data[0]) = Records(l.sk_data[0]) \cup {f}
  /\ new.sk_data[0][f].key = key /\ new.sk_data[0][f].idx = w
  /\ \A m \in Records(l.sk_data[0]) : /\ new.sk_data[0][m].key = l.sk_data[0][m].key
                                      /\ new.sk_data[0][m].idx = l.sk_data[0][m].idx

\* The first free node is there.
LEMMA FreeOfLevel ==
  ASSUME NEW level, GoodLevel(level), Cardinality(Free(level)) \in Nat \ {0}
  PROVE  level[0].bottom \in Free(level) /\ level[0].bottom \in 0 .. Cardinality(DOMAIN level) - 1
         /\ level[0].bottom \in DOMAIN level /\ level[level[0].bottom].bottom \in Nat
<1>1. PICK last, ord : /\ last \in Nat /\ Shape(level, last, Records(level), Free(level), ord)
                               /\ last = Cardinality(DOMAIN level) - 1
  BY GoodLevelIs
<1>2. Free(level) # {}
  BY FS_EmptySet
<1>3. level[0].bottom \in Free(level)
  BY <1>1, <1>2 DEF Shape, Linked
<1>4. level[0].bottom \in 0 .. last /\ DOMAIN level = 0 .. last
  BY <1>1, <1>3, ShapeSets
<1>5. level[level[0].bottom] \in LevelNode(last)
  BY <1>1, <1>4, NodesOf DEF Shape
<1> QED BY <1>1, <1>3, <1>4, <1>5, NodeFields

\* Insert gives a list the key, on level 0 and as many as its height, and keeps it.
LEMMA InsertIs ==
  ASSUME NEW l, GoodList(l), Fits(l, 0), NEW key \in Nat, \A n : ~ Holds(l, key, n),
         NEW w \in SUBSET (0 .. 31), NEW height \in 1 .. SKIP_LIST_MAX_HEIGHT
  PROVE  LET new == Insert(l, key, w, height)
         IN  GoodList(new) /\ Fits(new, 0) /\ \E f : Grown(l, key, w, new, f)
<1> DEFINE new == Insert(l, key, w, height)
           trace == Trace(l, key)
           after(i) == IF i \in DOMAIN trace THEN trace[i] ELSE 0
           step(i) == Resized(Inserted(l.sk_data[i], after(i), key, w, NodeBelow(l, i)),
                              l.sk_capacity[i] - 1)
           f(i) == l.sk_data[i][0].bottom
<1>1. \A i \in Levels : GoodLevel(l.sk_data[i])
  BY DEF GoodList, HasLevels
<1>2. ASSUME NEW i \in Levels
      PROVE  LastUpTo(l.sk_data[i], Records(l.sk_data[i]), key, after(i))
  <2>1. /\ DOMAIN trace = 0 .. HighestLevel(l)
        /\ \A j \in 0 .. HighestLevel(l) :
             LastUpTo(l.sk_data[j], Records(l.sk_data[j]), key, trace[j])
        /\ \A j \in Levels : j \notin 0 .. HighestLevel(l) => Records(l.sk_data[j]) = {}
    BY TraceIs, HighestIs
  <2> HIDE DEF trace
  <2>2. CASE i \in DOMAIN trace
    BY <2>1, <2>2
  <2>3. CASE i \notin DOMAIN trace
    BY <2>1, <2>3 DEF LastUpTo
  <2> QED BY <2>2, <2>3
<1>3. ASSUME NEW i \in Levels, NEW m \in Records(l.sk_data[i]), l.sk_data[i][m].key = key
      PROVE  FALSE
  <2>1. 0 \in 0 .. i
    BY LevelsAre
  <2>2. \E x \in Records(l.sk_data[0]) : l.sk_data[0][x].key = key
    BY <1>3, <2>1, KeysNest
  <2> QED BY <2>2 DEF Holds
<1>4. \A i \in Levels : /\ l.sk_capacity[i] \in Nat \ {0}
                        /\ l.sk_capacity[i] = Cardinality(Free(l.sk_data[i]))
                        /\ Cardinality(Free(l.sk_data[i])) \in Nat \ {0}
  BY DEF Fits
<1>5. \A i \in Levels : f(i) \in Nat /\ l.sk_data[i][f(i)].bottom \in Nat
  <2>1. SUFFICES ASSUME NEW i \in Levels PROVE f(i) \in Nat /\ l.sk_data[i][f(i)].bottom \in Nat
    OBVIOUS
  <2>2. GoodLevel(l.sk_data[i]) /\ Cardinality(Free(l.sk_data[i])) \in Nat \ {0}
    BY <1>1, <1>4
  <2>3. l.sk_data[i][0].bottom \in 0 .. Cardinality(DOMAIN l.sk_data[i]) - 1
        /\ l.sk_data[i][l.sk_data[i][0].bottom].bottom \in Nat
    BY <2>2, FreeOfLevel
  <2> QED BY <2>3
<1>6. \A i \in Levels : /\ NodeBelow(l, i) \in Nat
                        /\ i # 0 => NodeBelow(l, i) = f(i - 1)
  BY <1>5, LevelsAre DEF NodeBelow
<1> HIDE DEF after, f
<1>7. ASSUME NEW i \in Levels
      PROVE  /\ GoodLevel(step(i).nodes) /\ f(i) \notin Records(l.sk_data[i]) /\ f(i) \in Nat
             /\ Records(step(i).nodes) = Records(l.sk_data[i]) \cup {f(i)}
             /\ step(i).nodes[f(i)].key = key /\ step(i).nodes[f(i)].bottom = NodeBelow(l, i)
             /\ step(i).nodes[f(i)].idx = w
             /\ \A m \in Records(l.sk_data[i]) :
                  /\ step(i).nodes[m].key = l.sk_data[i][m].key
                  /\ step(i).nodes[m].bottom = l.sk_data[i][m].bottom
                  /\ step(i).nodes[m].idx = l.sk_data[i][m].idx
             /\ step(i).capacity \in Nat \ {0} /\ step(i).capacity = Cardinality(Free(step(i).nodes))
  <2>1. PICK level, cap, n, below :
           /\ level = l.sk_data[i] /\ cap = l.sk_capacity[i] /\ n = after(i) /\ below = NodeBelow(l, i)
    OBVIOUS
  <2>2. /\ GoodLevel(level) /\ cap \in Nat \ {0} /\ cap = Cardinality(Free(level))
        /\ LastUpTo(level, Records(level), key, n) /\ below \in Nat
        /\ \A m \in Records(level) : level[m].key # key
    BY <1>1, <1>2, <1>3, <1>4, <1>6, <2>1
  <2>3. PICK s : s = Resized(Inserted(level, n, key, w, below), cap - 1)
    OBVIOUS
  <2>4. LevelGrown(level, key, w, below, s.nodes, s.capacity)
    BY <2>2, <2>3, LevelInsert
  <2> QED BY <2>1, <2>3, <2>4 DEF f, LevelGrown
<1> DEFINE levelOf(i) == IF i >= height THEN l.sk_data[i] ELSE step(i).nodes
           capOf(i)  == IF i >= height THEN l.sk_capacity[i] ELSE step(i).capacity
<1>8. new = [sk_data |-> [i \in Levels |-> levelOf(i)], sk_capacity |-> [i \in Levels |-> capOf(i)]]
  <2> DEFINE level(i) == IF i >= height THEN [nodes |-> l.sk_data[i], capacity |-> l.sk_capacity[i]]
                         ELSE step(i)
  <2>1. new = [sk_data |-> [i \in Levels |-> level(i).nodes],
               sk_capacity |-> [i \in Levels |-> level(i).capacity]]
    BY DEF Insert, after
  <2>2. \A i \in Levels : level(i).nodes = levelOf(i) /\ level(i).capacity = capOf(i)
    <3> HIDE DEF step
    <3> QED OBVIOUS
  <2> HIDE DEF level, levelOf, capOf, new
  <2> QED BY <2>1, <2>2
<1> HIDE DEF step, new
<1>9. \A i \in Levels : /\ new.sk_data[i] = levelOf(i) /\ new.sk_capacity[i] = capOf(i)
                        /\ i >= height => levelOf(i) = l.sk_data[i] /\ capOf(i) = l.sk_capacity[i]
                        /\ ~ (i >= height) => levelOf(i) = step(i).nodes /\ capOf(i) = step(i).capacity
  BY <1>8
<1>10. HasLevels(new)
  <2>1. /\ new = [sk_data |-> new.sk_data, sk_capacity |-> new.sk_capacity]
        /\ new.sk_data = [i \in Levels |-> new.sk_data[i]]
        /\ new.sk_capacity = [i \in Levels |-> new.sk_capacity[i]]
    <3> HIDE DEF levelOf, capOf
    <3> QED BY <1>8
  <2>2. \A i \in Levels : GoodLevel(new.sk_data[i])
    <3> HIDE DEF levelOf, capOf
    <3> QED BY <1>1, <1>7, <1>9
  <2> QED BY <2>1, <2>2 DEF HasLevels
<1> HIDE DEF levelOf, capOf
<1>11. Nested(new)
  <2>1. SUFFICES ASSUME NEW i \in Levels \ {0}, NEW n \in Records(new.sk_data[i])
                 PROVE  LET b == new.sk_data[i][n].bottom
                        IN  /\ b \in Records(new.sk_data[i - 1])
                            /\ new.sk_data[i - 1][b].key = new.sk_data[i][n].key
    BY DEF Nested
  <2>2. /\ i \in Levels /\ i - 1 \in Levels /\ i \in Nat /\ height \in Nat
        /\ i - 1 >= height => i >= height
    <3>1. i \in Levels /\ i - 1 \in Levels /\ i \in Nat
      BY LevelsAre
    <3>2. height \in Nat
      BY SkipListAssumption
    <3> QED BY <3>1, <3>2
  <2>3. ASSUME NEW m \in Records(l.sk_data[i - 1])
        PROVE  /\ m \in Records(new.sk_data[i - 1])
               /\ new.sk_data[i - 1][m].key = l.sk_data[i - 1][m].key
    BY <1>7, <1>9, <2>2
  <2>4. CASE n \in Records(l.sk_data[i])
    <3>1. /\ l.sk_data[i][n].bottom \in Records(l.sk_data[i - 1])
          /\ l.sk_data[i - 1][l.sk_data[i][n].bottom].key = l.sk_data[i][n].key
      BY <2>1, <2>4 DEF GoodList, Nested
    <3>2. new.sk_data[i][n].bottom = l.sk_data[i][n].bottom /\ new.sk_data[i][n].key = l.sk_data[i][n].key
      BY <1>7, <1>9, <2>2, <2>4
    <3> QED BY <2>3, <3>1, <3>2
  <2>5. CASE n \notin Records(l.sk_data[i])
    <3>1. ~ (i >= height) /\ n = f(i)
      BY <1>7, <1>9, <2>1, <2>2, <2>5
    <3>2. ~ (i - 1 >= height)
      BY <2>2, <3>1
    <3>3. new.sk_data[i][n].key = key /\ new.sk_data[i][n].bottom = f(i - 1)
      BY <1>6, <1>7, <1>9, <2>1, <2>2, <3>1
    <3>4. f(i - 1) \in Records(new.sk_data[i - 1]) /\ new.sk_data[i - 1][f(i - 1)].key = key
      BY <1>7, <1>9, <2>2, <3>2
    <3> QED BY <3>3, <3>4
  <2> QED BY <2>4, <2>5
<1>12. Fits(new, 0)
  <2>1. \A i \in Levels : /\ new.sk_capacity[i] \in Nat \ {0}
                          /\ Cardinality(Free(new.sk_data[i])) = new.sk_capacity[i]
    BY <1>4, <1>7, <1>9
  <2> QED BY <2>1 DEF Fits
<1>13. Grown(l, key, w, new, f(0))
  <2>1. 0 \in Levels /\ ~ (0 >= height)
    BY LevelsAre
  <2> QED BY <1>7, <1>9, <2>1 DEF Grown
<1> QED BY <1>10, <1>11, <1>12, <1>13 DEF GoodList, new

\* The setters give words of 32 bits.
LEMMA WordsAreWords ==
  ASSUME NEW w \in SUBSET (0 .. 31), NEW n
  PROVE  /\ SetFid(w, n) \in SUBSET (0 .. 31) /\ SetIdx(w, n) \in SUBSET (0 .. 31)
         /\ SetInFile(w) \in SUBSET (0 .. 31) /\ SetInHash(w) \in SUBSET (0 .. 31)
         /\ NewIndex \in SUBSET (0 .. 31)
<1>1. Bits(n) \in SUBSET (0 .. 30)
  BY BitsAre
<1>2. \A b \in Bits(n) : b \in 0 .. 31
  BY <1>1
<1>3. \A b \in 0 .. 19 : b + 12 \in 0 .. 31
  OBVIOUS
<1>4. SetFid(w, n) \in SUBSET (0 .. 31)
  BY <1>2 DEF SetFid
<1>5. SetIdx(w, n) \in SUBSET (0 .. 31)
  BY <1>3 DEF SetIdx
<1>6. SetInFile(w) \in SUBSET (0 .. 31) /\ SetInHash(w) \in SUBSET (0 .. 31)
  BY DEF SetInFile, SetInHash, InFileBit, InHashBit
<1> QED BY <1>4, <1>5, <1>6 DEF NewIndex

\* The node that is written to has the key and the word; other keys keep theirs.
Written(l, key, word, new) ==
  /\ \E n : Holds(new, key, n) /\ Word(new, n) = word
  /\ \A n : Holds(l, key, n) => Holds(new, key, n)
  /\ \A k, n : k # key => /\ Holds(new, k, n) <=> Holds(l, k, n)
                          /\ Holds(l, k, n) => Word(new, n) = Word(l, n)

Overwritten(l, n, word) == [l EXCEPT !.sk_data[0][n].idx = word]

\* An overwrite changes the word of its key only.
LEMMA OverwrittenIs ==
  ASSUME NEW l, GoodList(l), Fits(l, 0), NEW n \in Records(l.sk_data[0]),
         NEW word \in SUBSET (0 .. 31), NEW key, l.sk_data[0][n].key = key
  PROVE  LET new == Overwritten(l, n, word)
         IN  GoodList(new) /\ Fits(new, 0) /\ Written(l, key, word, new)
<1> DEFINE new == Overwritten(l, n, word)
           level == l.sk_data[0]
           low == [level EXCEPT ![n].idx = word]
           recs == Records(level)
           free == Free(level)
<1>1. 0 \in Levels /\ GoodLevel(level)
  BY LevelsAre DEF GoodList, HasLevels
<1>2. PICK last, ord : last \in Nat /\ Shape(level, last, recs, free, ord)
  BY <1>1, GoodLevelIs
<1>3. /\ DOMAIN level = 0 .. last /\ n \in 0 .. last /\ n # 0 /\ recs \subseteq 0 .. last
      /\ \A m \in 0 .. last : level[m] \in LevelNode(last)
      /\ level = [m \in 0 .. last |-> level[m]] /\ 0 \in 0 .. last
  <2>1. DOMAIN level = 0 .. last /\ recs \subseteq 1 .. last /\ 0 \in 0 .. last
    BY <1>2, ShapeSets
  <2>2. \A m \in 1 .. last : m \in 0 .. last /\ m # 0
    OBVIOUS
  <2>3. LevelType(level, last)
    BY <1>2 DEF Shape
  <2>4. level = [m \in 0 .. last |-> level[m]]
    BY <2>3 DEF LevelType
  <2> QED BY <2>1, <2>2, <2>3, <2>4, NodesOf
<1>4. /\ low = [m \in 0 .. last |-> low[m]] /\ DOMAIN low = 0 .. last
      /\ low[n] = [key |-> level[n].key, idx |-> word, next |-> level[n].next,
                   bottom |-> level[n].bottom]
      /\ \A m \in 0 .. last : m # n => low[m] = level[m]
  <2> DEFINE r == level[n]
  <2>1. r = [key |-> r.key, idx |-> r.idx, next |-> r.next, bottom |-> r.bottom]
    BY <1>3, NodeFields
  <2>2. low[n] = [r EXCEPT !.idx = word]
    BY <1>3
  <2> HIDE DEF r
  <2>3. [r EXCEPT !.idx = word] = [key |-> r.key, idx |-> word, next |-> r.next, bottom |-> r.bottom]
    BY <2>1
  <2>4. /\ low = [m \in 0 .. last |-> low[m]] /\ DOMAIN low = 0 .. last
        /\ \A m \in 0 .. last : m # n => low[m] = level[m]
    BY <1>3
  <2> HIDE DEF low
  <2> QED BY <2>2, <2>3, <2>4 DEF r
<1>5. /\ new = [sk_data |-> [l.sk_data EXCEPT ![0] = low], sk_capacity |-> l.sk_capacity]
      /\ \A i \in Levels : new.sk_data[i] = IF i = 0 THEN low ELSE l.sk_data[i]
      /\ new.sk_data = [i \in Levels |-> new.sk_data[i]]
      /\ new.sk_capacity = l.sk_capacity
  <2>1. PICK d, c : l = [sk_data |-> d, sk_capacity |-> c] /\ d = [i \in Levels |-> d[i]]
    BY DEF GoodList, HasLevels
  <2>2. new = [sk_data |-> [d EXCEPT ![0][n].idx = word], sk_capacity |-> c]
    BY <2>1 DEF Overwritten
  <2>3. [d EXCEPT ![0][n].idx = word] = [d EXCEPT ![0] = low]
    BY <2>1
  <2> HIDE DEF low, new
  <2> QED BY <1>1, <2>1, <2>2, <2>3
<1> HIDE DEF low, new
<1>6. \A m \in 0 .. last : /\ low[m].key = level[m].key /\ low[m].next = level[m].next
                           /\ low[m].bottom = level[m].bottom
                           /\ low[m].idx = IF m = n THEN word ELSE level[m].idx
  <2>1. low[n].key = level[n].key /\ low[n].next = level[n].next /\ low[n].bottom = level[n].bottom
        /\ low[n].idx = word
    BY <1>4
  <2> QED BY <1>4, <2>1
<1>7. LevelType(low, last)
  <2>1. low[n] \in LevelNode(last)
    <3>1. /\ level[n].key \in Nat /\ level[n].next \in 0 .. last /\ level[n].bottom \in Nat
      BY <1>3, NodeFields
    <3>2. [key |-> level[n].key, idx |-> word, next |-> level[n].next, bottom |-> level[n].bottom]
            \in LevelNode(last)
      <4> HIDE DEF level
      <4> QED BY <3>1, NodeWith
    <3> QED BY <1>4, <3>2
  <2>2. \A m \in 0 .. last : low[m] \in LevelNode(last)
    BY <1>3, <1>4, <2>1
  <2>3. low \in [0 .. last -> LevelNode(last)]
    BY <1>4, <2>2
  <2> QED BY <1>2, <2>3 DEF LevelType, LevelNode
<1>8. Shape(low, last, recs, free, ord)
  <2> HIDE DEF level, recs, free
  <2> QED BY <1>2, <1>3, <1>6, <1>7, SameLinks
<1>9. GoodLevel(low) /\ Records(low) = recs /\ Free(low) = free
  BY <1>8, GoodLevelOf
<1>10. HasLevels(new)
  <2>1. \A i \in Levels : GoodLevel(new.sk_data[i])
    BY <1>5, <1>9 DEF GoodList, HasLevels
  <2>2. new = [sk_data |-> new.sk_data, sk_capacity |-> new.sk_capacity]
    BY <1>5
  <2>3. new.sk_capacity = [i \in Levels |-> new.sk_capacity[i]]
    BY <1>5 DEF GoodList, HasLevels
  <2> QED BY <1>5, <2>1, <2>2, <2>3 DEF HasLevels
<1>11. \A i \in Levels : /\ Records(new.sk_data[i]) = Records(l.sk_data[i])
                         /\ Free(new.sk_data[i]) = Free(l.sk_data[i])
                         /\ \A m \in Records(l.sk_data[i]) :
                              /\ new.sk_data[i][m].key = l.sk_data[i][m].key
                              /\ new.sk_data[i][m].bottom = l.sk_data[i][m].bottom
  <2> QED BY <1>3, <1>5, <1>6, <1>9
<1>12. Nested(new)
  <2>1. \A i \in Levels \ {0} : i - 1 \in Levels
    BY LevelsAre
  <2> QED BY <1>11, <2>1 DEF GoodList, Nested
<1>13. Fits(new, 0)
  BY <1>5, <1>11 DEF Fits
<1>14. /\ \A m \in recs : new.sk_data[0][m].key = level[m].key
       /\ \A m \in recs : new.sk_data[0][m].idx = IF m = n THEN word ELSE level[m].idx
       /\ Records(new.sk_data[0]) = recs
  BY <1>1, <1>3, <1>5, <1>6, <1>11
<1>15. Written(l, key, word, new)
  <2>1. \A k, m : Holds(new, k, m) <=> Holds(l, k, m)
    BY <1>14 DEF Holds
  <2>2. Holds(new, key, n) /\ Word(new, n) = word
    BY <1>14 DEF Holds, Word
  <2>3. \A k, m : k # key /\ Holds(l, k, m) => Word(new, m) = Word(l, m)
    BY <1>14 DEF Holds, Word
  <2> QED BY <2>1, <2>2, <2>3 DEF Written
<1> QED BY <1>10, <1>12, <1>13, <1>15 DEF GoodList, new

\* The word that update leaves in the node.
WordOfUpdate(l, key, w) ==
  IF Find(l, key) > 0 THEN SetFid(SetIdx(Word(l, Find(l, key)), GetIdx(w)), ListId) ELSE w

\* The words of records are words.
LEMMA RecordWords ==
  ASSUME NEW level, GoodLevel(level), NEW n \in Records(level)
  PROVE  level[n].idx \in SUBSET (0 .. 31)
<1>1. PICK last, ord : last \in Nat /\ Shape(level, last, Records(level), Free(level), ord)
  BY GoodLevelIs
<1>2. n \in 0 .. last
  BY <1>1, ShapeSets
<1>3. level[n] \in LevelNode(last)
  BY <1>1, <1>2, NodesOf DEF Shape
<1> QED BY <1>3, NodeFields

\* SkipList::update leaves a well-formed list in which the key has its node with
\* the new word, and every other key its old node with the old word.
THEOREM UpdateIs ==
  ASSUME NEW l, GoodList(l), Fits(l, 0), NEW key \in Nat,
         NEW w \in SUBSET (0 .. 31), NEW height \in 1 .. SKIP_LIST_MAX_HEIGHT
  PROVE  LET new == UpdateList(l, key, w, height)
         IN  GoodList(new) /\ Fits(new, 0) /\ Written(l, key, WordOfUpdate(l, key, w), new)
<1> DEFINE n == Find(l, key)
           new == UpdateList(l, key, w, height)
           word == WordOfUpdate(l, key, w)
<1>1. \/ Holds(l, key, n) /\ n \in Nat \ {0}
      \/ n = -1 /\ \A m : ~ Holds(l, key, m)
  BY FindIs
<1>2. CASE Holds(l, key, n) /\ n \in Nat \ {0}
  <2>1. n > 0
    BY <1>2
  <2>2. n \in Records(l.sk_data[0]) /\ l.sk_data[0][n].key = key
    BY <1>2 DEF Holds
  <2>3. GoodLevel(l.sk_data[0])
    BY LevelsAre DEF GoodList, HasLevels
  <2>4. Word(l, n) \in SUBSET (0 .. 31)
    BY <2>2, <2>3, RecordWords DEF Word
  <2>5. word = SetFid(SetIdx(Word(l, n), GetIdx(w)), ListId)
    BY <2>1 DEF WordOfUpdate
  <2>6. word \in SUBSET (0 .. 31)
    <3>1. SetIdx(Word(l, n), GetIdx(w)) \in SUBSET (0 .. 31)
      BY <2>4, WordsAreWords
    <3>2. SetFid(SetIdx(Word(l, n), GetIdx(w)), ListId) \in SUBSET (0 .. 31)
      BY <3>1, WordsAreWords
    <3> QED BY <2>5, <3>2
  <2>7. new = Overwritten(l, n, word)
    <3>1. new = [l EXCEPT !.sk_data[0][n].idx = SetFid(SetIdx(@, GetIdx(w)), ListId)]
      BY <2>1 DEF UpdateList
    <3>2. [l EXCEPT !.sk_data[0][n].idx = SetFid(SetIdx(@, GetIdx(w)), ListId)]
            = [l EXCEPT !.sk_data[0][n].idx = SetFid(SetIdx(l.sk_data[0][n].idx, GetIdx(w)), ListId)]
      OBVIOUS
    <3> QED BY <2>5, <3>1, <3>2 DEF Overwritten, Word
  <2> HIDE DEF n, word, new
  <2>8. GoodList(new) /\ Fits(new, 0) /\ Written(l, key, word, new)
    BY <2>2, <2>6, <2>7, OverwrittenIs
  <2> QED BY <2>8 DEF new, word
<1>3. CASE n = -1 /\ \A m : ~ Holds(l, key, m)
  <2>1. new = Insert(l, key, w, height) /\ word = w
    BY <1>3 DEF UpdateList, WordOfUpdate
  <2> HIDE DEF new, word
  <2>2. GoodList(new) /\ Fits(new, 0) /\ \E f : Grown(l, key, w, new, f)
    BY <1>3, <2>1, InsertIs
  <2>3. PICK f : Grown(l, key, w, new, f)
    BY <2>2
  <2>4. Holds(new, key, f) /\ Word(new, f) = w
    BY <2>3 DEF Grown, Holds, Word
  <2>5. \A k, m : k # key => /\ Holds(new, k, m) <=> Holds(l, k, m)
                             /\ Holds(l, k, m) => Word(new, m) = Word(l, m)
    BY <2>3 DEF Grown, Holds, Word
  <2>6. Written(l, key, word, new)
    BY <1>3, <2>1, <2>4, <2>5 DEF Written
  <2> QED BY <2>2, <2>6 DEF new, word
<1> QED BY <1>1, <1>2, <1>3

\* A new level has no record.
LEMMA NewLevelIs == GoodLevel(NewLevel) /\ Records(NewLevel) = {}
                    /\ Cardinality(Free(NewLevel)) = SKIP_LIST_INIT_CAPACITY - 1
<1> DEFINE one == [n \in {0} |-> NewNode]
           ord == [n \in {} |-> 0]
           last == SKIP_LIST_INIT_CAPACITY - 1
<1>1. NewNode \in LevelNode(0)
  BY DEF NewNode, NewIndex, LevelNode
<1>2. 0 .. 0 = {0} /\ (0 .. 0) \ {0} = {}
  OBVIOUS
<1>3. one[0] = NewNode /\ NewNode.key = 0 /\ NewNode.next = 0 /\ NewNode.bottom = 0
  BY DEF NewNode
<1>4. LevelType(one, 0)
  <2>1. one \in [0 .. 0 -> LevelNode(0)]
    BY <1>1, <1>2
  <2> QED BY <2>1 DEF LevelType, LevelNode
<1>5. Linked(one, 0, {}, KeyOrder(one, {})) /\ Linked(one, 0, {}, ord)
  BY DEF Linked, KeyOrder
<1> HIDE DEF one, ord
<1>6. Shape(one, 0, {}, {}, ord)
  BY <1>2, <1>3, <1>4, <1>5 DEF Shape
<1>7. last \in Nat /\ last > 0 /\ 1 = 0 + 1 /\ NewLevel = Extended(one, 1, last)
  BY SkipListAssumption DEF NewLevel, one
<1> HIDE DEF last
<1>8. \E o : Shape(NewLevel, last, {}, 1 .. last, o)
  BY <1>6, <1>7, ExtendedIs
<1>9. Cardinality(1 .. last) = last
  BY <1>7, FS_Interval
<1> QED BY <1>8, <1>9, GoodLevelOf DEF last

\* A new list is well formed and empty.
LEMMA NewListIs ==
  GoodList(NewList) /\ Fits(NewList, 0) /\ Records(NewList.sk_data[0]) = {}
<1>1. \A i \in Levels : /\ NewList.sk_data[i] = NewLevel
                        /\ NewList.sk_capacity[i] = SKIP_LIST_INIT_CAPACITY - 1
  BY DEF NewList
<1>2. /\ NewList = [sk_data |-> NewList.sk_data, sk_capacity |-> NewList.sk_capacity]
      /\ NewList.sk_data = [i \in Levels |-> NewList.sk_data[i]]
      /\ NewList.sk_capacity = [i \in Levels |-> NewList.sk_capacity[i]]
  BY DEF NewList
<1>3. HasLevels(NewList)
  BY <1>1, <1>2, NewLevelIs DEF HasLevels
<1>4. Nested(NewList)
  BY <1>1, NewLevelIs DEF Nested
<1>5. Fits(NewList, 0)
  BY <1>1, NewLevelIs, SkipListAssumption DEF Fits
<1> QED BY <1>1, <1>3, <1>4, <1>5, NewLevelIs, LevelsAre DEF GoodList

\* A pop takes the record of the least key away from level 0.
PoppedFrom(l, n, new) ==
  /\ HasLevels(new)
  /\ n \in Records(l.sk_data[0]) /\ n \in Nat \ {0}
  /\ \A m \in Records(l.sk_data[0]) : l.sk_data[0][n].key <= l.sk_data[0][m].key
  /\ Records(new.sk_data[0]) = Records(l.sk_data[0]) \ {n}
  /\ \A m \in DOMAIN l.sk_data[0] \ {0} : /\ new.sk_data[0][m].key = l.sk_data[0][m].key
                                          /\ new.sk_data[0][m].idx = l.sk_data[0][m].idx
  /\ DOMAIN new.sk_data[0] = DOMAIN l.sk_data[0]

\* A pop takes the record with the least key and keeps all others.
LEMMA PopIs ==
  ASSUME NEW l, HasLevels(l), NEW popped \in Nat, Fits(l, popped), FrontLvl0(l) # 0
  PROVE  /\ PoppedFrom(l, FrontLvl0(l), PopLvl0(l))
         /\ Fits(PopLvl0(l), popped + 1)
<1> DEFINE n == FrontLvl0(l)
           new == PopLvl0(l)
           level == l.sk_data[0]
           low == Popped(level)
           recs == Records(level)
           free == Free(level)
<1>1. 0 \in Levels /\ GoodLevel(level) /\ n = level[0].next /\ level[0].next # 0
  BY LevelsAre DEF HasLevels, FrontLvl0
<1>2. PICK last, ord : last \in Nat /\ Shape(level, last, recs, free, ord)
  BY <1>1, GoodLevelIs
<1>3. /\ n \in recs /\ \A m \in recs : level[n].key <= level[m].key
      /\ \E o : Shape(low, last, recs \ {n}, free \cup {n}, o)
      /\ \A m \in 1 .. last : low[m].key = level[m].key /\ low[m].idx = level[m].idx
  <2> HIDE DEF level, recs, free
  <2> QED BY <1>1, <1>2, PoppedIs
<1>4. PICK o : Shape(low, last, recs \ {n}, free \cup {n}, o)
  BY <1>3
<1>5. /\ GoodLevel(low) /\ Records(low) = recs \ {n} /\ Free(low) = free \cup {n}
      /\ DOMAIN low = 0 .. last
  BY <1>4, GoodLevelOf, ShapeSets
<1>6. DOMAIN level = 0 .. last /\ IsFiniteSet(free) /\ recs \subseteq 1 .. last /\ recs \cap free = {}
  <2>1. DOMAIN level = 0 .. last /\ IsFiniteSet(free) /\ recs \subseteq 1 .. last
    BY <1>2, ShapeSets
  <2>2. recs \cap free = {}
    BY <1>2 DEF Shape
  <2> QED BY <2>1, <2>2
<1>7. n \notin free /\ n \in Nat \ {0}
  <2> HIDE DEF n
  <2> QED BY <1>3, <1>6
<1>8. Cardinality(free \cup {n}) = Cardinality(free) + 1
  BY <1>6, <1>7, FS_AddElement
<1>9. /\ new = [sk_data |-> [l.sk_data EXCEPT ![0] = low], sk_capacity |-> l.sk_capacity]
  <2>1. PICK d, c : l = [sk_data |-> d, sk_capacity |-> c] /\ d = [i \in Levels |-> d[i]]
    BY DEF HasLevels
  <2>2. level \in [0 .. last -> LevelNode(last)] /\ n \in 0 .. last /\ 0 \in 0 .. last
    <3>1. level \in [0 .. last -> LevelNode(last)]
      BY <1>2 DEF Shape, LevelType, LevelNode
    <3>2. 0 \in 0 .. last /\ \A m \in 1 .. last : m \in 0 .. last
      BY <1>2
    <3> QED BY <1>3, <1>6, <3>1, <3>2
  <2>3. new = [l EXCEPT !.sk_data[0][0] = [@ EXCEPT !.next = level[n].next, !.bottom = n],
                        !.sk_data[0][n].next = level[0].bottom]
    BY DEF PopLvl0, FrontLvl0
  <2> DEFINE x == [level[0] EXCEPT !.next = level[n].next, !.bottom = n]
             b == level[0].bottom
  <2>4. new = [sk_data |-> [d EXCEPT ![0][0] = x, ![0][n].next = b], sk_capacity |-> c]
    <3>1. x = [d[0][0] EXCEPT !.next = level[n].next, !.bottom = n]
      BY <2>1
    <3>2. PICK y : y = x
      OBVIOUS
    <3>3. PICK one : one = [l EXCEPT !.sk_data[0][0] = y]
      OBVIOUS
    <3>4. new = [one EXCEPT !.sk_data[0][n].next = b]
      <4>1. [l EXCEPT !.sk_data[0][0] = [@ EXCEPT !.next = level[n].next, !.bottom = n],
                      !.sk_data[0][n].next = b]
              = [l EXCEPT !.sk_data[0][0] = x, !.sk_data[0][n].next = b]
        OBVIOUS
      <4>2. new = [l EXCEPT !.sk_data[0][0] = y, !.sk_data[0][n].next = b]
        BY <2>3, <3>2, <4>1
      <4> HIDE DEF x, b, n, new, low, level
      <4> QED BY <3>3, <4>2
    <3> HIDE DEF x, b, n, new, low, level
    <3>5. PICK e : e = [d EXCEPT ![0][0] = y]
      OBVIOUS
    <3>6. one = [sk_data |-> e, sk_capacity |-> c]
      BY <2>1, <3>3, <3>5
    <3>7. new = [sk_data |-> [e EXCEPT ![0][n].next = b], sk_capacity |-> c]
      BY <3>4, <3>6
    <3>8. [e EXCEPT ![0][n].next = b] = [d EXCEPT ![0][0] = y, ![0][n].next = b]
      BY <3>5
    <3> QED BY <3>2, <3>7, <3>8
  <2>5. low = [level EXCEPT ![0] = x, ![n].next = b]
    BY <1>1 DEF Popped
  <2> HIDE DEF x, b, n, new, low
  <2>6. [d EXCEPT ![0][0] = x, ![0][n].next = b] = [d EXCEPT ![0] = [level EXCEPT ![0] = x, ![n].next = b]]
    BY <1>1, <2>1
  <2> QED BY <2>1, <2>4, <2>5, <2>6
<1>10. /\ \A i \in Levels : new.sk_data[i] = IF i = 0 THEN low ELSE l.sk_data[i]
       /\ new.sk_data = [i \in Levels |-> new.sk_data[i]]
       /\ new.sk_capacity = l.sk_capacity
       /\ new = [sk_data |-> new.sk_data, sk_capacity |-> new.sk_capacity]
  <2>1. l.sk_data = [i \in Levels |-> l.sk_data[i]]
    BY DEF HasLevels
  <2> HIDE DEF low, new
  <2> QED BY <1>1, <1>9, <2>1
<1> HIDE DEF low, new
<1>11. HasLevels(new)
  <2>1. \A i \in Levels : GoodLevel(new.sk_data[i])
    BY <1>5, <1>10 DEF HasLevels
  <2>2. new.sk_capacity = [i \in Levels |-> new.sk_capacity[i]]
    BY <1>10 DEF HasLevels
  <2> QED BY <1>10, <2>1, <2>2 DEF HasLevels
<1>12. Fits(new, popped + 1)
  <2>1. SUFFICES ASSUME NEW i \in Levels
                 PROVE  /\ new.sk_capacity[i] \in Nat \ {0}
                        /\ Cardinality(Free(new.sk_data[i]))
                             = new.sk_capacity[i] + IF i = 0 THEN popped + 1 ELSE 0
    BY DEF Fits
  <2>2. /\ l.sk_capacity[i] \in Nat \ {0}
        /\ Cardinality(Free(l.sk_data[i])) = l.sk_capacity[i] + IF i = 0 THEN popped ELSE 0
    BY DEF Fits
  <2>3. CASE i = 0
    <3>1. new.sk_capacity[0] = l.sk_capacity[0] /\ new.sk_data[0] = low
      BY <1>1, <1>10
    <3>2. Cardinality(free) = l.sk_capacity[0] + popped
      BY <2>2, <2>3
    <3>3. Cardinality(Free(low)) = Cardinality(free) + 1
      BY <1>5, <1>8
    <3>4. Cardinality(Free(new.sk_data[0])) = new.sk_capacity[0] + (popped + 1)
      BY <2>2, <2>3, <3>1, <3>2, <3>3
    <3> QED BY <2>2, <2>3, <3>1, <3>4
  <2>4. CASE i # 0
    BY <1>10, <2>2, <2>4
  <2> QED BY <2>3, <2>4
<1>13. /\ \A m \in DOMAIN level \ {0} : low[m].key = level[m].key /\ low[m].idx = level[m].idx
       /\ DOMAIN low = DOMAIN level
  <2>1. DOMAIN level \ {0} = 1 .. last
    BY <1>6
  <2> QED BY <1>3, <1>5, <1>6, <2>1
<1>14. PoppedFrom(l, n, new)
  <2> HIDE DEF n
  <2> QED BY <1>1, <1>3, <1>5, <1>7, <1>10, <1>11, <1>13 DEF PoppedFrom
<1> QED BY <1>12, <1>14 DEF new

-----------------------------------------------------------------------------
(* The numbers of records                                                  *)

\* cnt_ns counts the records.
LEMMA CntNsIs ==
  ASSUME NEW l, HasLevels(l), Fits(l, 0)
  PROVE  CntNs(l) = Cardinality(Records(l.sk_data[0])) /\ CntNs(l) \in Nat
<1> DEFINE level == l.sk_data[0]
<1>1. 0 \in Levels /\ GoodLevel(level)
  BY LevelsAre DEF HasLevels
<1>2. PICK last, ord : last \in Nat /\ Shape(level, last, Records(level), Free(level), ord)
  BY <1>1, GoodLevelIs
<1>3. /\ Cardinality(Records(level)) \in Nat /\ Cardinality(Free(level)) \in Nat
      /\ Cardinality(Records(level)) + Cardinality(Free(level)) = last
      /\ Cardinality(DOMAIN level) = last + 1
  BY <1>2, GoodLevelOf
<1>4. Cardinality(Free(level)) = l.sk_capacity[0]
  BY <1>1, <1>3 DEF Fits
<1> QED BY <1>3, <1>4 DEF CntNs

\* Every record has the key of a name.
Named(l) == \A n \in Records(l.sk_data[0]) : \E name \in Names : l.sk_data[0][n].key = get_key(name)

\* cnt_ns counts the names that a search finds.
LEMMA NamesAreCounted ==
  ASSUME NEW l, GoodList(l), Fits(l, 0), Named(l)
  PROVE  CntNs(l) = Cardinality({name \in Names : Find(l, get_key(name)) > 0})
<1> DEFINE level == l.sk_data[0]
           recs == Records(level)
           T == {name \in Names : Find(l, get_key(name)) > 0}
           b == [n \in recs |-> CHOOSE name \in Names : level[n].key = get_key(name)]
<1>1. GoodLevel(level)
  BY LevelsAre DEF GoodList, HasLevels
<1>2. IsFiniteSet(recs)
  BY <1>1, GoodLevelIs, GoodLevelOf
<1>3. \A n \in recs : b[n] \in Names /\ level[n].key = get_key(b[n])
  BY DEF Named
<1>4. \A name \in Names : name \in T <=> \E n \in recs : level[n].key = get_key(name)
  <2>1. TAKE name \in Names
  <2>2. get_key(name) \in Nat
    BY KeyOf
  <2>3. \/ Holds(l, get_key(name), Find(l, get_key(name))) /\ Find(l, get_key(name)) \in Nat \ {0}
        \/ Find(l, get_key(name)) = -1 /\ \A n : ~ Holds(l, get_key(name), n)
    BY <2>2, FindIs
  <2> QED BY <2>3 DEF Holds
<1>5. b \in [recs -> T]
  <2>1. \A n \in recs : b[n] \in T
    BY <1>3, <1>4
  <2> QED BY <2>1
<1>6. \A m, n \in recs : b[m] = b[n] => m = n
  BY <1>1, <1>3, RecordsAre
<1>7. \A name \in T : \E n \in recs : b[n] = name
  <2>1. TAKE name \in T
  <2>2. PICK n \in recs : level[n].key = get_key(name)
    BY <1>4
  <2>3. b[n] = name
    BY <1>3, <2>2, KeysDiffer
  <2> QED BY <2>3
<1> HIDE DEF T, b
<1>8. b \in Bijection(recs, T)
  BY <1>5, <1>6, <1>7 DEF Bijection, Injection, Surjection, IsInjective
<1>9. Cardinality(T) = Cardinality(recs)
  BY <1>2, <1>8, FS_Bijection DEF ExistsBijection
<1> QED BY <1>9, CntNsIs DEF T, GoodList

-----------------------------------------------------------------------------
(* What always holds of the lists                                          *)

IsNode(l, n) == n \in DOMAIN l.sk_data[0] \ {0}

\* The buffer is as BufferLemmas has it; every list is well formed on all of its
\* levels, its counters are those of its free nodes, and the keys of the current
\* list are those of names.  A list that is being dumped has lost kvs from level
\* 0 only, so its levels need not nest any more.
IndexInv ==
  /\ BufferTypeOK /\ FreeOnce /\ FreeOrHandedOut
  /\ data \in [Entries -> [key : Nat, idx : SUBSET (0 .. 31)]]
  /\ GoodList(current) /\ Fits(current, 0) /\ Named(current)
  /\ dpc \in {"idle", "merge", "dump"} /\ kvs \in Seq(Nat) /\ rows \in 0 .. Len(kvs)
  /\ dpc = "idle" => curr_writing = NoList /\ kvs = << >> /\ rows = 0
  /\ dpc # "idle" => /\ HasLevels(curr_writing) /\ Fits(curr_writing, Len(kvs))
                     /\ \A i \in 1 .. Len(kvs) : IsNode(curr_writing, kvs[i])
  /\ records_num \in Nat /\ writes \in 0 .. MaxWrites /\ aborted \in BOOLEAN

\* A well-formed level is of the type, with a free node left.
LEMMA LevelTyped ==
  ASSUME NEW level, GoodLevel(level), NEW cap \in Nat \ {0}, cap <= Cardinality(Free(level))
  PROVE  IsLevel(level, cap)
<1>1. PICK last, ord : /\ last \in Nat /\ Shape(level, last, Records(level), Free(level), ord)
                               /\ last = Cardinality(DOMAIN level) - 1
  BY GoodLevelIs
<1>2. /\ Cardinality(Records(level)) \in Nat /\ Cardinality(Free(level)) \in Nat
      /\ Cardinality(Records(level)) + Cardinality(Free(level)) = last
  BY <1>1, GoodLevelOf
<1>3. Cardinality(0 .. last) = last + 1
  BY <1>1, FS_Interval
<1>4. level \in [0 .. last -> [key : Nat, idx : SUBSET (0 .. 31), next : 0 .. last, bottom : Nat]]
  BY <1>1 DEF Shape, LevelType
<1> QED BY <1>1, <1>2, <1>3, <1>4 DEF IsLevel

\* A well-formed list is of the type.
LEMMA ListTyped ==
  ASSUME NEW l, HasLevels(l), NEW popped \in Nat, Fits(l, popped)
  PROVE  IsList(l)
<1>1. ASSUME NEW i \in Levels PROVE IsLevel(l.sk_data[i], l.sk_capacity[i])
  <2>1. GoodLevel(l.sk_data[i])
    BY DEF HasLevels
  <2>2. /\ l.sk_capacity[i] \in Nat \ {0}
        /\ Cardinality(Free(l.sk_data[i])) = l.sk_capacity[i] + IF i = 0 THEN popped ELSE 0
    BY DEF Fits
  <2>3. l.sk_capacity[i] <= Cardinality(Free(l.sk_data[i]))
    BY <2>2
  <2> QED BY <2>1, <2>2, <2>3, LevelTyped
<1>2. DOMAIN l.sk_data = Levels /\ DOMAIN l.sk_capacity = Levels
  BY DEF HasLevels
<1> QED BY <1>1, <1>2 DEF IsList

\* The chains of a well-formed level share its nodes out.
LEMMA LevelAccounted ==
  ASSUME NEW level, GoodLevel(level)
  PROVE  Accounted(level, Cardinality(Free(level)))
<1>1. PICK last, ord : last \in Nat /\ Shape(level, last, Records(level), Free(level), ord)
  BY GoodLevelIs
<1>2. DOMAIN level = 0 .. last
  BY <1>1, ShapeSets
<1> QED BY <1>1, <1>2 DEF Shape, Accounted

\* Keys grow along a level.
LEMMA KeysGrow ==
  ASSUME NEW level, GoodLevel(level), NEW n \in Records(level), level[n].next # 0
  PROVE  level[n].key < level[level[n].next].key
<1>1. PICK last, ord : last \in Nat /\ Shape(level, last, Records(level), Free(level), ord)
  BY GoodLevelIs
<1> QED BY <1>1 DEF Shape, Linked, KeyOrder

\* The invariant implies the types,
LEMMA InvTyped == IndexInv => TypeOK
<1> SUFFICES ASSUME IndexInv PROVE TypeOK
  OBVIOUS
<1>1. IsList(current)
  BY ListTyped DEF IndexInv, GoodList
<1>2. curr_writing = NoList \/ IsList(curr_writing)
  <2>1. CASE dpc = "idle"
    BY <2>1 DEF IndexInv
  <2>2. CASE dpc # "idle"
    <3>1. Len(kvs) \in Nat
      BY DEF IndexInv
    <3> QED BY <2>2, <3>1, ListTyped DEF IndexInv
  <2> QED BY <2>1, <2>2
<1> QED BY <1>1, <1>2 DEF IndexInv, TypeOK

\* and that lists are well formed,
LEMMA InvFormed == IndexInv => ListsWellFormed
<1> SUFFICES ASSUME IndexInv PROVE ListsWellFormed
  OBVIOUS
<1>1. GoodList(current) /\ HasLevels(current) /\ Fits(current, 0) /\ Named(current) /\ Nested(current)
  BY DEF IndexInv, GoodList
<1>2. \A i \in Levels : GoodLevel(current.sk_data[i])
  BY <1>1 DEF HasLevels
<1>3. \A i \in Levels : Accounted(current.sk_data[i], current.sk_capacity[i])
  <2>1. TAKE i \in Levels
  <2>2. Cardinality(Free(current.sk_data[i])) = current.sk_capacity[i]
    BY <1>1 DEF Fits
  <2>3. Accounted(current.sk_data[i], Cardinality(Free(current.sk_data[i])))
    BY <1>2, LevelAccounted
  <2> QED BY <2>2, <2>3
<1>4. CntNs(current) = Cardinality({name \in Names : Find(current, get_key(name)) > 0})
  BY <1>1, NamesAreCounted
<1>5. ASSUME curr_writing # NoList
      PROVE  Accounted(curr_writing.sk_data[0], curr_writing.sk_capacity[0] + Len(kvs))
  <2>1. HasLevels(curr_writing) /\ Fits(curr_writing, Len(kvs))
    BY <1>5 DEF IndexInv
  <2>2. /\ GoodLevel(curr_writing.sk_data[0])
        /\ Cardinality(Free(curr_writing.sk_data[0])) = curr_writing.sk_capacity[0] + Len(kvs)
    BY <2>1, LevelsAre DEF HasLevels, Fits
  <2>3. Accounted(curr_writing.sk_data[0], Cardinality(Free(curr_writing.sk_data[0])))
    BY <2>2, LevelAccounted
  <2> QED BY <2>2, <2>3
<1>6. LevelsNest
  <2>1. SUFFICES ASSUME NEW i \in Levels, NEW n \in Records(current.sk_data[i])
                 PROVE  LET level == current.sk_data[i]
                            node  == level[n]
                        IN  /\ node.next # 0 => node.key < level[node.next].key
                            /\ i > 0 => /\ node.bottom \in Records(current.sk_data[i - 1])
                                        /\ current.sk_data[i - 1][node.bottom].key = node.key
    BY DEF LevelsNest
  <2>2. i > 0 => i \in Levels \ {0}
    BY LevelsAre
  <2> QED BY <1>1, <1>2, <2>2, KeysGrow DEF Nested
<1> QED BY <1>3, <1>4, <1>5, <1>6 DEF ListsWellFormed, NodesAccounted

\* and it holds at the start.
LEMMA InvInit == Init => IndexInv
<1> SUFFICES ASSUME Init PROVE IndexInv
  OBVIOUS
<1>1. GoodList(current) /\ Fits(current, 0) /\ Named(current)
  BY NewListIs DEF Init, Named
<1>2. BufferTypeOK /\ FreeOnce /\ FreeOrHandedOut
  <2>1. idxes_empty = [i \in 1 .. RECORD_BUFF_SIZE |-> i - 1] /\ idxes_wrote = {}
        /\ accessing = [s \in Slots |-> 0]
    BY DEF Init, BufferInit
  <2>2. idxes_empty \in Seq(Slots) /\ Len(idxes_empty) = RECORD_BUFF_SIZE
    BY <2>1, BuffSizeAssumption DEF Slots
  <2>3. FreeOnce
    BY <2>1, <2>2, BuffSizeAssumption DEF FreeOnce
  <2>4. \A s \in Slots : Contains(idxes_empty, s)
    <3>1. TAKE s \in Slots
    <3>2. s + 1 \in 1 .. Len(idxes_empty) /\ idxes_empty[s + 1] = s
      BY <2>1, <2>2, BuffSizeAssumption DEF Slots
    <3> QED BY <3>2 DEF Contains
  <2> QED BY <2>1, <2>2, <2>3, <2>4 DEF BufferTypeOK, FreeOrHandedOut
<1>3. data \in [Entries -> [key : Nat, idx : SUBSET (0 .. 31)]]
  BY DEF Init, EmptyData, NewIndex
<1>4. kvs = << >> /\ rows = 0 /\ dpc = "idle" /\ curr_writing = NoList
      /\ records_num \in Nat /\ writes = 0 /\ aborted = FALSE
  BY KeyIndexAssumption DEF Init
<1>5. kvs \in Seq(Nat) /\ Len(kvs) = 0
  BY <1>4
<1>6. rows \in 0 .. Len(kvs) /\ writes \in 0 .. MaxWrites
  BY <1>4, <1>5, KeyIndexAssumption
<1> QED BY <1>1, <1>2, <1>3, <1>4, <1>5, <1>6 DEF IndexInv

\* An update of the table keeps its type.
LEMMA TableTyped ==
  ASSUME data \in [Entries -> [key : Nat, idx : SUBSET (0 .. 31)]], NEW k \in Nat,
         NEW w \in SUBSET (0 .. 31), UpdateTable(k, w)
  PROVE  data' \in [Entries -> [key : Nat, idx : SUBSET (0 .. 31)]]
<1>1. SetInHash(w) \in SUBSET (0 .. 31)
  BY WordsAreWords
<1>2. [key |-> k, idx |-> SetInHash(w)] \in [key : Nat, idx : SUBSET (0 .. 31)]
  BY <1>1
<1> QED BY <1>2 DEF UpdateTable

\* A write keeps that every key is that of a name.
LEMMA NamedAfter ==
  ASSUME NEW l, NEW new, Named(l), NEW name \in Names, NEW word, Written(l, get_key(name), word, new)
  PROVE  Named(new)
<1>1. SUFFICES ASSUME NEW n \in Records(new.sk_data[0]), new.sk_data[0][n].key # get_key(name)
               PROVE  \E m \in Names : new.sk_data[0][n].key = get_key(m)
  BY DEF Named
<1>2. Holds(new, new.sk_data[0][n].key, n)
  BY <1>1 DEF Holds
<1>3. Holds(l, new.sk_data[0][n].key, n)
  BY <1>1, <1>2 DEF Written
<1> QED BY <1>3 DEF Holds, Named

\* A write keeps the invariant.
LEMMA WriteKeeps ==
  ASSUME IndexInv, NEW name \in Names, NEW height \in Heights(name), Write(name, height)
  PROVE  IndexInv'
<1>1. height \in 1 .. SKIP_LIST_MAX_HEIGHT
  BY SkipListAssumption DEF Heights
<1>2. get_key(name) \in Nat
  BY KeyOf
<1>3. PICK slot \in Slots :
        /\ RequestSlot(slot) /\ UpdateTable(get_key(name), BufferIndex(slot))
        /\ current' = UpdateList(current, get_key(name), BufferIndex(slot), height)
  BY DEF Write
<1>4. BufferIndex(slot) \in SUBSET (0 .. 31)
  <2>1. SetFid(NewIndex, 0) \in SUBSET (0 .. 31)
    BY WordsAreWords
  <2> QED BY <2>1, WordsAreWords DEF BufferIndex
<1>5. /\ GoodList(current') /\ Fits(current', 0)
      /\ Written(current, get_key(name), WordOfUpdate(current, get_key(name), BufferIndex(slot)), current')
  BY <1>1, <1>2, <1>3, <1>4, UpdateIs DEF IndexInv
<1>6. Named(current')
  BY <1>5, NamedAfter DEF IndexInv
<1>7. data' \in [Entries -> [key : Nat, idx : SUBSET (0 .. 31)]]
  BY <1>2, <1>3, <1>4, TableTyped DEF IndexInv
<1>8. /\ idxes_empty' \in Seq(Slots) /\ idxes_wrote' \in SUBSET Slots
      /\ FreeOnce' /\ FreeOrHandedOut'
  BY <1>3, RequestSlotLemma DEF IndexInv, BufferTypeOK
<1>9. BufferTypeOK'
  BY <1>8 DEF BufferTypeOK, IndexInv, Write
<1>10. /\ curr_writing' = curr_writing /\ kvs' = kvs /\ rows' = rows /\ dpc' = dpc
       /\ records_num' = records_num /\ aborted' = aborted /\ writes' = writes + 1
       /\ writes < MaxWrites
  BY DEF Write, dumperVars
<1>11. writes' \in 0 .. MaxWrites
  BY <1>10, KeyIndexAssumption DEF IndexInv
<1> QED BY <1>5, <1>6, <1>7, <1>8, <1>9, <1>10, <1>11 DEF IndexInv

\* A round of the merge keeps it, and takes the least key.
LEMMA MergeKeeps ==
  ASSUME IndexInv, MergeRound
  PROVE  /\ IndexInv'
         /\ PoppedFrom(curr_writing, FrontLvl0(curr_writing), curr_writing')
<1> DEFINE n == FrontLvl0(curr_writing)
<1>1. dpc # "idle" /\ n # 0 /\ curr_writing' = PopLvl0(curr_writing) /\ kvs' = Append(kvs, n)
  BY DEF MergeRound, HasSmallest
<1>2. kvs \in Seq(Nat) /\ Len(kvs) \in Nat
  BY DEF IndexInv
<1>3. PoppedFrom(curr_writing, n, curr_writing') /\ Fits(curr_writing', Len(kvs) + 1)
  BY <1>1, <1>2, PopIs DEF IndexInv
<1>4. n \in Nat /\ HasLevels(curr_writing') /\ DOMAIN curr_writing'.sk_data[0] = DOMAIN curr_writing.sk_data[0]
  BY <1>3 DEF PoppedFrom
<1>5. IsNode(curr_writing, n)
  <2>1. n \in Records(curr_writing.sk_data[0]) /\ n # 0
    BY <1>3 DEF PoppedFrom
  <2>2. GoodLevel(curr_writing.sk_data[0])
    BY <1>1, LevelsAre DEF IndexInv, HasLevels
  <2> QED BY <2>1, <2>2, RecordsAre DEF IsNode
<1> HIDE DEF n
<1>6. /\ kvs' \in Seq(Nat) /\ Len(kvs') = Len(kvs) + 1
      /\ \A i \in 1 .. Len(kvs') : kvs'[i] = n \/ (i \in 1 .. Len(kvs) /\ kvs'[i] = kvs[i])
  BY <1>1, <1>2, <1>4
<1>7. \A i \in 1 .. Len(kvs') : IsNode(curr_writing', kvs'[i])
  BY <1>1, <1>4, <1>5, <1>6 DEF IndexInv, IsNode
<1>8. /\ UNCHANGED <<bufferVars, data, current, rows, dpc, records_num, writes, aborted>>
  BY DEF MergeRound
<1>9. BufferTypeOK' /\ FreeOnce' /\ FreeOrHandedOut'
  BY <1>8 DEF bufferVars, BufferTypeOK, FreeOnce, FreeOrHandedOut, IndexInv
<1>10. rows' \in 0 .. Len(kvs')
  BY <1>6, <1>8, <1>2 DEF IndexInv
<1>11. IndexInv'
  BY <1>1, <1>3, <1>4, <1>6, <1>7, <1>8, <1>9, <1>10 DEF IndexInv
<1> QED BY <1>3, <1>11 DEF n

\* A row of a dump keeps it.
LEMMA DumpRowKeeps ==
  ASSUME IndexInv, DumpRow
  PROVE  IndexInv'
<1> DEFINE n == kvs[rows + 1]
           level == curr_writing.sk_data[0]
           w == FileIndex(records_num, rows)
<1>1. /\ dpc = "dump" /\ rows < Len(kvs) /\ ReleaseSlot(GetIdx(level[n].idx))
      /\ UpdateTable(level[n].key, w) /\ rows' = rows + 1
      /\ UNCHANGED <<accessing, current, curr_writing, kvs, dpc, records_num, writes, aborted>>
  BY DEF DumpRow
<1>2. rows \in 0 .. Len(kvs) /\ Len(kvs) \in Nat
  BY DEF IndexInv
<1>3. rows + 1 \in 1 .. Len(kvs)
  BY <1>1, <1>2
<1>4. IsNode(curr_writing, n) /\ GoodLevel(level)
  BY <1>1, <1>3, LevelsAre DEF IndexInv, HasLevels
<1>5. level[n].key \in Nat
  <2>1. PICK last, ord : last \in Nat /\ Shape(level, last, Records(level), Free(level), ord)
    BY <1>4, GoodLevelIs
  <2>2. n \in 0 .. last
    BY <1>4, <2>1, ShapeSets DEF IsNode
  <2>3. level[n] \in LevelNode(last)
    BY <2>1, <2>2, NodesOf DEF Shape
  <2> QED BY <2>3, NodeFields
<1>6. w \in SUBSET (0 .. 31)
  <2>1. SetFid(NewIndex, records_num) \in SUBSET (0 .. 31)
    BY WordsAreWords
  <2>2. SetIdx(SetFid(NewIndex, records_num), rows) \in SUBSET (0 .. 31)
    BY <2>1, WordsAreWords
  <2> QED BY <2>2, WordsAreWords DEF FileIndex
<1>7. data' \in [Entries -> [key : Nat, idx : SUBSET (0 .. 31)]]
  BY <1>1, <1>5, <1>6, TableTyped DEF IndexInv
<1>8. GetIdx(level[n].idx) \in Slots
  BY <1>1 DEF ReleaseSlot, Releasable, IndexInv, BufferTypeOK
<1>9. /\ idxes_empty' \in Seq(Slots) /\ idxes_wrote' \in SUBSET Slots
      /\ FreeOnce' /\ FreeOrHandedOut'
  BY <1>1, <1>8, ReleaseSlotLemma DEF IndexInv, BufferTypeOK
<1>10. BufferTypeOK'
  BY <1>1, <1>9 DEF BufferTypeOK, IndexInv
<1>11. rows' \in 0 .. Len(kvs')
  BY <1>1, <1>3
<1> QED BY <1>1, <1>7, <1>9, <1>10, <1>11 DEF IndexInv

\* Every step keeps it.
LEMMA InvStep == IndexInv /\ [Next]_vars => IndexInv'
<1> SUFFICES ASSUME IndexInv, [Next]_vars PROVE IndexInv'
  OBVIOUS
<1>1. ASSUME NEW name \in Names, NEW height \in Heights(name), Write(name, height) PROVE IndexInv'
  BY <1>1, WriteKeeps
<1>2. CASE MergeRound
  BY <1>2, MergeKeeps
<1>3. CASE DumpRow
  BY <1>3, DumpRowKeeps
<1>4. ASSUME UNCHANGED bufferVars
      PROVE  BufferTypeOK' /\ FreeOnce' /\ FreeOrHandedOut'
  BY <1>4 DEF bufferVars, BufferTypeOK, FreeOnce, FreeOrHandedOut, IndexInv
<1>5. ASSUME NEW name \in Names, TableFull(name) PROVE IndexInv'
  <2>1. PICK slot \in Slots : RequestSlot(slot)
    BY <1>5 DEF TableFull
  <2>2. /\ idxes_empty' \in Seq(Slots) /\ idxes_wrote' \in SUBSET Slots
        /\ FreeOnce' /\ FreeOrHandedOut'
    BY <2>1, RequestSlotLemma DEF IndexInv, BufferTypeOK
  <2>3. BufferTypeOK'
    BY <1>5, <2>2 DEF BufferTypeOK, IndexInv, TableFull
  <2>4. writes' \in 0 .. MaxWrites /\ aborted' \in BOOLEAN
    BY <1>5, KeyIndexAssumption DEF IndexInv, TableFull
  <2> QED BY <1>5, <2>2, <2>3, <2>4 DEF IndexInv, TableFull, dumperVars
<1>6. CASE SubmitDump
  <2>1. curr_writing' = current /\ current' = NewList /\ dpc' = "merge" /\ dpc = "idle"
        /\ UNCHANGED <<bufferVars, data, kvs, rows, records_num, writes, aborted>>
    BY <1>6 DEF SubmitDump
  <2>2. GoodList(current') /\ Fits(current', 0) /\ Named(current')
    BY <2>1, NewListIs DEF Named
  <2>3. kvs' = << >> /\ Len(kvs') = 0
    BY <2>1 DEF IndexInv
  <2>4. HasLevels(curr_writing') /\ Fits(curr_writing', Len(kvs'))
    BY <2>1, <2>3 DEF IndexInv, GoodList
  <2>5. BufferTypeOK' /\ FreeOnce' /\ FreeOrHandedOut'
    BY <1>4, <2>1
  <2> QED BY <2>1, <2>2, <2>3, <2>4, <2>5 DEF IndexInv
<1>7. CASE MergeDone
  <2>1. BufferTypeOK' /\ FreeOnce' /\ FreeOrHandedOut'
    BY <1>4, <1>7 DEF MergeDone
  <2> QED BY <1>7, <2>1 DEF MergeDone, IndexInv
<1>8. CASE EndDumping
  <2>1. BufferTypeOK' /\ FreeOnce' /\ FreeOrHandedOut'
    BY <1>4, <1>8 DEF EndDumping
  <2> QED BY <1>8, <2>1 DEF EndDumping, IndexInv
<1>9. CASE UNCHANGED vars
  <2>1. BufferTypeOK' /\ FreeOnce' /\ FreeOrHandedOut'
    BY <1>4, <1>9 DEF vars
  <2> QED BY <1>9, <2>1 DEF vars, dumperVars, IndexInv
<1> QED BY <1>1, <1>2, <1>3, <1>5, <1>6, <1>7, <1>8, <1>9 DEF Next

\* IndexInv holds from the start on and is kept by every write, overwrite, growth
\* of a level, pop and row of a dump.
THEOREM InvKept == Spec => []IndexInv
BY InvInit, InvStep, PTL DEF Spec

\* Writes and dumps keep the state in its types; in particular every level of
\* both lists keeps a free node, which insert_after asserts.
THEOREM IndexTyped == Spec => []TypeOK
BY InvKept, InvTyped, PTL

\* Through inserts, growth, overwrites and pops no node of a list is lost or in
\* both of its chains, the counters of free nodes and cnt_ns agree with them, the
\* keys of a level grow and every node stands on that of its key one level below.
THEOREM ListsStayWellFormed == Spec => []ListsWellFormed
BY InvKept, InvFormed, PTL

\* hash_key returns an unsigned number.
HashIsNumber == \A key : hash_key(key) \in Nat

-----------------------------------------------------------------------------
(* The search of the table                                                 *)

\* The search for key stops at its probe n and at none before.
FirstStop(key, n) ==
  /\ n \in Entries /\ Stops(key, Probe(key, n))
  /\ \A m \in 0 .. n - 1 : ~ Stops(key, Probe(key, m))

\* A search stays inside the table.
LEMMA ProbeIsEntry ==
  ASSUME HashIsNumber, NEW key, NEW n \in Nat
  PROVE  Probe(key, n) \in Entries
<1>1. HASH_TABLE_SIZE \in Nat \ {0} /\ hash_key(key) \in Nat
  BY IndexHashMapAssumption DEF HashIsNumber
<1>2. n * (n + 1) \in Nat
  OBVIOUS
<1>3. (n * (n + 1)) \div 2 \in Nat
  BY <1>2
<1> QED BY <1>1, <1>3 DEF Probe, Entries

\* Where the search first stops is the entry.
LEMMA FirstStopIsEntry ==
  ASSUME NEW key, NEW n, FirstStop(key, n)
  PROVE  HasEntry(key) /\ Entry(key) = Probe(key, n)
<1> DEFINE first(j) == /\ Stops(key, Probe(key, j))
                       /\ \A m \in 0 .. j - 1 : ~ Stops(key, Probe(key, m))
           chosen == CHOOSE j \in Entries : first(j)
<1>1. n \in Entries /\ first(n) /\ Entries \subseteq Nat
  BY IndexHashMapAssumption DEF FirstStop, Entries
<1>2. chosen \in Entries /\ first(chosen)
  BY <1>1
<1>3. chosen = n
  <2>1. n \in Nat /\ chosen \in Nat
    BY <1>1, <1>2
  <2>2. n < chosen => n \in 0 .. chosen - 1
    BY <2>1
  <2>3. chosen < n => chosen \in 0 .. n - 1
    BY <2>1
  <2> QED BY <1>1, <1>2, <2>1, <2>2, <2>3
<1>4. HasEntry(key)
  BY <1>1 DEF HasEntry
<1> QED BY <1>3, <1>4 DEF Entry

\* A search that finds an entry has a first stop.
LEMMA SearchStops ==
  ASSUME NEW key, HasEntry(key)
  PROVE  \E n \in Entries : FirstStop(key, n)
<1> DEFINE T == {n \in Entries : Stops(key, Probe(key, n))}
<1>1. T \subseteq Nat /\ T # {}
  BY IndexHashMapAssumption DEF HasEntry, Entries
<1>2. PICK n \in T : \A m \in T : ~ (<<m, n>> \in OpToRel(<, Nat))
  BY <1>1, NatLessThanWellFounded, WFMin
<1>3. \A m \in 0 .. n - 1 : m \in Entries /\ m < n
  BY <1>1, IndexHashMapAssumption DEF Entries
<1>4. \A m \in 0 .. n - 1 : m \notin T
  <2>1. TAKE m \in 0 .. n - 1
  <2>2. m \in Nat /\ n \in Nat /\ m < n
    BY <1>1
  <2>3. <<m, n>> \in OpToRel(<, Nat)
    BY <2>2 DEF OpToRel
  <2> QED BY <1>2, <2>3
<1> QED BY <1>3, <1>4 DEF FirstStop

\* FirstStopIsEntry, after a step.
LEMMA FirstStopIsEntryNext ==
  (\A key, n : FirstStop(key, n) => HasEntry(key) /\ Entry(key) = Probe(key, n))'
<1>1. \A key, n : FirstStop(key, n) => HasEntry(key) /\ Entry(key) = Probe(key, n)
  BY FirstStopIsEntry
<1> QED BY <1>1, PTL

-----------------------------------------------------------------------------
(* The table and its updates                                               *)

\* Entry e is taken by key.
TakenBy(e, key) == IfValid(data[e].idx) /\ data[e].key = key

\* An entry that is not free is where the search for its key stops.
TableInv ==
  /\ DOMAIN data = Entries
  /\ \A e \in Entries : \A key :
       TakenBy(e, key) => \E n \in Entries : FirstStop(key, n) /\ Probe(key, n) = e

\* The entry found is one of the table, free or of the key.
LEMMA EntryIsThere ==
  ASSUME HashIsNumber, NEW key, HasEntry(key)
  PROVE  Entry(key) \in Entries /\ Stops(key, Entry(key))
<1>1. PICK n \in Entries : FirstStop(key, n)
  BY SearchStops
<1>2. n \in Nat
  BY IndexHashMapAssumption DEF Entries
<1> QED BY <1>1, <1>2, FirstStopIsEntry, ProbeIsEntry DEF FirstStop

\* EntryIsThere, after a step.
LEMMA EntryIsThereNext ==
  HashIsNumber =>
    (\A key : HasEntry(key) => Entry(key) \in Entries /\ Stops(key, Entry(key)))'
<1>1. HashIsNumber => \A key : HasEntry(key) => Entry(key) \in Entries /\ Stops(key, Entry(key))
  BY EntryIsThere
<1>2. HashIsNumber => HashIsNumber'
  BY DEF HashIsNumber
<1> QED BY <1>1, <1>2, PTL

\* An update changes what a search finds of its own key only.
LEMMA UpdateIsApart ==
  ASSUME HashIsNumber, TableInv, NEW k, NEW w, HasEntry(k), UpdateTable(k, w)
  PROVE  /\ TableInv'
         /\ InTable(k)' /\ IndexOf(k)' = SetInHash(w) /\ Entry(k)' = Entry(k)
         /\ \A x : x # k => /\ InTable(x)' <=> InTable(x)
                            /\ InTable(x) => Entry(x)' = Entry(x) /\ IndexOf(x)' = IndexOf(x)
<1>0. Entries \subseteq Nat
  BY IndexHashMapAssumption DEF Entries
<1>1. PICK n \in Entries : FirstStop(k, n)
  BY SearchStops
<1>2. PICK e \in Entries : e = Entry(k) /\ e = Probe(k, n) /\ Stops(k, e)
  BY <1>1, FirstStopIsEntry, EntryIsThere
<1>3. /\ DOMAIN data' = Entries
      /\ \A f \in Entries : f # e => data'[f] = data[f]
      /\ data'[e] = [key |-> k, idx |-> SetInHash(w)]
  BY <1>2 DEF UpdateTable, TableInv
<1>4. data'[e].key = k /\ data'[e].idx = SetInHash(w) /\ IfValid(SetInHash(w))
  BY <1>3 DEF SetInHash, IfValid, InHashBit
<1>5. /\ \A x : \A f \in Entries : f # e => (Stops(x, f)' <=> Stops(x, f))
      /\ \A x : \A f \in Entries : f # e => (TakenBy(f, x)' <=> TakenBy(f, x))
  BY <1>3 DEF Stops, TakenBy
<1>6. Stops(k, e)' /\ TakenBy(e, k)' /\ \A x : x # k => ~ Stops(x, e)' /\ ~ TakenBy(e, x)'
  BY <1>4 DEF Stops, TakenBy
<1>7. \A x : \A m \in Nat : Probe(x, m) \in Entries
  BY ProbeIsEntry
<1>8. FirstStop(k, n)'
  <2>1. \A m \in 0 .. n - 1 : ~ Stops(k, Probe(k, m)) /\ Probe(k, m) \in Entries
    BY <1>0, <1>1, <1>7 DEF FirstStop
  <2>2. \A m \in 0 .. n - 1 : ~ Stops(k, Probe(k, m))'
    BY <1>2, <1>5, <2>1
  <2>3. Stops(k, Probe(k, n))'
    BY <1>2, <1>6
  <2> QED BY <1>1, <2>2, <2>3 DEF FirstStop
<1>9. HasEntry(k)' /\ Entry(k)' = e
  BY <1>2, <1>8, FirstStopIsEntryNext
<1>10. InTable(k)' /\ IndexOf(k)' = SetInHash(w) /\ Entry(k)' = Entry(k)
  BY <1>2, <1>4, <1>9 DEF InTable, IndexOf
<1>11. ASSUME NEW x, x # k, NEW m \in Entries, FirstStop(x, m), Probe(x, m) # e
       PROVE  FirstStop(x, m)' /\ Entry(x)' = Probe(x, m) /\ HasEntry(x)'
  <2>1. m \in Nat /\ Probe(x, m) \in Entries /\ Stops(x, Probe(x, m))
    BY <1>0, <1>7, <1>11 DEF FirstStop
  <2>2. Stops(x, Probe(x, m))'
    BY <1>5, <1>11, <2>1
  <2>3. \A j \in 0 .. m - 1 : ~ Stops(x, Probe(x, j))'
    <3>1. SUFFICES ASSUME NEW j \in 0 .. m - 1 PROVE ~ Stops(x, Probe(x, j))'
      OBVIOUS
    <3>2. ~ Stops(x, Probe(x, j)) /\ Probe(x, j) \in Entries
      BY <1>7, <1>11, <2>1 DEF FirstStop
    <3>3. PICK p \in Entries : p = Probe(x, j)
      BY <3>2
    <3>4. ~ Stops(x, p)'
      BY <1>5, <1>6, <1>11, <3>2, <3>3
    <3> QED BY <3>3, <3>4
  <2>4. FirstStop(x, m)'
    BY <1>11, <2>2, <2>3 DEF FirstStop
  <2> QED BY <2>4, FirstStopIsEntryNext
<1>12. TableInv'
  <2>1. SUFFICES ASSUME NEW f \in Entries, NEW x, TakenBy(f, x)'
                 PROVE  \E m \in Entries : FirstStop(x, m)' /\ Probe(x, m) = f
    BY <1>3 DEF TableInv
  <2>2. CASE f = e
    BY <1>1, <1>2, <1>6, <1>8, <2>1, <2>2
  <2>3. CASE f # e
    <3>1. PICK m \in Entries : FirstStop(x, m) /\ Probe(x, m) = f
      BY <1>5, <2>1, <2>3 DEF TableInv
    <3>2. x # k
      BY <1>2, <2>3, <3>1, FirstStopIsEntry
    <3> QED BY <1>11, <2>3, <3>1, <3>2
  <2> QED BY <2>2, <2>3
<1>13. ASSUME NEW x, x # k, InTable(x)
       PROVE  InTable(x)' /\ Entry(x)' = Entry(x) /\ IndexOf(x)' = IndexOf(x)
  <2>1. PICK m \in Entries : FirstStop(x, m)
    BY <1>13, SearchStops DEF InTable
  <2>2. PICK f \in Entries : f = Entry(x) /\ f = Probe(x, m) /\ IfValid(data[f].idx) /\ Stops(x, f)
    BY <1>13, <2>1, FirstStopIsEntry, EntryIsThere DEF InTable
  <2>3. f # e
    BY <1>2, <1>13, <2>2 DEF Stops
  <2>4. HasEntry(x)' /\ Entry(x)' = f
    BY <1>11, <1>13, <2>1, <2>2, <2>3
  <2>5. data'[f] = data[f]
    BY <1>3, <2>3
  <2> QED BY <2>2, <2>4, <2>5 DEF InTable, IndexOf
<1>14. ASSUME NEW x, x # k, InTable(x)'
       PROVE  InTable(x)
  <2>1. PICK f \in Entries : f = Entry(x)' /\ IfValid(data'[f].idx) /\ Stops(x, f)'
    BY <1>14, EntryIsThereNext DEF InTable
  <2>2. TakenBy(f, x)'
    BY <2>1 DEF TakenBy, Stops
  <2>3. f # e /\ TakenBy(f, x)
    BY <1>5, <1>6, <1>14, <2>2
  <2>4. PICK m \in Entries : FirstStop(x, m) /\ Probe(x, m) = f
    BY <2>3 DEF TableInv
  <2>5. HasEntry(x) /\ Entry(x) = f
    BY <2>4, FirstStopIsEntry
  <2> QED BY <2>3, <2>5 DEF InTable, TakenBy
<1> QED BY <1>10, <1>12, <1>13, <1>14
-----------------------------------------------------------------------------
(* The key index                                                           *)

\* The key of the row that the dump comes to.
RowKey == curr_writing.sk_data[0][kvs[rows + 1]].key

\* The table changes by writes and rows only.
LEMMA DataStep ==
  ASSUME [Next]_vars
  PROVE  \/ data' = data
         \/ DumpRow /\ HasEntry(RowKey) /\ UpdateTable(RowKey, FileIndex(records_num, rows))
         \/ \E name \in Names, height \in 1 .. SKIP_LIST_MAX_HEIGHT, slot \in Slots :
              /\ Write(name, height)
              /\ HasEntry(get_key(name)) /\ UpdateTable(get_key(name), BufferIndex(slot))
<1>1. CASE UNCHANGED vars \/ SubmitDump \/ MergeRound \/ MergeDone \/ EndDumping
  BY <1>1 DEF vars, SubmitDump, MergeRound, MergeDone, EndDumping
<1>2. CASE DumpRow
  BY <1>2 DEF DumpRow, RowKey
<1>3. CASE \E name \in Names : TableFull(name)
  BY <1>3 DEF TableFull
<1>4. ASSUME NEW name \in Names, NEW height \in Heights(name), Write(name, height)
      PROVE  \E h \in 1 .. SKIP_LIST_MAX_HEIGHT, slot \in Slots :
               /\ Write(name, h)
               /\ HasEntry(get_key(name)) /\ UpdateTable(get_key(name), BufferIndex(slot))
  <2>1. height \in 1 .. SKIP_LIST_MAX_HEIGHT
    BY SkipListAssumption DEF Heights
  <2>2. PICK slot \in Slots : HasEntry(get_key(name)) /\ UpdateTable(get_key(name), BufferIndex(slot))
    BY <1>4 DEF Write
  <2> QED BY <1>4, <2>1, <2>2
<1> QED BY <1>1, <1>2, <1>3, <1>4 DEF Next

\* An empty table satisfies the invariant,
LEMMA TableInvInit == Init => TableInv
BY DEF Init, EmptyData, NewIndex, TableInv, TakenBy, IfValid

\* every step keeps it,
LEMMA TableInvStep == HashIsNumber /\ TableInv /\ [Next]_vars => TableInv'
<1> SUFFICES ASSUME HashIsNumber, TableInv, [Next]_vars PROVE TableInv'
  OBVIOUS
<1>1. CASE data' = data
  BY <1>1 DEF TableInv, TakenBy, FirstStop, Stops, Probe
<1>2. CASE data' # data
  <2>1. \E key, w : HasEntry(key) /\ UpdateTable(key, w)
    BY <1>2, DataStep
  <2> QED BY <2>1, UpdateIsApart
<1> QED BY <1>1, <1>2

\* and so it always holds.
LEMMA TableIsKept == HashIsNumber /\ Spec => [](HashIsNumber /\ TableInv)
<1>1. HashIsNumber => HashIsNumber'
  BY DEF HashIsNumber
<1> QED BY <1>1, TableInvInit, TableInvStep, PTL DEF Spec

\* Indexer::get returns a pointer into the table, and DBSystem uses it without the
\* mutex.  The pointer stays that of its key: whatever is inserted and dumped,
\* later searches for the key end at the same entry, and it is never given to
\* another key.
PointersStay ==
  [][\A key \in Keys : InTable(key) => InTable(key)' /\ Entry(key)' = Entry(key)]_vars

\* PointersStay holds for every table and every hash, under the invariant of the table.
THEOREM PointersAreKept == HashIsNumber /\ Spec => PointersStay
<1>1. HashIsNumber /\ TableInv /\ [Next]_vars =>
        [\A key \in Keys : InTable(key) => InTable(key)' /\ Entry(key)' = Entry(key)]_vars
  <2>1. SUFFICES ASSUME HashIsNumber, TableInv, [Next]_vars, NEW key, InTable(key)
                 PROVE  InTable(key)' /\ Entry(key)' = Entry(key)
    OBVIOUS
  <2>2. CASE data' = data
    BY <2>1, <2>2 DEF InTable, HasEntry, Entry, Stops, Probe
  <2>3. CASE data' # data
    <3>1. PICK k, w : HasEntry(k) /\ UpdateTable(k, w)
      BY <2>1, <2>3, DataStep
    <3> QED BY <2>1, <3>1, UpdateIsApart
  <2> QED BY <2>2, <2>3
<1> QED BY <1>1, TableIsKept, PTL DEF Spec, PointersStay

\* Where a key is found changes by a write of a name with that key and by the
\* dump of a row with that key, and by nothing else: keys that collide do not
\* take each other's entries, and a key that was never written is not found.
PlacesStayApart ==
  [][\A key \in Keys : PlaceOf[key]' # PlaceOf[key] =>
       \/ DumpRow /\ key = RowKey
       \/ \E name \in Names, height \in 1 .. SKIP_LIST_MAX_HEIGHT :
            Write(name, height) /\ key = get_key(name)]_vars

\* PlacesStayApart holds for every table and every hash.
THEOREM KeysStayApart == HashIsNumber /\ Spec => PlacesStayApart
<1> DEFINE Own(key) == \/ DumpRow /\ key = RowKey
                       \/ \E name \in Names, height \in 1 .. SKIP_LIST_MAX_HEIGHT :
                            Write(name, height) /\ key = get_key(name)
<1>1. HashIsNumber /\ TableInv /\ [Next]_vars =>
        [\A key \in Keys : PlaceOf[key]' # PlaceOf[key] => Own(key)]_vars
  <2>1. SUFFICES ASSUME HashIsNumber, TableInv, [Next]_vars, NEW key \in Keys, ~ Own(key)
                 PROVE  PlaceOf[key]' = PlaceOf[key]
    OBVIOUS
  <2>2. (InTable(key)' <=> InTable(key)) /\ (InTable(key) => IndexOf(key)' = IndexOf(key))
    <3>1. CASE data' = data
      BY <3>1 DEF InTable, IndexOf, HasEntry, Entry, Stops, Probe
    <3>2. CASE data' # data
      <4>1. PICK k, w : HasEntry(k) /\ UpdateTable(k, w) /\ k # key
        BY <2>1, <3>2, DataStep
      <4> QED BY <2>1, <4>1, UpdateIsApart
    <3> QED BY <3>1, <3>2
  <2>3. /\ PlaceOf[key] = IF InTable(key) THEN Decoded[IndexOf(key)] ELSE [where |-> "nowhere"]
        /\ PlaceOf[key]' = IF InTable(key)' THEN Decoded[IndexOf(key)'] ELSE [where |-> "nowhere"]
    BY DEF PlaceOf
  <2> QED BY <2>2, <2>3
<1> QED BY <1>1, TableIsKept, PTL DEF Spec, PlacesStayApart

\* The word of a row says which file and row, whatever spills over from a file's
\* number that is longer than a byte, up to bit 30, which clear_idx leaves.
THEOREM RowsAreDecoded ==
  ASSUME NEW fid \in Nat, NEW row \in Nat, 30 \notin Bits(fid)
  PROVE  LET w == SetInHash(FileIndex(fid, row))
         IN  /\ IfInFile(w)
             /\ GetFid(w) = Number(Bits(fid) \cap (0 .. 7))
             /\ GetIdx(w) = Number(Bits(row) \cap (0 .. 19))
<1> DEFINE w == SetInHash(FileIndex(fid, row))
           shifted == {b + 12 : b \in Bits(row) \cap (0 .. 19)}
<1>1. w = (Bits(fid) \ (12 .. 29)) \cup shifted \cup {8, 9}
  BY DEF SetInHash, FileIndex, SetInFile, SetIdx, SetFid, NewIndex, InFileBit, InHashBit
<1>2. Bits(fid) \subseteq 0 .. 30 /\ Bits(row) \subseteq 0 .. 30
  BY DEF Bits
<1>3. \A b \in shifted : b \in 12 .. 31
  OBVIOUS
<1> HIDE DEF w
<1>4. w \cap (0 .. 7) = Bits(fid) \cap (0 .. 7)
  BY <1>1, <1>3
<1>5. w \cap (12 .. 31) = shifted
  BY <1>1, <1>2, <1>3
<1>6. {b - 12 : b \in w \cap (12 .. 31)} = Bits(row) \cap (0 .. 19)
  <2>1. \A b \in Bits(row) \cap (0 .. 19) : b + 12 \in shifted /\ (b + 12) - 12 = b
    BY <1>2
  <2>2. \A c \in shifted : c - 12 \in Bits(row) \cap (0 .. 19)
    BY <1>2
  <2> HIDE DEF shifted
  <2> QED BY <1>5, <2>1, <2>2
<1>7. IfInFile(w)
  BY <1>1 DEF IfInFile, InFileBit
<1> QED BY <1>4, <1>6, <1>7 DEF GetFid, GetIdx, w

-----------------------------------------------------------------------------
(* What words say                                                          *)

\* A word whose two highest bits, which clear_idx leaves, are not set.
ClearWord(w) == w \in SUBSET (0 .. 29)

SlotLimit == TwoTo(18)

\* A number below the limit has its bits below the limit.
LEMMA LimitBits ==
  ASSUME NEW n \in Nat, n < SlotLimit
  PROVE  /\ Bits(n) \in SUBSET (0 .. 17) /\ Number(Bits(n)) = n
         /\ Bits(n) \cap (0 .. 19) = Bits(n)
<1>1. 18 \in 0 .. 31 /\ 18 - 1 = 17
  OBVIOUS
<1>2. Bits(n) \in SUBSET (0 .. 17) /\ Number(Bits(n)) = n
  BY <1>1, NumberOfBits DEF SlotLimit
<1>3. \A b \in 0 .. 17 : b \in 0 .. 19
  OBVIOUS
<1> QED BY <1>2, <1>3

\* A number is read from the bits that it was shifted to.
LEMMA ShiftedBack ==
  ASSUME NEW n \in Nat, n < SlotLimit, NEW w, w \in SUBSET (0 .. 29),
         \A b \in 12 .. 29 : b \in w <=> b - 12 \in Bits(n)
  PROVE  GetIdx(w) = n
<1>1. Bits(n) \in SUBSET (0 .. 17) /\ Number(Bits(n)) = n
  BY LimitBits
<1>2. \A b \in 0 .. 17 : b + 12 \in 12 .. 29 /\ (b + 12) - 12 = b
  OBVIOUS
<1>3. {b - 12 : b \in w \cap (12 .. 31)} \subseteq Bits(n)
  <2>1. SUFFICES ASSUME NEW b \in w, b \in 12 .. 31 PROVE b - 12 \in Bits(n)
    OBVIOUS
  <2>2. b \in 0 .. 29
    OBVIOUS
  <2>3. b \in 12 .. 29
    BY <2>1, <2>2
  <2> QED BY <2>3
<1>4. Bits(n) \subseteq {b - 12 : b \in w \cap (12 .. 31)}
  <2>1. SUFFICES ASSUME NEW c \in Bits(n) PROVE \E b \in w \cap (12 .. 31) : c = b - 12
    OBVIOUS
  <2>2. c \in 0 .. 17
    BY <1>1
  <2>3. c + 12 \in 12 .. 29 /\ (c + 12) - 12 = c /\ c + 12 \in 12 .. 31
    BY <2>2
  <2>4. c + 12 \in w
    BY <2>3
  <2> QED BY <2>3, <2>4
<1>5. {b - 12 : b \in w \cap (12 .. 31)} = Bits(n)
  BY <1>3, <1>4
<1> QED BY <1>1, <1>5 DEF GetIdx

\* set_idx puts a number below the limit into bits 12 to 29, and leaves 0 to 11.
LEMMA ShiftedIn ==
  ASSUME NEW n \in Nat, n < SlotLimit, NEW w, w \in SUBSET (0 .. 29)
  PROVE  /\ SetIdx(w, n) \in SUBSET (0 .. 29)
         /\ \A b \in 12 .. 29 : b \in SetIdx(w, n) <=> b - 12 \in Bits(n)
         /\ \A b \in 0 .. 11 : b \in SetIdx(w, n) <=> b \in w
<1> DEFINE s == {b + 12 : b \in Bits(n) \cap (0 .. 19)}
<1>1. Bits(n) \in SUBSET (0 .. 17) /\ Bits(n) \cap (0 .. 19) = Bits(n)
  BY LimitBits
<1>2. SetIdx(w, n) = (w \ (12 .. 29)) \cup s
  BY DEF SetIdx
<1>3. s \in SUBSET (12 .. 29)
  <2>1. SUFFICES ASSUME NEW b \in Bits(n) PROVE b + 12 \in 12 .. 29
    BY <1>1
  <2>2. b \in 0 .. 17
    BY <1>1
  <2> QED BY <2>2
<1>4. \A b \in 12 .. 29 : b \in s <=> b - 12 \in Bits(n)
  <2>1. TAKE b \in 12 .. 29
  <2>2. b \in s => b - 12 \in Bits(n)
    <3>1. ASSUME NEW c \in Bits(n), b = c + 12 PROVE b - 12 \in Bits(n)
      <4>1. c \in 0 .. 17
        BY <1>1
      <4>2. b - 12 = c
        BY <3>1, <4>1
      <4> QED BY <4>2
    <3> QED BY <1>1, <3>1
  <2>3. b - 12 \in Bits(n) => b \in s
    <3>1. b = (b - 12) + 12
      OBVIOUS
    <3> QED BY <1>1, <3>1
  <2> QED BY <2>2, <2>3
<1> HIDE DEF s
<1>5. SetIdx(w, n) \in SUBSET (0 .. 29)
  <2>1. \A b \in 12 .. 29 : b \in 0 .. 29
    OBVIOUS
  <2> QED BY <1>2, <1>3, <2>1
<1>6. \A b \in 12 .. 29 : b \in SetIdx(w, n) <=> b - 12 \in Bits(n)
  BY <1>2, <1>4
<1>7. \A b \in 0 .. 11 : b \in SetIdx(w, n) <=> b \in w
  <2>1. \A b \in 0 .. 11 : b \notin 12 .. 29
    OBVIOUS
  <2> QED BY <1>2, <1>3, <2>1
<1> QED BY <1>5, <1>6, <1>7

\* The word that write makes is that of a slot in the cache.
LEMMA CacheWord ==
  ASSUME NEW slot \in Nat, slot < SlotLimit
  PROVE  /\ ClearWord(BufferIndex(slot)) /\ GetIdx(BufferIndex(slot)) = slot
         /\ ~ IfInFile(SetInHash(BufferIndex(slot)))
         /\ GetIdx(SetInHash(BufferIndex(slot))) = slot
<1> DEFINE w == BufferIndex(slot)
<1>1. Bits(0) = {}
  <2>1. 0 \in 0 .. 31 /\ 0 \in Nat /\ 0 < TwoTo(0) /\ 0 .. (0 - 1) = {}
    BY TwoToIs
  <2> QED BY <2>1, NumberOfBits
<1>2. SetFid(NewIndex, 0) = {}
  BY <1>1 DEF SetFid, NewIndex
<1>3. w = SetIdx({}, slot)
  BY <1>2 DEF BufferIndex
<1> HIDE DEF w
<1>4. /\ w \in SUBSET (0 .. 29)
      /\ \A b \in 12 .. 29 : b \in w <=> b - 12 \in Bits(slot)
      /\ \A b \in 0 .. 11 : b \notin w
  BY <1>3, ShiftedIn
<1>5. GetIdx(w) = slot
  BY <1>4, ShiftedBack
<1>6. ~ IfInFile(SetInHash(w))
  BY <1>4 DEF SetInHash, IfInFile, InFileBit, InHashBit
<1>7. /\ SetInHash(w) \in SUBSET (0 .. 29)
      /\ \A b \in 12 .. 29 : b \in SetInHash(w) <=> b - 12 \in Bits(slot)
  BY <1>4 DEF SetInHash, InHashBit
<1>8. GetIdx(SetInHash(w)) = slot
  BY <1>7, ShiftedBack
<1> QED BY <1>4, <1>5, <1>6, <1>8 DEF w, ClearWord

\* An overwritten word has the new slot.
LEMMA OverwriteWord ==
  ASSUME NEW old, ClearWord(old), NEW slot \in Nat, slot < SlotLimit, ListId \in 0 .. 255
  PROVE  /\ ClearWord(SetFid(SetIdx(old, slot), ListId))
         /\ GetIdx(SetFid(SetIdx(old, slot), ListId)) = slot
<1> DEFINE w == SetFid(SetIdx(old, slot), ListId)
<1>1. Bits(ListId) \in SUBSET (0 .. 7)
  <2>1. 8 \in 0 .. 31 /\ 8 - 1 = 7 /\ ListId \in Nat /\ ListId < TwoTo(8)
    BY TwoToIs
  <2> QED BY <2>1, NumberOfBits
<1>2. w = (SetIdx(old, slot) \ (0 .. 7)) \cup Bits(ListId)
  BY DEF SetFid
<1>3. /\ SetIdx(old, slot) \in SUBSET (0 .. 29)
      /\ \A b \in 12 .. 29 : b \in SetIdx(old, slot) <=> b - 12 \in Bits(slot)
  BY ShiftedIn DEF ClearWord
<1> HIDE DEF w
<1>4. \A b \in 0 .. 7 : b \in 0 .. 29 /\ b \notin 12 .. 29
  OBVIOUS
<1>5. w \in SUBSET (0 .. 29)
  BY <1>1, <1>2, <1>3, <1>4
<1>6. \A b \in 12 .. 29 : b \in w <=> b - 12 \in Bits(slot)
  <2>1. \A b \in 12 .. 29 : b \in w <=> b \in SetIdx(old, slot)
    BY <1>1, <1>2, <1>4
  <2> QED BY <1>3, <2>1
<1>7. GetIdx(w) = slot
  BY <1>5, <1>6, ShiftedBack
<1> QED BY <1>5, <1>7 DEF w, ClearWord

\* The word that a dump makes is that of a row in a file, modulo 256.
LEMMA RowWord ==
  ASSUME NEW fid \in Nat, fid < TwoTo(30), NEW row \in Nat, row < SlotLimit
  PROVE  LET w == SetInHash(FileIndex(fid, row))
         IN  IfInFile(w) /\ GetFid(w) = fid % 256 /\ GetIdx(w) = row
<1>1. 30 \notin Bits(fid)
  <2>1. 30 \in 0 .. 31 /\ 30 - 1 = 29 /\ 30 \notin 0 .. 29
    OBVIOUS
  <2> QED BY <2>1, NumberOfBits
<1>2. Bits(row) \cap (0 .. 19) = Bits(row) /\ Number(Bits(row)) = row
  BY LimitBits
<1>3. Number(Bits(fid) \cap (0 .. 7)) = fid % 256
  BY LowByte
<1> QED BY <1>1, <1>2, <1>3, RowsAreDecoded

-----------------------------------------------------------------------------
(* Which slots the lists' words name                                       *)

\* What the sizes must be for words to hold them: a slot or row in the 18 bits
\* that are always cleared, the id of a list in the 8 bits of a file's number,
\* and the numbers of files below bit 30, which set_idx never clears.
NumbersFit ==
  /\ RECORD_BUFF_SIZE <= 2 ^ 18
  /\ ListId \in 0 .. 255
  /\ \A f \in FilesBefore : f + MaxWrites < 2 ^ 30

KeyAt(l, n)  == l.sk_data[0][n].key
SlotAt(l, n) == GetIdx(Word(l, n))

\* Every node names a slot of its own, which is handed out.
OwnSlots(l, nodes, wrote) ==
  \A n \in nodes :
    /\ ClearWord(Word(l, n)) /\ SlotAt(l, n) \in wrote
    /\ \A m \in nodes : SlotAt(l, m) = SlotAt(l, n) => m = n

Listing == Records(current.sk_data[0])
Merging == Records(curr_writing.sk_data[0])

\* The nodes whose records are yet to be written to the file.
Awaiting == IF dpc = "idle" THEN {} ELSE Merging \cup {kvs[i] : i \in rows + 1 .. Len(kvs)}

SlotsInv ==
  /\ OwnSlots(current, Listing, idxes_wrote)
  /\ OwnSlots(curr_writing, Awaiting, idxes_wrote)
  /\ \A m \in Listing, n \in Awaiting : SlotAt(current, m) # SlotAt(curr_writing, n)

\* What the merge popped comes in the order of the keys and before all it left.
MergeInv ==
  dpc # "idle" =>
    /\ \A n \in Merging \cup {kvs[i] : i \in 1 .. Len(kvs)} :
         \E name \in Names : KeyAt(curr_writing, n) = get_key(name)
    /\ \A i, j \in 1 .. Len(kvs) : i < j => KeyAt(curr_writing, kvs[i]) < KeyAt(curr_writing, kvs[j])
    /\ \A i \in 1 .. Len(kvs), n \in Merging : KeyAt(curr_writing, kvs[i]) < KeyAt(curr_writing, n)
    /\ dpc = "merge" => rows = 0 /\ (kvs = << >> => Merging # {})
    /\ dpc = "dump" => Merging = {} /\ kvs # << >>

\* No list has more records than the cache has slots, and each file took a write.
CountInv ==
  /\ Cardinality(Listing) <= RECORD_BUFF_SIZE
  /\ dpc # "idle" => Cardinality(Merging) + Len(kvs) <= RECORD_BUFF_SIZE
  /\ \E f \in FilesBefore :
       records_num + (IF dpc = "idle" THEN 0 ELSE 1) + (IF Listing = {} THEN 0 ELSE 1) <= f + writes

PromiseInv == IndexInv /\ TableInv /\ SlotsInv /\ MergeInv /\ CountInv

\* Slots are below the limit.
LEMMA SlotsAreSmall ==
  ASSUME NumbersFit, NEW s \in Slots
  PROVE  s \in Nat /\ s < SlotLimit
<1>1. RECORD_BUFF_SIZE <= 262144 /\ RECORD_BUFF_SIZE \in Nat
  BY BuffSizeAssumption DEF NumbersFit
<1>2. SlotLimit = 262144
  BY TwoToIs DEF SlotLimit
<1> QED BY <1>1, <1>2 DEF Slots

\* The invariant of the promise holds at the start.
LEMMA PromiseInit == Init => PromiseInv
<1> SUFFICES ASSUME Init PROVE PromiseInv
  OBVIOUS
<1>1. IndexInv /\ TableInv
  BY InvInit, TableInvInit
<1>2. dpc = "idle" /\ current = NewList /\ records_num \in FilesBefore /\ writes = 0
  BY DEF Init
<1>3. Listing = {} /\ Awaiting = {}
  BY <1>2, NewListIs DEF Listing, Awaiting
<1>4. SlotsInv
  BY <1>3 DEF SlotsInv, OwnSlots
<1>5. MergeInv
  BY <1>2 DEF MergeInv
<1>6. CountInv
  <2>1. Cardinality(Listing) = 0
    BY <1>3, FS_EmptySet
  <2>2. records_num \in Nat
    BY <1>2, KeyIndexAssumption
  <2> QED BY <1>2, <1>3, <2>1, <2>2, BuffSizeAssumption DEF CountInv
<1> QED BY <1>1, <1>4, <1>5, <1>6 DEF PromiseInv

\* The records of the current list are nodes with keys of their own.
LEMMA ListingIs ==
  ASSUME IndexInv
  PROVE  /\ IsFiniteSet(Listing) /\ Cardinality(Listing) \in Nat
         /\ CntNs(current) = Cardinality(Listing)
         /\ \A n : n \in Listing <=> Holds(current, KeyAt(current, n), n)
         /\ \A n \in Listing : n \in Nat \ {0} /\ KeyAt(current, n) \in Nat
         /\ \A m, n \in Listing : KeyAt(current, m) = KeyAt(current, n) => m = n
         /\ Listing = {} <=> FrontLvl0(current) = 0
<1>1. GoodLevel(current.sk_data[0]) /\ HasLevels(current) /\ Fits(current, 0)
  BY LevelsAre DEF IndexInv, GoodList, HasLevels
<1>2. IsFiniteSet(Listing) /\ Cardinality(Listing) \in Nat
  BY <1>1, GoodLevelIs, GoodLevelOf DEF Listing
<1>3. CntNs(current) = Cardinality(Listing)
  BY <1>1, CntNsIs DEF Listing
<1>4. /\ \A n \in Listing : n \in Nat \ {0} /\ KeyAt(current, n) \in Nat
      /\ \A m, n \in Listing : KeyAt(current, m) = KeyAt(current, n) => m = n
      /\ Listing = {} <=> FrontLvl0(current) = 0
  BY <1>1, RecordsAre DEF Listing, KeyAt, FrontLvl0
<1>5. \A n : n \in Listing <=> Holds(current, KeyAt(current, n), n)
  BY DEF Holds, KeyAt, Listing
<1> QED BY <1>2, <1>3, <1>4, <1>5

\* So are those left in the list that is being merged.
LEMMA MergingIs ==
  ASSUME IndexInv, dpc # "idle"
  PROVE  /\ IsFiniteSet(Merging) /\ Cardinality(Merging) \in Nat
         /\ \A n \in Merging : n \in Nat \ {0} /\ KeyAt(curr_writing, n) \in Nat
         /\ \A m, n \in Merging : KeyAt(curr_writing, m) = KeyAt(curr_writing, n) => m = n
         /\ Merging = {} <=> FrontLvl0(curr_writing) = 0
         /\ FrontLvl0(curr_writing) # 0 => FrontLvl0(curr_writing) \in Merging
         /\ Merging \subseteq DOMAIN curr_writing.sk_data[0] \ {0}
<1>1. GoodLevel(curr_writing.sk_data[0])
  BY LevelsAre DEF IndexInv, HasLevels
<1>2. IsFiniteSet(Merging) /\ Cardinality(Merging) \in Nat
  BY <1>1, GoodLevelIs, GoodLevelOf DEF Merging
<1>3. /\ \A n \in Merging : n \in Nat \ {0} /\ KeyAt(curr_writing, n) \in Nat
      /\ \A m, n \in Merging : KeyAt(curr_writing, m) = KeyAt(curr_writing, n) => m = n
      /\ Merging = {} <=> FrontLvl0(curr_writing) = 0
      /\ FrontLvl0(curr_writing) # 0 => FrontLvl0(curr_writing) \in Merging
      /\ Merging \subseteq DOMAIN curr_writing.sk_data[0] \ {0}
  BY <1>1, RecordsAre DEF Merging, KeyAt, FrontLvl0
<1> QED BY <1>2, <1>3

\* What a write does, in the terms of records.
WroteRecord(key, slot) ==
  /\ slot \in Slots /\ slot \notin idxes_wrote /\ idxes_wrote' = idxes_wrote \cup {slot}
  /\ HasEntry(key) /\ UpdateTable(key, BufferIndex(slot))
  /\ \E n : /\ n \in Listing' /\ KeyAt(current', n) = key
            /\ ClearWord(Word(current', n)) /\ SlotAt(current', n) = slot
            /\ \A m : m \in Listing' <=> m = n \/ m \in Listing
            /\ \A m \in Listing : KeyAt(current', m) = KeyAt(current, m)
            /\ \A m \in Listing : KeyAt(current, m) = key => m = n
            /\ \A m \in Listing : m # n => Word(current', m) = Word(current, m)

\* What write does to the records.
LEMMA WriteIs ==
  ASSUME NumbersFit, IndexInv, SlotsInv, NEW name \in Names, NEW height \in Heights(name),
         Write(name, height)
  PROVE  \E slot : WroteRecord(get_key(name), slot)
<1> DEFINE key == get_key(name)
<1>1. height \in 1 .. SKIP_LIST_MAX_HEIGHT
  BY SkipListAssumption DEF Heights
<1>2. key \in Nat
  BY KeyOf
<1>3. PICK slot \in Slots :
        /\ RequestSlot(slot) /\ HasEntry(key) /\ UpdateTable(key, BufferIndex(slot))
        /\ current' = UpdateList(current, key, BufferIndex(slot), height)
  BY DEF Write
<1> HIDE DEF key
<1> DEFINE old == BufferIndex(slot)
           word == WordOfUpdate(current, key, old)
<1>4. /\ ClearWord(old) /\ GetIdx(old) = slot /\ slot \in Nat /\ slot < SlotLimit
  BY SlotsAreSmall, CacheWord
<1>5. old \in SUBSET (0 .. 31)
  <2>1. \A b \in 0 .. 29 : b \in 0 .. 31
    OBVIOUS
  <2> HIDE DEF old
  <2> QED BY <1>4, <2>1 DEF ClearWord
<1> HIDE DEF old
<1>6. GoodList(current') /\ Written(current, key, word, current')
  BY <1>1, <1>2, <1>3, <1>5, UpdateIs DEF IndexInv, old
<1>7. ClearWord(word) /\ GetIdx(word) = slot
  <2>1. CASE Find(current, key) > 0
    <3>1. Find(current, key) \in Listing
      BY <1>2, <2>1, FindIs DEF IndexInv, Holds, Listing
    <3>2. ClearWord(Word(current, Find(current, key)))
      BY <3>1 DEF SlotsInv, OwnSlots
    <3>3. word = SetFid(SetIdx(Word(current, Find(current, key)), slot), ListId)
      BY <1>4, <2>1 DEF WordOfUpdate
    <3> QED BY <1>4, <3>2, <3>3, OverwriteWord DEF NumbersFit
  <2>2. CASE ~ (Find(current, key) > 0)
    BY <1>4, <2>2 DEF WordOfUpdate
  <2> QED BY <2>1, <2>2
<1> HIDE DEF word
<1>8. slot \notin idxes_wrote /\ idxes_wrote' = idxes_wrote \cup {slot}
  BY <1>3, RequestSlotLemma DEF IndexInv, BufferTypeOK, RequestSlot
<1>9. PICK n : Holds(current', key, n) /\ Word(current', n) = word
  BY <1>6 DEF Written
<1>10. \A m : m \in Listing' <=> Holds(current', KeyAt(current', m), m)
  BY DEF Holds, Listing, KeyAt
<1>11. \A m : m \in Listing <=> Holds(current, KeyAt(current, m), m)
  BY DEF Holds, Listing, KeyAt
<1>12. ASSUME NEW m \in Listing
       PROVE  m \in Listing' /\ KeyAt(current', m) = KeyAt(current, m)
  BY <1>6, <1>11 DEF Written, Holds, Listing, KeyAt
<1>13. \A m \in Listing : KeyAt(current, m) = key => m = n
  BY <1>6, <1>9, <1>11, HoldsIsOne DEF Written
<1>14. ASSUME NEW m \in Listing, m # n PROVE Word(current', m) = Word(current, m)
  <2>1. KeyAt(current, m) # key /\ Holds(current, KeyAt(current, m), m)
    BY <1>11, <1>13, <1>14
  <2> QED BY <1>6, <2>1 DEF Written
<1>15. ASSUME NEW m \in Listing', m # n PROVE m \in Listing
  <2>1. Holds(current', KeyAt(current', m), m)
    BY <1>10, <1>15
  <2>2. KeyAt(current', m) # key
    BY <1>6, <1>9, <1>15, <2>1, HoldsIsOne
  <2>3. Holds(current, KeyAt(current', m), m)
    BY <1>6, <2>1, <2>2 DEF Written
  <2> QED BY <2>3 DEF Holds, Listing
<1>16. n \in Listing' /\ KeyAt(current', n) = key /\ SlotAt(current', n) = slot
       /\ ClearWord(Word(current', n))
  BY <1>7, <1>9 DEF Holds, Listing, KeyAt, SlotAt
<1>17. UpdateTable(key, BufferIndex(slot))
  BY <1>3
<1> QED BY <1>3, <1>8, <1>12, <1>13, <1>14, <1>15, <1>16, <1>17 DEF WroteRecord, key

-----------------------------------------------------------------------------
(* That the promise's invariant is kept                                    *)

\* Nothing changes of what is being dumped.
DumperRests == UNCHANGED <<curr_writing, kvs, rows, dpc>>

\* A step of the writer leaves the pending nodes alone,
LEMMA AwaitingRests ==
  ASSUME DumperRests
  PROVE  Awaiting' = Awaiting /\ Merging' = Merging
BY DEF DumperRests, Awaiting, Merging

\* and their order.
LEMMA MergeInvRests ==
  ASSUME DumperRests, MergeInv
  PROVE  MergeInv'
<1>1. curr_writing' = curr_writing /\ kvs' = kvs /\ rows' = rows /\ dpc' = dpc /\ Merging' = Merging
  BY AwaitingRests DEF DumperRests
<1> QED BY <1>1 DEF MergeInv

\* A write takes a slot that no word names.
LEMMA WriteKeepsSlots ==
  ASSUME SlotsInv, DumperRests, NEW key, NEW slot, WroteRecord(key, slot)
  PROVE  SlotsInv'
<1>1. /\ slot \notin idxes_wrote /\ idxes_wrote' = idxes_wrote \cup {slot}
  BY DEF WroteRecord
<1>2. PICK n : /\ n \in Listing' /\ KeyAt(current', n) = key
               /\ ClearWord(Word(current', n)) /\ SlotAt(current', n) = slot
               /\ \A m : m \in Listing' <=> m = n \/ m \in Listing
               /\ \A m \in Listing : KeyAt(current', m) = KeyAt(current, m)
               /\ \A m \in Listing : KeyAt(current, m) = key => m = n
               /\ \A m \in Listing : m # n => Word(current', m) = Word(current, m)
  BY DEF WroteRecord
<1>3. Awaiting' = Awaiting /\ curr_writing' = curr_writing
  BY AwaitingRests DEF DumperRests
<1>4. ASSUME NEW m \in Listing', m # n
      PROVE  /\ m \in Listing /\ Word(current', m) = Word(current, m)
             /\ SlotAt(current', m) = SlotAt(current, m)
             /\ ClearWord(Word(current, m)) /\ SlotAt(current, m) \in idxes_wrote
  BY <1>2, <1>4 DEF SlotsInv, OwnSlots, SlotAt
<1>5. OwnSlots(current', Listing', idxes_wrote')
  <2>1. ASSUME NEW m \in Listing' PROVE ClearWord(Word(current', m)) /\ SlotAt(current', m) \in idxes_wrote'
    BY <1>1, <1>2, <1>4
  <2>2. ASSUME NEW m \in Listing', NEW x \in Listing', SlotAt(current', x) = SlotAt(current', m)
        PROVE  x = m
    <3>1. CASE m = n \/ x = n
      BY <1>1, <1>2, <1>4, <2>2, <3>1
    <3>2. CASE m # n /\ x # n
      BY <1>4, <2>2, <3>2 DEF SlotsInv, OwnSlots
    <3> QED BY <3>1, <3>2
  <2> QED BY <2>1, <2>2 DEF OwnSlots
<1>6. OwnSlots(curr_writing', Awaiting', idxes_wrote')
  BY <1>1, <1>3 DEF SlotsInv, OwnSlots
<1>7. ASSUME NEW m \in Listing', NEW x \in Awaiting'
      PROVE  SlotAt(current', m) # SlotAt(curr_writing', x)
  <2>1. x \in Awaiting /\ SlotAt(curr_writing', x) = SlotAt(curr_writing, x)
        /\ SlotAt(curr_writing, x) \in idxes_wrote
    BY <1>3 DEF SlotsInv, OwnSlots
  <2>2. CASE m = n
    BY <1>1, <1>2, <2>1, <2>2
  <2>3. CASE m # n
    BY <1>4, <2>1, <2>3 DEF SlotsInv
  <2> QED BY <2>2, <2>3
<1> QED BY <1>5, <1>6, <1>7 DEF SlotsInv

\* A write adds a record at most, to a list that is not full.
LEMMA WriteKeepsCount ==
  ASSUME IndexInv, CountInv, DumperRests, NEW key, NEW slot, WroteRecord(key, slot),
         ~ IsFull, writes' = writes + 1, records_num' = records_num
  PROVE  CountInv'
<1>1. PICK n : \A m : m \in Listing' <=> m = n \/ m \in Listing
  BY DEF WroteRecord
<1>2. IsFiniteSet(Listing) /\ Cardinality(Listing) \in Nat /\ Cardinality(Listing) < RECORD_BUFF_SIZE
  BY ListingIs, BuffSizeAssumption DEF IsFull
<1>3. Listing' = Listing \cup {n}
  BY <1>1
<1>4. Cardinality(Listing') <= RECORD_BUFF_SIZE
  <2>1. Cardinality(Listing \cup {n}) = Cardinality(Listing) \/ Cardinality(Listing \cup {n}) = Cardinality(Listing) + 1
    BY <1>2, FS_AddElement
  <2> QED BY <1>2, <1>3, <2>1, BuffSizeAssumption
<1>5. dpc' = dpc /\ kvs' = kvs /\ Merging' = Merging
  BY AwaitingRests DEF DumperRests
<1>6. PICK f \in FilesBefore :
        records_num + (IF dpc = "idle" THEN 0 ELSE 1) + (IF Listing = {} THEN 0 ELSE 1) <= f + writes
  BY DEF CountInv
<1>7. f \in Nat /\ records_num \in Nat /\ writes \in Nat
  BY KeyIndexAssumption DEF IndexInv
<1>8. records_num' + (IF dpc' = "idle" THEN 0 ELSE 1) + (IF Listing' = {} THEN 0 ELSE 1) <= f + writes'
  BY <1>5, <1>6, <1>7
<1> QED BY <1>4, <1>5, <1>8 DEF CountInv

\* What a round of the merge does to the records.
LEMMA MergeRoundIs ==
  ASSUME IndexInv, MergeInv, MergeRound
  PROVE  \E n : /\ n \in Merging /\ kvs' = Append(kvs, n) /\ Merging' = Merging \ {n}
                /\ \A m \in Merging : KeyAt(curr_writing, n) <= KeyAt(curr_writing, m)
                /\ \A m \in Merging \cup {kvs[i] : i \in 1 .. Len(kvs)} :
                     /\ KeyAt(curr_writing', m) = KeyAt(curr_writing, m)
                     /\ Word(curr_writing', m) = Word(curr_writing, m)
                     /\ KeyAt(curr_writing, m) \in Nat
<1> DEFINE n == FrontLvl0(curr_writing)
<1>1. PoppedFrom(curr_writing, n, curr_writing') /\ dpc # "idle" /\ kvs' = Append(kvs, n)
  BY MergeKeeps DEF MergeRound
<1>2. \A i \in 1 .. Len(kvs) : kvs[i] \in DOMAIN curr_writing.sk_data[0] \ {0}
  BY <1>1 DEF IndexInv, IsNode
<1>3. Merging \subseteq DOMAIN curr_writing.sk_data[0] \ {0}
  BY <1>1, MergingIs
<1> HIDE DEF n
<1>4. n \in Merging /\ Merging' = Merging \ {n}
      /\ \A m \in Merging : KeyAt(curr_writing, n) <= KeyAt(curr_writing, m)
  BY <1>1 DEF PoppedFrom, Merging, KeyAt
<1>5. ASSUME NEW m \in Merging \cup {kvs[i] : i \in 1 .. Len(kvs)}
      PROVE  /\ KeyAt(curr_writing', m) = KeyAt(curr_writing, m)
             /\ Word(curr_writing', m) = Word(curr_writing, m)
             /\ KeyAt(curr_writing, m) \in Nat
  <2>1. m \in DOMAIN curr_writing.sk_data[0] \ {0}
    BY <1>2, <1>3
  <2>2. PICK name \in Names : KeyAt(curr_writing, m) = get_key(name)
    BY <1>1 DEF MergeInv
  <2> QED BY <1>1, <2>1, <2>2, KeyOf DEF PoppedFrom, KeyAt, Word
<1> QED BY <1>1, <1>4, <1>5

\* A round of the merge moves the least key to the end of kvs.
LEMMA MergeKeepsPromise ==
  ASSUME IndexInv, SlotsInv, MergeInv, CountInv, MergeRound
  PROVE  SlotsInv' /\ MergeInv' /\ CountInv' /\ Awaiting' = Awaiting
<1>1. PICK n : /\ n \in Merging /\ kvs' = Append(kvs, n) /\ Merging' = Merging \ {n}
               /\ \A m \in Merging : KeyAt(curr_writing, n) <= KeyAt(curr_writing, m)
               /\ \A m \in Merging \cup {kvs[i] : i \in 1 .. Len(kvs)} :
                    /\ KeyAt(curr_writing', m) = KeyAt(curr_writing, m)
                    /\ Word(curr_writing', m) = Word(curr_writing, m)
                    /\ KeyAt(curr_writing, m) \in Nat
  BY MergeRoundIs
<1>2. /\ dpc = "merge" /\ dpc' = dpc /\ rows' = rows /\ current' = current
      /\ idxes_wrote' = idxes_wrote /\ records_num' = records_num /\ writes' = writes
  BY DEF MergeRound, bufferVars
<1>3. kvs \in Seq(Nat) /\ Len(kvs) \in Nat /\ rows \in 0 .. Len(kvs)
  BY DEF IndexInv
<1>4. /\ Len(kvs') = Len(kvs) + 1 /\ kvs'[Len(kvs) + 1] = n
      /\ \A i \in 1 .. Len(kvs) : kvs'[i] = kvs[i]
  <2>1. n \in Nat
    BY <1>1, <1>2, MergingIs
  <2> QED BY <1>1, <1>3, <2>1
<1>5. \A i \in 1 .. Len(kvs') : i = Len(kvs) + 1 \/ i \in 1 .. Len(kvs)
  BY <1>3, <1>4
<1>6. Awaiting' = Awaiting
  <2>1. ASSUME NEW m \in Awaiting' PROVE m \in Awaiting
    <3>1. CASE m \in Merging'
      BY <1>1, <1>2, <3>1 DEF Awaiting
    <3>2. CASE m \notin Merging'
      <4>1. PICK i \in rows + 1 .. Len(kvs') : m = kvs'[i]
        BY <1>2, <3>2 DEF Awaiting
      <4>2. i = Len(kvs) + 1 \/ i \in rows + 1 .. Len(kvs)
        BY <1>3, <1>4
      <4>3. i \in rows + 1 .. Len(kvs) => i \in 1 .. Len(kvs)
        BY <1>3
      <4> QED BY <1>1, <1>2, <1>4, <4>1, <4>2, <4>3 DEF Awaiting
    <3> QED BY <3>1, <3>2
  <2>2. ASSUME NEW m \in Awaiting PROVE m \in Awaiting'
    <3>1. CASE m \in Merging /\ m # n
      BY <1>1, <1>2, <3>1 DEF Awaiting
    <3>2. CASE m = n
      <4>1. Len(kvs) + 1 \in rows' + 1 .. Len(kvs')
        BY <1>2, <1>3, <1>4
      <4> QED BY <1>2, <1>4, <3>2, <4>1 DEF Awaiting
    <3>3. CASE m \notin Merging
      <4>1. PICK i \in rows + 1 .. Len(kvs) : m = kvs[i]
        BY <1>2, <3>3 DEF Awaiting
      <4>2. i \in rows' + 1 .. Len(kvs') /\ i \in 1 .. Len(kvs)
        BY <1>2, <1>3, <1>4, <4>1
      <4> QED BY <1>2, <1>4, <4>1, <4>2 DEF Awaiting
    <3> QED BY <3>1, <3>2, <3>3
  <2> QED BY <2>1, <2>2
<1>7. \A m \in Awaiting : /\ Word(curr_writing', m) = Word(curr_writing, m)
                          /\ SlotAt(curr_writing', m) = SlotAt(curr_writing, m)
  <2>1. ASSUME NEW m \in Awaiting PROVE m \in Merging \cup {kvs[i] : i \in 1 .. Len(kvs)}
    <3>1. \A i \in rows + 1 .. Len(kvs) : i \in 1 .. Len(kvs)
      BY <1>3
    <3> QED BY <1>2, <3>1 DEF Awaiting
  <2> QED BY <1>1, <2>1 DEF SlotAt
<1>8. Listing' = Listing
  BY <1>2 DEF Listing
<1>9. SlotsInv'
  BY <1>2, <1>6, <1>7, <1>8 DEF SlotsInv, OwnSlots
<1>10. MergeInv'
  <2>1. ASSUME NEW m \in Merging' \cup {kvs'[i] : i \in 1 .. Len(kvs')}
        PROVE  /\ m \in Merging \cup {kvs[i] : i \in 1 .. Len(kvs)}
               /\ \E name \in Names : KeyAt(curr_writing', m) = get_key(name)
    <3>1. m \in Merging \cup {kvs[i] : i \in 1 .. Len(kvs)}
      BY <1>1, <1>4, <1>5
    <3> QED BY <1>1, <1>2, <3>1 DEF MergeInv
  <2>2. ASSUME NEW i \in 1 .. Len(kvs'), NEW j \in 1 .. Len(kvs'), i < j
        PROVE  KeyAt(curr_writing', kvs'[i]) < KeyAt(curr_writing', kvs'[j])
    <3>1. i \in 1 .. Len(kvs) /\ kvs'[i] = kvs[i]
      BY <1>3, <1>4, <2>2
    <3>2. CASE j = Len(kvs) + 1
      BY <1>1, <1>2, <1>4, <3>1, <3>2 DEF MergeInv
    <3>3. CASE j # Len(kvs) + 1
      <4>1. j \in 1 .. Len(kvs) /\ kvs'[j] = kvs[j]
        BY <1>4, <1>5, <3>3
      <4> QED BY <1>1, <1>2, <2>2, <3>1, <4>1 DEF MergeInv
    <3> QED BY <3>2, <3>3
  <2>3. ASSUME NEW i \in 1 .. Len(kvs'), NEW m \in Merging'
        PROVE  KeyAt(curr_writing', kvs'[i]) < KeyAt(curr_writing', m)
    <3>1. m \in Merging /\ m # n /\ KeyAt(curr_writing', m) = KeyAt(curr_writing, m)
      BY <1>1
    <3>2. CASE i = Len(kvs) + 1
      <4>1. KeyAt(curr_writing, n) # KeyAt(curr_writing, m)
        BY <1>1, <1>2, <3>1, MergingIs
      <4>2. /\ KeyAt(curr_writing, n) \in Nat /\ KeyAt(curr_writing, m) \in Nat
            /\ KeyAt(curr_writing, n) <= KeyAt(curr_writing, m)
            /\ KeyAt(curr_writing', n) = KeyAt(curr_writing, n)
        BY <1>1, <3>1
      <4>3. KeyAt(curr_writing, n) < KeyAt(curr_writing, m)
        BY <4>1, <4>2
      <4> QED BY <1>4, <3>1, <3>2, <4>2, <4>3
    <3>3. CASE i # Len(kvs) + 1
      <4>1. i \in 1 .. Len(kvs) /\ kvs'[i] = kvs[i]
        BY <1>4, <1>5, <3>3
      <4> QED BY <1>1, <1>2, <3>1, <4>1 DEF MergeInv
    <3> QED BY <3>2, <3>3
  <2>4. kvs' # << >>
    BY <1>3, <1>4
  <2>5. rows = 0
    BY <1>2 DEF MergeInv
  <2> QED BY <1>2, <2>1, <2>2, <2>3, <2>4, <2>5 DEF MergeInv
<1>11. CountInv'
  <2>1. IsFiniteSet(Merging) /\ Cardinality(Merging) \in Nat
    BY <1>2, MergingIs
  <2>2. Cardinality(Merging') = Cardinality(Merging) - 1
    BY <1>1, <2>1, FS_RemoveElement
  <2>3. Cardinality(Merging') + Len(kvs') <= RECORD_BUFF_SIZE
    BY <1>2, <1>3, <1>4, <2>1, <2>2, BuffSizeAssumption DEF CountInv
  <2> QED BY <1>2, <1>8, <2>3 DEF CountInv
<1> QED BY <1>6, <1>9, <1>10, <1>11

\* A row of a dump is of the least key pending, and gives back its slot.
LEMMA DumpRowIs ==
  ASSUME IndexInv, MergeInv, DumpRow
  PROVE  LET n == kvs[rows + 1]
         IN  /\ n \in Awaiting /\ Awaiting' = Awaiting \ {n}
             /\ \A m \in Awaiting \ {n} : KeyAt(curr_writing, n) < KeyAt(curr_writing, m)
             /\ idxes_wrote' = idxes_wrote \ {SlotAt(curr_writing, n)}
             /\ \E name \in Names : KeyAt(curr_writing, n) = get_key(name)
<1> DEFINE n == kvs[rows + 1]
<1>1. /\ dpc = "dump" /\ dpc' = dpc /\ rows < Len(kvs) /\ rows' = rows + 1 /\ kvs' = kvs
      /\ curr_writing' = curr_writing /\ ReleaseSlot(SlotAt(curr_writing, n))
  BY DEF DumpRow, SlotAt, Word
<1>2. Merging = {} /\ Merging' = {}
  BY <1>1 DEF MergeInv, Merging
<1>3. Len(kvs) \in Nat /\ rows \in 0 .. Len(kvs)
  BY DEF IndexInv
<1>4. rows + 1 \in 1 .. Len(kvs) /\ rows + 1 \in rows + 1 .. Len(kvs)
  BY <1>1, <1>3
<1>5. /\ Awaiting = {kvs[i] : i \in rows + 1 .. Len(kvs)}
      /\ Awaiting' = {kvs[i] : i \in (rows + 1) + 1 .. Len(kvs)}
  BY <1>1, <1>2 DEF Awaiting
<1>6. \A i \in rows + 1 .. Len(kvs) : i = rows + 1 \/ i \in (rows + 1) + 1 .. Len(kvs)
  BY <1>3
<1>7. \A i \in (rows + 1) + 1 .. Len(kvs) :
        i \in rows + 1 .. Len(kvs) /\ i \in 1 .. Len(kvs) /\ rows + 1 < i
  BY <1>3
<1>8. /\ \A i \in 1 .. Len(kvs) : \E name \in Names : KeyAt(curr_writing, kvs[i]) = get_key(name)
      /\ \A i, j \in 1 .. Len(kvs) : i < j => KeyAt(curr_writing, kvs[i]) < KeyAt(curr_writing, kvs[j])
  BY <1>1 DEF MergeInv
<1> HIDE DEF n
<1>9. ASSUME NEW i \in (rows + 1) + 1 .. Len(kvs)
      PROVE  kvs[i] # n /\ KeyAt(curr_writing, n) < KeyAt(curr_writing, kvs[i])
  <2>1. KeyAt(curr_writing, n) < KeyAt(curr_writing, kvs[i])
    BY <1>4, <1>7, <1>8 DEF n
  <2>2. KeyAt(curr_writing, n) \in Nat
    BY <1>4, <1>8, KeyOf DEF n
  <2> QED BY <2>1, <2>2
<1>10. n \in Awaiting /\ Awaiting' = Awaiting \ {n}
  BY <1>4, <1>5, <1>6, <1>7, <1>9 DEF n
<1>11. \A m \in Awaiting \ {n} : KeyAt(curr_writing, n) < KeyAt(curr_writing, m)
  BY <1>5, <1>9, <1>10
<1>12. idxes_wrote' = idxes_wrote \ {SlotAt(curr_writing, n)}
  BY <1>1 DEF ReleaseSlot
<1> QED BY <1>4, <1>8, <1>10, <1>11, <1>12 DEF n

\* No other word names the slot that a row gives back.
LEMMA DumpKeepsPromise ==
  ASSUME IndexInv, SlotsInv, MergeInv, CountInv, DumpRow
  PROVE  SlotsInv' /\ MergeInv' /\ CountInv'
<1>1. PICK n : /\ n \in Awaiting /\ Awaiting' = Awaiting \ {n}
               /\ idxes_wrote' = idxes_wrote \ {SlotAt(curr_writing, n)}
  BY DumpRowIs
<1>2. /\ dpc = "dump" /\ dpc' = dpc /\ kvs' = kvs /\ curr_writing' = curr_writing
      /\ current' = current /\ records_num' = records_num /\ writes' = writes
  BY DEF DumpRow
<1>3. Listing' = Listing /\ Merging' = Merging
  BY <1>2 DEF Listing, Merging
<1>4. SlotsInv'
  <2>1. OwnSlots(current', Listing', idxes_wrote')
    <3>1. \A m \in Listing : SlotAt(current, m) # SlotAt(curr_writing, n)
      BY <1>1 DEF SlotsInv
    <3> QED BY <1>1, <1>2, <1>3, <3>1 DEF SlotsInv, OwnSlots
  <2>2. OwnSlots(curr_writing', Awaiting', idxes_wrote')
    <3>1. \A m \in Awaiting \ {n} : SlotAt(curr_writing, m) # SlotAt(curr_writing, n)
      BY <1>1 DEF SlotsInv, OwnSlots
    <3> QED BY <1>1, <1>2, <3>1 DEF SlotsInv, OwnSlots
  <2>3. \A m \in Listing', x \in Awaiting' : SlotAt(current', m) # SlotAt(curr_writing', x)
    BY <1>1, <1>2, <1>3 DEF SlotsInv
  <2> QED BY <2>1, <2>2, <2>3 DEF SlotsInv
<1>5. MergeInv'
  BY <1>2, <1>3 DEF MergeInv
<1>6. CountInv'
  BY <1>2, <1>3 DEF CountInv
<1> QED BY <1>4, <1>5, <1>6

\* What is submitted is the current list, which is not empty.
LEMMA SubmitKeepsPromise ==
  ASSUME IndexInv, SlotsInv, CountInv, SubmitDump
  PROVE  /\ SlotsInv' /\ MergeInv' /\ CountInv'
         /\ Awaiting = {} /\ Awaiting' = Listing /\ Listing # {} /\ Listing' = {}
<1>1. /\ dpc = "idle" /\ dpc' = "merge" /\ curr_writing' = current /\ current' = NewList
      /\ IsFull
      /\ idxes_wrote' = idxes_wrote /\ kvs' = kvs /\ rows' = rows /\ records_num' = records_num
      /\ writes' = writes
  BY DEF SubmitDump, bufferVars
<1>2. kvs = << >> /\ rows = 0 /\ Len(kvs) = 0 /\ 0 + 1 .. 0 = {} /\ 1 .. 0 = {}
  BY <1>1 DEF IndexInv
<1>3. Listing' = {} /\ Merging' = Listing
  BY <1>1, NewListIs DEF Listing, Merging
<1>4. Awaiting = {} /\ Awaiting' = Listing
  BY <1>1, <1>2, <1>3 DEF Awaiting
<1>5. Listing # {}
  <2>1. Cardinality(Listing) >= RECORD_BUFF_SIZE /\ Cardinality({}) = 0
    BY <1>1, ListingIs, FS_EmptySet DEF IsFull
  <2> QED BY <2>1, BuffSizeAssumption
<1>6. SlotsInv'
  BY <1>1, <1>3, <1>4 DEF SlotsInv, OwnSlots
<1>7. MergeInv'
  <2>1. \A n \in Merging' : \E name \in Names : KeyAt(curr_writing', n) = get_key(name)
    BY <1>1, <1>3 DEF IndexInv, Named, KeyAt, Listing
  <2> QED BY <1>1, <1>2, <1>3, <1>5, <2>1 DEF MergeInv
<1>8. CountInv'
  <2>1. Cardinality(Listing') = 0
    BY <1>3, FS_EmptySet
  <2>2. Cardinality(Merging') + Len(kvs') <= RECORD_BUFF_SIZE
    <3>1. Cardinality(Listing) \in Nat
      BY ListingIs
    <3> QED BY <1>1, <1>2, <1>3, <3>1, BuffSizeAssumption DEF CountInv
  <2>3. PICK f \in FilesBefore :
          records_num + (IF dpc = "idle" THEN 0 ELSE 1) + (IF Listing = {} THEN 0 ELSE 1) <= f + writes
    BY DEF CountInv
  <2>4. records_num + 1 <= f + writes /\ records_num \in Nat
    BY <1>1, <1>5, <2>3 DEF IndexInv
  <2>5. records_num' + (IF dpc' = "idle" THEN 0 ELSE 1) + (IF Listing' = {} THEN 0 ELSE 1) <= f + writes'
    BY <1>1, <1>3, <2>4
  <2> QED BY <2>1, <2>2, <2>5, BuffSizeAssumption DEF CountInv
<1> QED BY <1>3, <1>4, <1>5, <1>6, <1>7, <1>8

\* The merge leaves nothing: no key is as large as the value it starts from.
LEMMA MergeTakesAll ==
  ASSUME IndexInv, MergeInv, dpc # "idle", ~ HasSmallest
  PROVE  Merging = {}
<1> DEFINE n == FrontLvl0(curr_writing)
<1>1. Merging = {} <=> n = 0
  BY MergingIs
<1>2. CASE n # 0
  <2>1. n \in Merging
    BY <1>2, MergingIs
  <2>2. PICK name \in Names : KeyAt(curr_writing, n) = get_key(name)
    BY <2>1 DEF MergeInv
  <2>3. KeyAt(curr_writing, n) < INT64_MAX
    BY <2>2, KeysAreBelow
  <2> QED BY <1>2, <2>3 DEF HasSmallest, KeyAt
<1> QED BY <1>1, <1>2

\* When the merge is done kvs has all records.
LEMMA MergeDoneKeepsPromise ==
  ASSUME IndexInv, SlotsInv, MergeInv, CountInv, MergeDone
  PROVE  SlotsInv' /\ MergeInv' /\ CountInv' /\ Awaiting' = Awaiting
<1>1. /\ dpc = "merge" /\ dpc' = "dump" /\ ~ HasSmallest
      /\ curr_writing' = curr_writing /\ current' = current /\ idxes_wrote' = idxes_wrote
      /\ kvs' = kvs /\ rows' = rows /\ records_num' = records_num /\ writes' = writes
  BY DEF MergeDone, bufferVars
<1>2. Merging = {} /\ Merging' = {} /\ Listing' = Listing
  BY <1>1, MergeTakesAll DEF Merging, Listing
<1>3. Awaiting' = Awaiting
  BY <1>1, <1>2 DEF Awaiting
<1>4. SlotsInv'
  BY <1>1, <1>2, <1>3 DEF SlotsInv
<1>5. MergeInv'
  BY <1>1, <1>2 DEF MergeInv
<1>6. CountInv'
  BY <1>1, <1>2 DEF CountInv
<1> QED BY <1>3, <1>4, <1>5, <1>6

\* When the dump ends nothing is pending.
LEMMA EndKeepsPromise ==
  ASSUME IndexInv, SlotsInv, MergeInv, CountInv, EndDumping
  PROVE  SlotsInv' /\ MergeInv' /\ CountInv' /\ Awaiting = {} /\ Awaiting' = {} /\ rows > 0
<1>1. /\ dpc = "dump" /\ dpc' = "idle" /\ rows = Len(kvs)
      /\ current' = current /\ idxes_wrote' = idxes_wrote
      /\ records_num' = records_num + 1 /\ writes' = writes
  BY DEF EndDumping, bufferVars
<1>2. kvs \in Seq(Nat) /\ Len(kvs) \in Nat
  BY DEF IndexInv
<1>3. Merging = {} /\ kvs # << >> /\ Listing' = Listing
  BY <1>1 DEF MergeInv, Listing
<1>4. rows + 1 .. Len(kvs) = {}
  BY <1>1, <1>2
<1>5. Awaiting = {} /\ Awaiting' = {}
  BY <1>1, <1>3, <1>4 DEF Awaiting
<1>6. rows > 0
  BY <1>1, <1>2, <1>3
<1>7. SlotsInv'
  BY <1>1, <1>3, <1>5 DEF SlotsInv, OwnSlots
<1>8. MergeInv'
  BY <1>1 DEF MergeInv
<1>9. CountInv'
  <2>1. PICK f \in FilesBefore :
          records_num + (IF dpc = "idle" THEN 0 ELSE 1) + (IF Listing = {} THEN 0 ELSE 1) <= f + writes
    BY DEF CountInv
  <2>2. records_num \in Nat
    BY DEF IndexInv
  <2>3. records_num' + (IF dpc' = "idle" THEN 0 ELSE 1) + (IF Listing' = {} THEN 0 ELSE 1) <= f + writes'
    BY <1>1, <1>3, <2>1, <2>2
  <2> QED BY <1>1, <1>3, <2>3 DEF CountInv
<1> QED BY <1>5, <1>6, <1>7, <1>8, <1>9

\* A write keeps the invariant of the promise.
LEMMA WriteKeepsPromise ==
  ASSUME NumbersFit, IndexInv, SlotsInv, MergeInv, CountInv,
         NEW name \in Names, NEW height \in Heights(name), Write(name, height)
  PROVE  SlotsInv' /\ MergeInv' /\ CountInv'
<1>1. PICK slot : WroteRecord(get_key(name), slot)
  BY WriteIs
<1>2. DumperRests /\ ~ IsFull /\ writes' = writes + 1 /\ records_num' = records_num
  BY DEF Write, dumperVars, DumperRests
<1> QED BY <1>1, <1>2, WriteKeepsSlots, MergeInvRests, WriteKeepsCount

\* Every step keeps the invariant of the promise.
LEMMA PromiseStep == NumbersFit /\ HashIsNumber /\ PromiseInv /\ [Next]_vars => PromiseInv'
<1> SUFFICES ASSUME NumbersFit, HashIsNumber, PromiseInv, [Next]_vars PROVE PromiseInv'
  OBVIOUS
<1>1. IndexInv /\ TableInv /\ SlotsInv /\ MergeInv /\ CountInv
  BY DEF PromiseInv
<1>2. IndexInv' /\ TableInv'
  BY <1>1, InvStep, TableInvStep
<1>3. SlotsInv' /\ MergeInv' /\ CountInv'
  <2>1. ASSUME NEW name \in Names, NEW height \in Heights(name), Write(name, height)
        PROVE  SlotsInv' /\ MergeInv' /\ CountInv'
    BY <1>1, <2>1, WriteKeepsPromise
  <2>2. ASSUME NEW name \in Names, TableFull(name)
        PROVE  SlotsInv' /\ MergeInv' /\ CountInv'
    <3>1. PICK slot \in Slots : RequestSlot(slot)
      BY <2>2 DEF TableFull
    <3>2. DumperRests /\ current' = current /\ records_num' = records_num /\ writes' = writes + 1
          /\ dpc' = dpc /\ kvs' = kvs /\ curr_writing' = curr_writing
      BY <2>2 DEF TableFull, dumperVars, DumperRests
    <3>3. idxes_wrote' = idxes_wrote \cup {slot}
      BY <3>1 DEF RequestSlot
    <3>4. Awaiting' = Awaiting /\ Listing' = Listing /\ Merging' = Merging
      BY <3>2, AwaitingRests DEF Listing
    <3>5. SlotsInv'
      BY <1>1, <3>2, <3>3, <3>4 DEF SlotsInv, OwnSlots
    <3>6. CountInv'
      <4>1. PICK f \in FilesBefore :
              records_num + (IF dpc = "idle" THEN 0 ELSE 1) + (IF Listing = {} THEN 0 ELSE 1) <= f + writes
        BY <1>1 DEF CountInv
      <4>2. records_num \in Nat /\ f \in Nat /\ writes \in Nat
        BY <1>1, KeyIndexAssumption DEF IndexInv
      <4>3. records_num' + (IF dpc' = "idle" THEN 0 ELSE 1) + (IF Listing' = {} THEN 0 ELSE 1) <= f + writes'
        BY <3>2, <3>4, <4>1, <4>2
      <4> QED BY <1>1, <3>2, <3>4, <4>3 DEF CountInv
    <3> QED BY <1>1, <3>2, <3>5, <3>6, MergeInvRests
  <2>3. CASE SubmitDump
    BY <1>1, <2>3, SubmitKeepsPromise
  <2>4. CASE MergeRound
    BY <1>1, <2>4, MergeKeepsPromise
  <2>5. CASE MergeDone
    BY <1>1, <2>5, MergeDoneKeepsPromise
  <2>6. CASE DumpRow
    BY <1>1, <2>6, DumpKeepsPromise
  <2>7. CASE EndDumping
    BY <1>1, <2>7, EndKeepsPromise
  <2>8. CASE UNCHANGED vars
    <3>1. DumperRests /\ current' = current /\ records_num' = records_num /\ writes' = writes
          /\ dpc' = dpc /\ kvs' = kvs /\ curr_writing' = curr_writing /\ idxes_wrote' = idxes_wrote
      BY <2>8 DEF vars, dumperVars, bufferVars, DumperRests
    <3>2. Awaiting' = Awaiting /\ Listing' = Listing /\ Merging' = Merging
      BY <3>1, AwaitingRests DEF Listing
    <3>3. SlotsInv'
      BY <1>1, <3>1, <3>2 DEF SlotsInv
    <3>4. CountInv'
      BY <1>1, <3>1, <3>2 DEF CountInv
    <3> QED BY <1>1, <3>1, <3>3, <3>4, MergeInvRests
  <2> QED BY <2>1, <2>2, <2>3, <2>4, <2>5, <2>6, <2>7, <2>8 DEF Next
<1> QED BY <1>2, <1>3 DEF PromiseInv

-----------------------------------------------------------------------------
(* The state of the promise                                                *)

PlaceBar == [name \in Names |-> PlaceOf[get_key(name)]]
ListBar  == SlotsOf(Listed, current)
DumpBar  == SlotsOf(Pending, curr_writing)

\* The keys of names are among those that the promise looks at.
LEMMA KeyInKeys ==
  ASSUME NEW name \in Names
  PROVE  get_key(name) \in Keys
BY KeyOf, KeysAreBelow DEF Keys

\* f gives the slot of each name that has its key at one of the nodes of l.
Books(l, nodes, f) ==
  /\ f = [name \in DOMAIN f |-> f[name]]
  /\ DOMAIN f = {name \in Names : \E n \in nodes : KeyAt(l, n) = get_key(name)}
  /\ \A n \in nodes, name \in Names : KeyAt(l, n) = get_key(name) => f[name] = SlotAt(l, n)

\* A search that finds the nodes' keys, and no others, makes such books.
LEMMA SearchMakesBooks ==
  ASSUME NEW l, NEW nodes, NEW node,
         \A key \in Keys : \/ node[key] \in nodes /\ node[key] # -1 /\ KeyAt(l, node[key]) = key
                           \/ node[key] = -1 /\ \A n \in nodes : KeyAt(l, n) # key,
         \A m, n \in nodes : KeyAt(l, m) = KeyAt(l, n) => m = n
  PROVE  Books(l, nodes, SlotsOf(node, l))
<1> DEFINE f == SlotsOf(node, l)
<1>1. f = [name \in {m \in Names : node[get_key(m)] # -1} |-> SlotAt(l, node[get_key(name)])]
  BY DEF SlotsOf, SlotAt
<1> HIDE DEF f
<1>2. DOMAIN f = {name \in Names : node[get_key(name)] # -1}
      /\ f = [name \in DOMAIN f |-> f[name]]
  BY <1>1
<1>3. ASSUME NEW name \in Names
      PROVE  node[get_key(name)] # -1 <=> \E n \in nodes : KeyAt(l, n) = get_key(name)
  BY KeyInKeys
<1>4. ASSUME NEW n \in nodes, NEW name \in Names, KeyAt(l, n) = get_key(name)
      PROVE  f[name] = SlotAt(l, n)
  <2>1. node[get_key(name)] \in nodes /\ node[get_key(name)] # -1
        /\ KeyAt(l, node[get_key(name)]) = get_key(name)
    BY <1>4, KeyInKeys
  <2>2. node[get_key(name)] = n
    BY <1>4, <2>1
  <2> QED BY <1>1, <2>1, <2>2
<1>5. DOMAIN f = {name \in Names : \E n \in nodes : KeyAt(l, n) = get_key(name)}
  BY <1>2, <1>3
<1> QED BY <1>2, <1>4, <1>5 DEF Books, f

\* Find gives the books of the current list.
LEMMA ListBarIs ==
  ASSUME IndexInv
  PROVE  Books(current, Listing, ListBar)
<1>1. \A m, n \in Listing : KeyAt(current, m) = KeyAt(current, n) => m = n
  BY ListingIs
<1>2. ASSUME NEW key \in Keys
      PROVE  \/ Listed[key] \in Listing /\ Listed[key] # -1 /\ KeyAt(current, Listed[key]) = key
             \/ Listed[key] = -1 /\ \A n \in Listing : KeyAt(current, n) # key
  <2>1. key \in Nat /\ Listed[key] = Find(current, key)
    BY DEF Listed, Keys
  <2>2. \/ Holds(current, key, Find(current, key)) /\ Find(current, key) \in Nat \ {0}
        \/ Find(current, key) = -1 /\ \A n : ~ Holds(current, key, n)
    BY <2>1, FindIs DEF IndexInv
  <2> QED BY <2>1, <2>2 DEF Holds, Listing, KeyAt
<1> QED BY <1>1, <1>2, SearchMakesBooks DEF ListBar

\* Pending nodes have keys of names, each its own.
LEMMA AwaitingIs ==
  ASSUME IndexInv, MergeInv
  PROVE  \A n \in Awaiting :
           /\ n \in Nat
           /\ \E name \in Names : KeyAt(curr_writing, n) = get_key(name)
           /\ \A m \in Awaiting : KeyAt(curr_writing, m) = KeyAt(curr_writing, n) => m = n
<1>1. CASE dpc = "idle"
  BY <1>1 DEF Awaiting
<1>2. CASE dpc # "idle"
  <2>1. kvs \in Seq(Nat) /\ Len(kvs) \in Nat /\ rows \in 0 .. Len(kvs)
    BY DEF IndexInv
  <2>2. \A i \in rows + 1 .. Len(kvs) : i \in 1 .. Len(kvs)
    BY <2>1
  <2>3. \A n \in Awaiting : n \in Merging \/ \E i \in 1 .. Len(kvs) : n = kvs[i]
    BY <1>2, <2>2 DEF Awaiting
  <2>4. \A n \in Awaiting : n \in Nat
    BY <1>2, <2>1, <2>3, MergingIs
  <2>5. \A n \in Awaiting : \E name \in Names : KeyAt(curr_writing, n) = get_key(name)
    BY <1>2, <2>3 DEF MergeInv
  <2>6. \A n \in Awaiting : KeyAt(curr_writing, n) \in Nat
    BY <2>5, KeyOf
  <2>7. ASSUME NEW n \in Awaiting, NEW m \in Awaiting, KeyAt(curr_writing, m) = KeyAt(curr_writing, n)
        PROVE  m = n
    <3>1. CASE m \in Merging /\ n \in Merging
      BY <1>2, <2>7, <3>1, MergingIs
    <3>2. CASE m \notin Merging /\ n \in Merging
      BY <1>2, <2>3, <2>6, <2>7, <3>2 DEF MergeInv
    <3>3. CASE m \in Merging /\ n \notin Merging
      BY <1>2, <2>3, <2>6, <2>7, <3>3 DEF MergeInv
    <3>4. CASE m \notin Merging /\ n \notin Merging
      <4>1. PICK i, j : i \in 1 .. Len(kvs) /\ j \in 1 .. Len(kvs) /\ m = kvs[i] /\ n = kvs[j]
        BY <2>3, <3>4
      <4>2. i < j \/ j < i \/ i = j
        BY <2>1, <4>1
      <4>3. ~ (i < j) /\ ~ (j < i)
        BY <1>2, <2>6, <2>7, <4>1 DEF MergeInv
      <4> QED BY <4>1, <4>2, <4>3
    <3> QED BY <3>1, <3>2, <3>3, <3>4
  <2> QED BY <2>4, <2>5, <2>7
<1> QED BY <1>1, <1>2

\* Max, of the nodes of a key with -1 added.
LEMMA MaxWithNone ==
  /\ Max({-1}) = -1
  /\ \A n \in Nat : Max({-1, n}) = n
<1>1. Max({-1}) = -1
  BY DEF Max
<1>2. ASSUME NEW n \in Nat PROVE Max({-1, n}) = n
  <2>1. \A x \in {-1, n} : (\A y \in {-1, n} : x >= y) <=> x = n
    OBVIOUS
  <2> QED BY <2>1 DEF Max
<1> QED BY <1>1, <1>2

\* Pending gives the books of the nodes that are pending.
LEMMA DumpBarIs ==
  ASSUME IndexInv, MergeInv
  PROVE  Books(curr_writing, Awaiting, DumpBar)
<1>1. \A m, n \in Awaiting : KeyAt(curr_writing, m) = KeyAt(curr_writing, n) => m = n
  BY AwaitingIs
<1>2. ASSUME NEW key \in Keys
      PROVE  \/ Pending[key] \in Awaiting /\ Pending[key] # -1 /\ KeyAt(curr_writing, Pending[key]) = key
             \/ Pending[key] = -1 /\ \A n \in Awaiting : KeyAt(curr_writing, n) # key
  <2>1. CASE dpc = "idle"
    BY <1>2, <2>1 DEF Pending, Awaiting
  <2>2. CASE dpc # "idle"
    <3> DEFINE S == {n \in Awaiting : KeyAt(curr_writing, n) = key}
    <3>1. Pending[key] = Max({-1} \cup S)
      BY <2>2 DEF Pending, Awaiting, Merging, KeyAt
    <3>2. CASE S = {}
      <4>1. {-1} \cup S = {-1}
        BY <3>2
      <4> QED BY <3>1, <3>2, <4>1, MaxWithNone
    <3>3. CASE S # {}
      <4>1. PICK n : n \in S
        BY <3>3
      <4>2. S = {n} /\ n \in Nat /\ n # -1
        BY <1>1, <4>1, AwaitingIs
      <4>3. {-1} \cup S = {-1, n}
        BY <4>2
      <4>4. Pending[key] = n
        BY <3>1, <4>2, <4>3, MaxWithNone
      <4> QED BY <4>1, <4>2, <4>4
    <3> QED BY <3>2, <3>3
  <2> QED BY <2>1, <2>2
<1> QED BY <1>1, <1>2, SearchMakesBooks DEF DumpBar

\* ListBarIs and DumpBarIs, after a step.
LEMMA BarsNext ==
  (IndexInv /\ MergeInv =>
     Books(current, Listing, ListBar) /\ Books(curr_writing, Awaiting, DumpBar))'
<1>1. IndexInv /\ MergeInv =>
        Books(current, Listing, ListBar) /\ Books(curr_writing, Awaiting, DumpBar)
  BY ListBarIs, DumpBarIs
<1> QED BY <1>1, PTL

\* The same keys and slots make the same books.
LEMMA SameBooks ==
  ASSUME NEW l, NEW nodes, NEW f, NEW k, NEW new, NEW g,
         Books(l, nodes, f), Books(k, new, g), nodes = new,
         \A n \in nodes : KeyAt(k, n) = KeyAt(l, n) /\ SlotAt(k, n) = SlotAt(l, n)
  PROVE  g = f
<1>1. DOMAIN g = DOMAIN f
  BY DEF Books
<1>2. \A name \in DOMAIN f : g[name] = f[name]
  <2>1. TAKE name \in DOMAIN f
  <2>2. name \in Names /\ \E n \in nodes : KeyAt(l, n) = get_key(name)
    BY DEF Books
  <2> QED BY <2>2 DEF Books
<1>3. f = [name \in DOMAIN f |-> f[name]] /\ g = [name \in DOMAIN g |-> g[name]]
  BY DEF Books
<1> QED BY <1>1, <1>2, <1>3

-----------------------------------------------------------------------------
(* The steps of the promise                                                *)

\* No place changes while the table does not.
LEMMA PlaceRests ==
  ASSUME data' = data
  PROVE  PlaceBar' = PlaceBar
BY DEF PlaceBar, PlaceOf, InTable, IndexOf, HasEntry, Entry, Stops, Probe

\* An update of one name's entry.
LEMMA PlaceOfName ==
  ASSUME HashIsNumber, TableInv, NEW name \in Names, NEW w, SetInHash(w) \in SUBSET (0 .. 31),
         HasEntry(get_key(name)), UpdateTable(get_key(name), w)
  PROVE  PlaceBar' = [PlaceBar EXCEPT ![name] = Decoded[SetInHash(w)]]
<1> DEFINE key == get_key(name)
           P(k) == IF InTable(k) THEN Decoded[IndexOf(k)] ELSE [where |-> "nowhere"]
<1>1. /\ InTable(key)' /\ IndexOf(key)' = SetInHash(w)
      /\ \A x : x # key => /\ InTable(x)' <=> InTable(x)
                           /\ InTable(x) => IndexOf(x)' = IndexOf(x)
  BY UpdateIsApart
<1>2. \A m \in Names : PlaceBar[m] = IF InTable(get_key(m)) THEN Decoded[IndexOf(get_key(m))]
                                     ELSE [where |-> "nowhere"]
  BY KeyInKeys DEF PlaceBar, PlaceOf
<1>3. \A m \in Names : PlaceBar'[m] = IF InTable(get_key(m))' THEN Decoded[IndexOf(get_key(m))']
                                      ELSE [where |-> "nowhere"]
  <2>1. PlaceBar' = [m \in Names |-> PlaceOf'[get_key(m)]]
    BY DEF PlaceBar
  <2>2. ASSUME NEW k \in Keys
        PROVE  PlaceOf'[k] = IF InTable(k)' THEN Decoded[IndexOf(k)'] ELSE [where |-> "nowhere"]
    BY DEF PlaceOf
  <2> QED BY <2>1, <2>2, KeyInKeys
<1>4. PlaceBar'[name] = Decoded[SetInHash(w)]
  BY <1>1, <1>3
<1>5. ASSUME NEW m \in Names, m # name PROVE PlaceBar'[m] = PlaceBar[m]
  <2>1. get_key(m) # key
    BY <1>5, KeysDiffer
  <2> QED BY <1>1, <1>2, <1>3, <2>1
<1>6. PlaceBar = [m \in Names |-> PlaceBar[m]] /\ PlaceBar' = [m \in Names |-> PlaceBar'[m]]
  BY DEF PlaceBar
<1> QED BY <1>4, <1>5, <1>6

\* Steps that change no key, word or place are not seen in the promise.
LEMMA BarsRest ==
  ASSUME PromiseInv, PromiseInv', data' = data, current' = current, Awaiting' = Awaiting,
         \A n \in Awaiting : KeyAt(curr_writing', n) = KeyAt(curr_writing, n)
                             /\ Word(curr_writing', n) = Word(curr_writing, n)
  PROVE  PlaceBar' = PlaceBar /\ ListBar' = ListBar /\ DumpBar' = DumpBar
<1>1. Books(current, Listing, ListBar) /\ Books(curr_writing, Awaiting, DumpBar)
  BY ListBarIs, DumpBarIs DEF PromiseInv
<1>2. Books(current', Listing', ListBar') /\ Books(curr_writing', Awaiting', DumpBar')
  BY BarsNext DEF PromiseInv
<1>3. Listing' = Listing
  BY DEF Listing
<1>4. ListBar' = ListBar
  BY <1>1, <1>2, <1>3, SameBooks
<1>5. \A n \in Awaiting : SlotAt(curr_writing', n) = SlotAt(curr_writing, n)
  BY DEF SlotAt
<1>6. DumpBar' = DumpBar
  BY <1>1, <1>2, <1>5, SameBooks
<1> QED BY <1>4, <1>6, PlaceRests

\* A write is that of its name.
LEMMA WriteRefines ==
  ASSUME NumbersFit, HashIsNumber, PromiseInv, PromiseInv',
         NEW name \in Names, NEW height \in Heights(name), Write(name, height)
  PROVE  \E slot \in Slots : Map!Write(name, slot)
<1>1. PICK slot : WroteRecord(get_key(name), slot)
  BY WriteIs DEF PromiseInv
<1>2. /\ slot \in Slots /\ slot \notin idxes_wrote
      /\ HasEntry(get_key(name)) /\ UpdateTable(get_key(name), BufferIndex(slot))
  BY <1>1 DEF WroteRecord
<1>3. PICK n : /\ n \in Listing' /\ KeyAt(current', n) = get_key(name)
               /\ ClearWord(Word(current', n)) /\ SlotAt(current', n) = slot
               /\ \A m : m \in Listing' <=> m = n \/ m \in Listing
               /\ \A m \in Listing : KeyAt(current', m) = KeyAt(current, m)
               /\ \A m \in Listing : KeyAt(current, m) = get_key(name) => m = n
               /\ \A m \in Listing : m # n => Word(current', m) = Word(current, m)
  BY <1>1 DEF WroteRecord
<1>4. DumperRests /\ records_num' = records_num /\ rows' = rows /\ curr_writing' = curr_writing
  BY DEF Write, dumperVars, DumperRests
<1>5. Books(current, Listing, ListBar) /\ Books(curr_writing, Awaiting, DumpBar)
  BY ListBarIs, DumpBarIs DEF PromiseInv
<1>6. Books(current', Listing', ListBar') /\ Books(curr_writing', Awaiting', DumpBar')
  BY BarsNext DEF PromiseInv
<1>7. DumpBar' = DumpBar
  <2>1. Awaiting' = Awaiting
    BY <1>4, AwaitingRests
  <2> QED BY <1>4, <1>5, <1>6, <2>1, SameBooks
<1>8. PlaceBar' = [PlaceBar EXCEPT ![name] = Map!InCache(slot)]
  <2>1. slot \in Nat /\ slot < SlotLimit
    BY <1>2, SlotsAreSmall
  <2>2. /\ ClearWord(BufferIndex(slot))
        /\ ~ IfInFile(SetInHash(BufferIndex(slot))) /\ GetIdx(SetInHash(BufferIndex(slot))) = slot
    BY <2>1, CacheWord
  <2>3. SetInHash(BufferIndex(slot)) \in SUBSET (0 .. 31)
    BY <2>2 DEF ClearWord, SetInHash, InHashBit
  <2>4. Decoded[SetInHash(BufferIndex(slot))] = [where |-> "cache", slot |-> slot]
    BY <2>2, <2>3 DEF Decoded
  <2> QED BY <1>2, <2>3, <2>4, PlaceOfName DEF PromiseInv, Map!InCache
<1>9. ListBar' = [m \in DOMAIN ListBar \cup {name} |-> IF m = name THEN slot ELSE ListBar[m]]
  <2>1. ASSUME NEW m \in Names, m # name
        PROVE  \A x : (x \in Listing /\ KeyAt(current, x) = get_key(m))
                      <=> (x \in Listing' /\ KeyAt(current', x) = get_key(m))
    <3>1. get_key(m) # get_key(name)
      BY <2>1, KeysDiffer
    <3> QED BY <1>3, <3>1
  <2>2. DOMAIN ListBar' = DOMAIN ListBar \cup {name}
    <3>1. name \in DOMAIN ListBar'
      BY <1>3, <1>6 DEF Books
    <3>2. \A m \in Names : m # name => (m \in DOMAIN ListBar' <=> m \in DOMAIN ListBar)
      BY <1>5, <1>6, <2>1 DEF Books
    <3>3. DOMAIN ListBar \subseteq Names /\ DOMAIN ListBar' \subseteq Names
      BY <1>5, <1>6 DEF Books
    <3> QED BY <3>1, <3>2, <3>3
  <2>3. ListBar'[name] = slot
    BY <1>3, <1>6 DEF Books
  <2>4. ASSUME NEW m \in DOMAIN ListBar, m # name PROVE ListBar'[m] = ListBar[m]
    <3>1. m \in Names
      BY <1>5 DEF Books
    <3>2. PICK x \in Listing : KeyAt(current, x) = get_key(m)
      BY <1>5 DEF Books
    <3>3. x \in Listing' /\ KeyAt(current', x) = get_key(m)
      BY <2>1, <2>4, <3>1, <3>2
    <3>4. x # n
      BY <1>3, <2>4, <3>1, <3>3, KeysDiffer
    <3>5. SlotAt(current', x) = SlotAt(current, x)
      BY <1>3, <3>2, <3>4 DEF SlotAt
    <3>6. ListBar[m] = SlotAt(current, x) /\ ListBar'[m] = SlotAt(current', x)
      BY <1>5, <1>6, <3>1, <3>2, <3>3 DEF Books
    <3> QED BY <3>5, <3>6
  <2>5. ListBar' = [m \in DOMAIN ListBar' |-> ListBar'[m]]
    BY <1>6 DEF Books
  <2> QED BY <2>2, <2>3, <2>4, <2>5
<1>10. slot \notin {ListBar[m] : m \in DOMAIN ListBar} \cup {DumpBar[m] : m \in DOMAIN DumpBar}
  <2>1. ASSUME NEW m \in DOMAIN ListBar PROVE ListBar[m] \in idxes_wrote
    <3>1. m \in Names /\ \E x \in Listing : KeyAt(current, x) = get_key(m)
      BY <1>5 DEF Books
    <3>2. PICK x \in Listing : ListBar[m] = SlotAt(current, x)
      BY <1>5, <3>1 DEF Books
    <3> QED BY <3>2 DEF PromiseInv, SlotsInv, OwnSlots
  <2>2. ASSUME NEW m \in DOMAIN DumpBar PROVE DumpBar[m] \in idxes_wrote
    <3>1. m \in Names /\ \E x \in Awaiting : KeyAt(curr_writing, x) = get_key(m)
      BY <1>5 DEF Books
    <3>2. PICK x \in Awaiting : DumpBar[m] = SlotAt(curr_writing, x)
      BY <1>5, <3>1 DEF Books
    <3> QED BY <3>2 DEF PromiseInv, SlotsInv, OwnSlots
  <2> QED BY <1>2, <2>1, <2>2
<1>11. Map!Write(name, slot)
  BY <1>4, <1>7, <1>8, <1>9, <1>10 DEF Map!Write, PlaceBar, ListBar, DumpBar
<1> QED BY <1>2, <1>11

\* Without nodes the books are empty.
LEMMA EmptyBooks ==
  ASSUME NEW l, NEW f, Books(l, {}, f)
  PROVE  DOMAIN f = {} /\ f = Map!Empty
<1>1. DOMAIN f = {} /\ f = [name \in DOMAIN f |-> f[name]]
  BY DEF Books
<1> QED BY <1>1 DEF Map!Empty

\* submit_dump is the submission,
LEMMA SubmitRefines ==
  ASSUME PromiseInv, PromiseInv', SubmitDump
  PROVE  Map!Submit
<1>1. /\ dpc = "idle" /\ curr_writing' = current /\ data' = data
      /\ rows' = rows /\ records_num' = records_num
  BY DEF SubmitDump
<1>2. rows = 0
  BY <1>1 DEF PromiseInv, IndexInv
<1>3. Awaiting = {} /\ Awaiting' = Listing /\ Listing # {} /\ Listing' = {}
  BY SubmitKeepsPromise DEF PromiseInv
<1>4. Books(current, Listing, ListBar) /\ Books(curr_writing, Awaiting, DumpBar)
  BY ListBarIs, DumpBarIs DEF PromiseInv
<1>5. Books(current', Listing', ListBar') /\ Books(curr_writing', Awaiting', DumpBar')
  BY BarsNext DEF PromiseInv
<1>6. DumpBar' = ListBar
  BY <1>1, <1>3, <1>4, <1>5, SameBooks
<1>7. ListBar' = Map!Empty /\ DOMAIN DumpBar = {}
  BY <1>3, <1>4, <1>5, EmptyBooks
<1>8. DOMAIN ListBar # {}
  <2>1. PICK n \in Listing : TRUE
    BY <1>3
  <2>2. PICK name \in Names : KeyAt(current, n) = get_key(name)
    BY <2>1 DEF PromiseInv, IndexInv, Named, KeyAt, Listing
  <2>3. name \in DOMAIN ListBar
    BY <1>4, <2>1, <2>2 DEF Books
  <2> QED BY <2>3
<1>9. PlaceBar' = PlaceBar
  BY <1>1, PlaceRests
<1> QED BY <1>1, <1>2, <1>6, <1>7, <1>8, <1>9 DEF Map!Submit, PlaceBar, ListBar, DumpBar

\* a row of dump_all that of the least name,
LEMMA DumpRowRefines ==
  ASSUME NumbersFit, HashIsNumber, PromiseInv, PromiseInv', DumpRow
  PROVE  \E name \in Names : Map!DumpRow(name)
<1> DEFINE n == kvs[rows + 1]
           w == FileIndex(records_num, rows)
<1>1. /\ n \in Awaiting /\ Awaiting' = Awaiting \ {n}
      /\ \A m \in Awaiting \ {n} : KeyAt(curr_writing, n) < KeyAt(curr_writing, m)
      /\ \E name \in Names : KeyAt(curr_writing, n) = get_key(name)
  BY DumpRowIs DEF PromiseInv
<1>2. PICK name \in Names : KeyAt(curr_writing, n) = get_key(name)
  BY <1>1
<1>3. /\ dpc = "dump" /\ rows < Len(kvs) /\ rows' = rows + 1
      /\ current' = current /\ curr_writing' = curr_writing /\ records_num' = records_num
  BY DEF DumpRow
<1>4. HasEntry(get_key(name)) /\ UpdateTable(get_key(name), w)
  BY <1>2 DEF DumpRow, KeyAt
<1> HIDE DEF n, w
<1>5. Books(current, Listing, ListBar) /\ Books(curr_writing, Awaiting, DumpBar)
  BY ListBarIs, DumpBarIs DEF PromiseInv
<1>6. Books(current', Listing', ListBar') /\ Books(curr_writing', Awaiting', DumpBar')
  BY BarsNext DEF PromiseInv
<1>7. ListBar' = ListBar
  <2>1. Listing' = Listing
    BY <1>3 DEF Listing
  <2> QED BY <1>3, <1>5, <1>6, <2>1, SameBooks
<1>8. PlaceBar' = [PlaceBar EXCEPT ![name] = Map!InRow(records_num, rows)]
  <2>1. records_num \in Nat /\ records_num < TwoTo(30)
    <3>1. PICK f \in FilesBefore :
            records_num + (IF dpc = "idle" THEN 0 ELSE 1) + (IF Listing = {} THEN 0 ELSE 1) <= f + writes
      BY DEF PromiseInv, CountInv
    <3>2. f \in Nat /\ records_num \in Nat /\ writes \in 0 .. MaxWrites /\ MaxWrites \in Nat
      BY KeyIndexAssumption DEF PromiseInv, IndexInv
    <3>3. f + MaxWrites < 1073741824
      BY DEF NumbersFit
    <3>4. TwoTo(30) = 1073741824
      BY TwoToIs
    <3> QED BY <3>1, <3>2, <3>3, <3>4
  <2>2. rows \in Nat /\ rows < SlotLimit
    <3>1. Cardinality(Merging) \in Nat
      BY <1>3, MergingIs DEF PromiseInv
    <3>2. Cardinality(Merging) + Len(kvs) <= RECORD_BUFF_SIZE
      BY <1>3 DEF PromiseInv, CountInv
    <3>3. Len(kvs) \in Nat /\ rows \in 0 .. Len(kvs)
      BY DEF PromiseInv, IndexInv
    <3>4. rows \in Slots
      BY <1>3, <3>1, <3>2, <3>3, BuffSizeAssumption DEF Slots
    <3> QED BY <3>4, SlotsAreSmall
  <2>3. IfInFile(SetInHash(w)) /\ GetFid(SetInHash(w)) = records_num % 256 /\ GetIdx(SetInHash(w)) = rows
    BY <2>1, <2>2, RowWord DEF w
  <2>4. SetInHash(w) \in SUBSET (0 .. 31)
    <3>1. SetFid(NewIndex, records_num) \in SUBSET (0 .. 31)
      BY WordsAreWords
    <3>2. SetIdx(SetFid(NewIndex, records_num), rows) \in SUBSET (0 .. 31)
      BY <3>1, WordsAreWords
    <3>3. w \in SUBSET (0 .. 31)
      BY <3>2, WordsAreWords DEF w, FileIndex
    <3> QED BY <3>3, WordsAreWords
  <2>5. Decoded[SetInHash(w)] = [where |-> "file", file |-> records_num % 256, row |-> rows]
    BY <2>3, <2>4 DEF Decoded
  <2>6. PlaceBar' = [PlaceBar EXCEPT ![name] = Decoded[SetInHash(w)]]
    BY <1>4, <2>4, PlaceOfName DEF PromiseInv
  <2> QED BY <2>5, <2>6 DEF Map!InRow
<1>9. name \in DOMAIN DumpBar
  BY <1>1, <1>2, <1>5 DEF Books
<1>10. ASSUME NEW m \in DOMAIN DumpBar \ {name} PROVE Map!Precedes(name, m)
  <2>1. m \in Names /\ m # name
    BY <1>5 DEF Books
  <2>2. PICK x \in Awaiting : KeyAt(curr_writing, x) = get_key(m)
    BY <1>5, <2>1 DEF Books
  <2>3. x # n
    BY <1>2, <2>1, <2>2, KeysDiffer
  <2>4. get_key(name) < get_key(m)
    BY <1>1, <1>2, <2>2, <2>3
  <2>5. Before(name, m)
    BY <2>1, <2>4, KeysDiffer
  <2> QED BY <2>5 DEF Before, Map!Precedes
<1>11. DumpBar' = [m \in DOMAIN DumpBar \ {name} |-> DumpBar[m]]
  <2>1. ASSUME NEW m \in Names
        PROVE  m \in DOMAIN DumpBar' <=> m \in DOMAIN DumpBar /\ m # name
    <3>1. m \in DOMAIN DumpBar' <=> \E x \in Awaiting : x # n /\ KeyAt(curr_writing, x) = get_key(m)
      BY <1>1, <1>3, <1>6 DEF Books
    <3>2. m \in DOMAIN DumpBar <=> \E x \in Awaiting : KeyAt(curr_writing, x) = get_key(m)
      BY <1>5 DEF Books
    <3>3. ASSUME NEW x \in Awaiting, KeyAt(curr_writing, x) = get_key(m)
          PROVE  x # n <=> m # name
      <4>1. x = n <=> KeyAt(curr_writing, x) = KeyAt(curr_writing, n)
        BY <1>1, AwaitingIs DEF PromiseInv
      <4> QED BY <1>2, <3>3, <4>1, KeysDiffer
    <3> QED BY <3>1, <3>2, <3>3
  <2>2. DOMAIN DumpBar \subseteq Names /\ DOMAIN DumpBar' \subseteq Names
    BY <1>5, <1>6 DEF Books
  <2>3. DOMAIN DumpBar' = DOMAIN DumpBar \ {name}
    BY <2>1, <2>2
  <2>4. ASSUME NEW m \in DOMAIN DumpBar' PROVE DumpBar'[m] = DumpBar[m]
    <3>1. m \in Names
      BY <2>2
    <3>2. PICK x \in Awaiting' : KeyAt(curr_writing, x) = get_key(m)
      BY <1>3, <1>6 DEF Books
    <3>3. x \in Awaiting
      BY <1>1
    <3>4. DumpBar'[m] = SlotAt(curr_writing', x)
      BY <1>3, <1>6, <3>1, <3>2 DEF Books
    <3>5. DumpBar[m] = SlotAt(curr_writing, x)
      BY <1>5, <3>1, <3>2, <3>3 DEF Books
    <3> QED BY <1>3, <3>4, <3>5
  <2>5. DumpBar' = [m \in DOMAIN DumpBar' |-> DumpBar'[m]]
    BY <1>6 DEF Books
  <2> QED BY <2>3, <2>4, <2>5
<1>12. Map!DumpRow(name)
  BY <1>3, <1>7, <1>8, <1>9, <1>10, <1>11 DEF Map!DumpRow, PlaceBar, ListBar, DumpBar
<1> QED BY <1>12

\* and the end of the dump the end of it.
LEMMA EndRefines ==
  ASSUME PromiseInv, PromiseInv', EndDumping
  PROVE  Map!EndDump
<1>1. /\ data' = data /\ current' = current /\ records_num' = records_num + 1 /\ rows' = 0
  BY DEF EndDumping
<1>2. Awaiting = {} /\ Awaiting' = {} /\ rows > 0
  BY EndKeepsPromise DEF PromiseInv
<1>3. PlaceBar' = PlaceBar /\ ListBar' = ListBar /\ DumpBar' = DumpBar
  BY <1>1, <1>2, BarsRest
<1>4. DOMAIN DumpBar = {}
  BY <1>2, DumpBarIs, EmptyBooks DEF PromiseInv
<1> QED BY <1>1, <1>2, <1>3, <1>4 DEF Map!EndDump, PlaceBar, ListBar, DumpBar

\* The promise holds of the start,
LEMMA PromiseStarts == HashIsNumber /\ Init => Map!Init
<1> SUFFICES ASSUME HashIsNumber, Init PROVE Map!Init
  OBVIOUS
<1>1. IndexInv /\ MergeInv
  BY PromiseInit DEF PromiseInv
<1>2. dpc = "idle" /\ current = NewList /\ records_num \in Nat /\ rows = 0 /\ data = EmptyData
  BY <1>1 DEF Init, IndexInv
<1>3. Listing = {} /\ Awaiting = {}
  BY <1>2, NewListIs DEF Listing, Awaiting
<1>4. ListBar = Map!Empty /\ DumpBar = Map!Empty
  BY <1>1, <1>3, ListBarIs, DumpBarIs, EmptyBooks
<1>5. PlaceBar = [name \in Names |-> Map!Nowhere]
  <2>1. ASSUME NEW key PROVE ~ InTable(key)
    <3>1. \A e \in Entries : ~ IfValid(data[e].idx)
      BY <1>2 DEF EmptyData, NewIndex, IfValid
    <3> QED BY <3>1, EntryIsThere DEF InTable
  <2> QED BY <2>1, KeyInKeys DEF PlaceBar, PlaceOf, Map!Nowhere
<1> QED BY <1>2, <1>4, <1>5 DEF Map!Init, PlaceBar, ListBar, DumpBar

\* and of every step.
LEMMA PromiseSteps ==
  NumbersFit /\ HashIsNumber /\ PromiseInv /\ PromiseInv' /\ [Next]_vars =>
    [Map!Next]_(Map!mapVars)
<1> SUFFICES ASSUME NumbersFit, HashIsNumber, PromiseInv, PromiseInv', [Next]_vars
             PROVE  Map!Next \/ UNCHANGED <<PlaceBar, ListBar, DumpBar, rows, records_num>>
  BY DEF Map!mapVars, PlaceBar, ListBar, DumpBar
<1>1. ASSUME NEW name \in Names, NEW height \in Heights(name), Write(name, height)
      PROVE  Map!Next
  BY <1>1, WriteRefines DEF Map!Next
<1>2. CASE SubmitDump
  BY <1>2, SubmitRefines DEF Map!Next
<1>3. CASE DumpRow
  BY <1>3, DumpRowRefines DEF Map!Next
<1>4. CASE EndDumping
  BY <1>4, EndRefines DEF Map!Next
<1>5. CASE MergeRound
  <2>1. data' = data /\ current' = current /\ rows' = rows /\ records_num' = records_num
    BY <1>5 DEF MergeRound
  <2>2. Awaiting' = Awaiting
    BY <1>5, MergeKeepsPromise DEF PromiseInv
  <2>3. \A n \in Awaiting : KeyAt(curr_writing', n) = KeyAt(curr_writing, n)
                            /\ Word(curr_writing', n) = Word(curr_writing, n)
    <3>1. \A m \in Merging \cup {kvs[i] : i \in 1 .. Len(kvs)} :
            /\ KeyAt(curr_writing', m) = KeyAt(curr_writing, m)
            /\ Word(curr_writing', m) = Word(curr_writing, m)
      BY <1>5, MergeRoundIs DEF PromiseInv
    <3>2. rows \in 0 .. Len(kvs) /\ Len(kvs) \in Nat
      BY DEF PromiseInv, IndexInv
    <3>3. \A i \in rows + 1 .. Len(kvs) : i \in 1 .. Len(kvs)
      BY <3>2
    <3>4. Awaiting \subseteq Merging \cup {kvs[i] : i \in 1 .. Len(kvs)}
      BY <3>3 DEF Awaiting
    <3> QED BY <3>1, <3>4
  <2> QED BY <2>1, <2>2, <2>3, BarsRest
<1>6. CASE MergeDone
  <2>1. /\ data' = data /\ current' = current /\ rows' = rows /\ records_num' = records_num
        /\ curr_writing' = curr_writing
    BY <1>6 DEF MergeDone
  <2>2. Awaiting' = Awaiting
    BY <1>6, MergeDoneKeepsPromise DEF PromiseInv
  <2> QED BY <2>1, <2>2, BarsRest
<1>7. CASE \E name \in Names : TableFull(name)
  <2>1. /\ data' = data /\ current' = current /\ rows' = rows /\ records_num' = records_num
        /\ curr_writing' = curr_writing /\ DumperRests
    BY <1>7 DEF TableFull, dumperVars, DumperRests
  <2> QED BY <2>1, AwaitingRests, BarsRest
<1>8. CASE UNCHANGED vars
  <2>1. /\ data' = data /\ current' = current /\ rows' = rows /\ records_num' = records_num
        /\ curr_writing' = curr_writing /\ DumperRests
    BY <1>8 DEF vars, dumperVars, DumperRests
  <2> QED BY <2>1, AwaitingRests, BarsRest
<1> QED BY <1>1, <1>2, <1>3, <1>4, <1>5, <1>6, <1>7, <1>8 DEF Next

\* The invariant of the promise always holds.
LEMMA PromiseIsKept == NumbersFit /\ HashIsNumber /\ Spec => [](NumbersFit /\ HashIsNumber /\ PromiseInv)
<1>1. NumbersFit /\ HashIsNumber => NumbersFit' /\ HashIsNumber'
  BY DEF NumbersFit, HashIsNumber
<1> QED BY <1>1, PromiseInit, PromiseStep, PTL DEF Spec

\* Whatever the names, the heights, the hash and the order of writes and dumps,
\* every name is found where its last write or dump left it, a dump writes the
\* records of its list once each in the order of their names, and a slot that is
\* handed out is in no other word: KeyIndex implements KeyMap.
THEOREM NamesAreFound == NumbersFit /\ HashIsNumber /\ Spec => RefinesKeyMap
<1>1. HashIsNumber /\ Init => Map!Init
  BY PromiseStarts
<1>2. NumbersFit /\ HashIsNumber /\ PromiseInv /\ PromiseInv' /\ [Next]_vars => [Map!Next]_(Map!mapVars)
  BY PromiseSteps
<1> QED BY <1>1, <1>2, PromiseIsKept, PTL DEF Spec, RefinesKeyMap, Map!Spec
=============================================================================
