------------------------- MODULE GhostProtocolProofs -------------------------
(***************************************************************************)
(* A ghost and its copy, for every tree of elements, every width of its    *)
(* fields and any number of updates in flight: the reader stays in frame,  *)
(* shows nothing out of range, and shows clean fields as they are.         *)
(*                                                                         *)
(* serialize() and deserialize() are recursive over the tree.  Their laws  *)
(* are proved by induction over the elements, for which the library's      *)
(* theorems give well-founded sets; the first part makes of it what the    *)
(* others use.                                                             *)
(***************************************************************************)
EXTENDS GhostProtocol, SequenceTheorems, FiniteSetTheorems,
        WellFoundedInduction, TLAPS

LEMMA LeastNumber ==
    ASSUME NEW D \in SUBSET Nat, D # {}
    PROVE  \E x \in D : \A y \in D : x <= y
<1>1. PICK x \in D : \A y \in D : ~ (<<y, x>> \in OpToRel(<, Nat))
  <2>1. IsWellFoundedOn(OpToRel(<, Nat), Nat)
    BY NatLessThanWellFounded
  <2> QED BY ONLY <2>1, D \subseteq Nat, D # {}, WFMin, Zenon
<1>2. \A y \in D : ~(y < x)
  <2>1. \A y \in Nat : y < x => <<y, x>> \in OpToRel(<, Nat)
    BY Zenon DEF OpToRel
  <2> QED BY <1>1, <2>1, Zenon
<1>3. \A y \in D : x <= y
  BY <1>2
<1> QED BY <1>3

LEMMA NatSetInduction ==
    ASSUME NEW D \in SUBSET Nat, 0 \in D, \A n \in D : n + 1 \in D
    PROVE  D = Nat
<1> SUFFICES ASSUME Nat \ D # {} PROVE FALSE
  OBVIOUS
<1>1. PICK x \in Nat \ D : \A y \in Nat \ D : x <= y
  BY LeastNumber
<1>2. x # 0 /\ x - 1 \in Nat /\ ~(x <= x - 1)
  OBVIOUS
<1>3. x - 1 \in D
  BY <1>1, <1>2
<1> QED BY <1>2, <1>3

\* f begins with a and goes on by the steps, up to n.
Follows(f, a, step, n) ==
    f[0] = a /\ \A i \in Nat : i < n => f[i + 1] = step[<<i + 1, f[i]>>]

LEMMA FollowsOnce ==
    ASSUME NEW a, NEW step, NEW f, NEW g, NEW n \in Nat, NEW m \in Nat,
           Follows(f, a, step, n), Follows(g, a, step, m)
    PROVE  \A i \in Nat : i <= n /\ i <= m => f[i] = g[i]
<1> DEFINE D == {i \in Nat : i <= n /\ i <= m => f[i] = g[i]}
<1>1. 0 \in D
  BY DEF Follows
<1>2. ASSUME NEW i \in D PROVE i + 1 \in D
  <2>1. i \in Nat /\ i + 1 \in Nat
    OBVIOUS
  <2>2. ASSUME i + 1 <= n, i + 1 <= m PROVE f[i + 1] = g[i + 1]
    <3>1. i < n /\ i < m /\ i <= n /\ i <= m
      BY <2>1, <2>2
    <3>2. f[i] = g[i]
      BY <3>1
    <3>3. f[i + 1] = step[<<i + 1, f[i]>>] /\ g[i + 1] = step[<<i + 1, g[i]>>]
      BY <2>1, <3>1 DEF Follows
    <3> QED BY <3>2, <3>3
  <2> QED BY <2>1, <2>2
<1>3. D = Nat
  <2>1. D \in SUBSET Nat
    OBVIOUS
  <2> HIDE DEF D
  <2> QED BY <1>1, <1>2, <2>1, NatSetInduction
<1> QED BY <1>3

LEMMA FollowsExists ==
    ASSUME NEW S, NEW a \in S, NEW step \in [Nat \X S -> S], NEW n \in Nat
    PROVE  \E f \in [0 .. n -> S] : Follows(f, a, step, n)
<1> DEFINE D == {m \in Nat : \E f \in [0 .. m -> S] : Follows(f, a, step, m)}
<1>1. 0 \in D
  <2> DEFINE f == [i \in 0 .. 0 |-> a]
  <2>1. f \in [0 .. 0 -> S] /\ f[0] = a
    OBVIOUS
  <2>2. \A i \in Nat : ~(i < 0)
    OBVIOUS
  <2> HIDE DEF f
  <2>3. Follows(f, a, step, 0)
    BY <2>1, <2>2 DEF Follows
  <2> QED BY <2>1, <2>3
<1>2. ASSUME NEW m \in D PROVE m + 1 \in D
  <2>1. m \in Nat /\ m + 1 \in Nat
    OBVIOUS
  <2>2. PICK f \in [0 .. m -> S] : Follows(f, a, step, m)
    OBVIOUS
  <2>3. PICK s : s = step[<<m + 1, f[m]>>]
    OBVIOUS
  <2>4. f[m] \in S /\ s \in S
    BY <2>1, <2>3
  <2> DEFINE g == [i \in 0 .. m + 1 |-> IF i = m + 1 THEN s ELSE f[i]]
  <2>5. g \in [0 .. m + 1 -> S] /\ g[m + 1] = s /\ \A i \in 0 .. m : g[i] = f[i]
    BY <2>1, <2>4
  <2> HIDE DEF g
  <2>6. g[0] = a
    BY <2>1, <2>2, <2>5 DEF Follows
  <2>7. ASSUME NEW i \in Nat, i < m + 1 PROVE g[i + 1] = step[<<i + 1, g[i]>>]
    <3>1. i \in 0 .. m /\ g[i] = f[i]
      BY <2>1, <2>5, <2>7
    <3>2. CASE i = m
      BY <2>3, <2>5, <3>1, <3>2
    <3>3. CASE i # m
      <4>1. i < m /\ i + 1 \in 0 .. m
        BY <2>1, <2>7, <3>3
      <4>2. f[i + 1] = step[<<i + 1, f[i]>>]
        BY <2>2, <4>1 DEF Follows
      <4> QED BY <2>5, <3>1, <4>1, <4>2
    <3> QED BY <3>2, <3>3
  <2>8. Follows(g, a, step, m + 1)
    BY <2>6, <2>7 DEF Follows
  <2> QED BY <2>1, <2>5, <2>8
<1>3. D = Nat
  <2>1. D \in SUBSET Nat
    OBVIOUS
  <2> HIDE DEF D
  <2> QED BY <1>1, <1>2, <2>1, NatSetInduction
<1> QED BY <1>3

LEMMA FollowsForever ==
    ASSUME NEW S, NEW a \in S, NEW step \in [Nat \X S -> S]
    PROVE  \E f \in [Nat -> S] : \A n \in Nat : Follows(f, a, step, n)
<1> DEFINE Part(n) == CHOOSE f : f \in [0 .. n -> S] /\ Follows(f, a, step, n)
           f == [n \in Nat |-> Part(n)[n]]
<1>1. ASSUME NEW n \in Nat
      PROVE  Part(n) \in [0 .. n -> S] /\ Follows(Part(n), a, step, n)
  BY FollowsExists
<1> HIDE DEF Part
<1>2. \A n \in Nat : f[n] = Part(n)[n] /\ n \in 0 .. n
  OBVIOUS
<1>3. f \in [Nat -> S]
  BY <1>1, <1>2
<1>4. f[0] = a
  BY <1>1, <1>2 DEF Follows
<1>5. ASSUME NEW i \in Nat PROVE f[i + 1] = step[<<i + 1, f[i]>>]
  <2>1. i + 1 \in Nat /\ i < i + 1 /\ i <= i + 1 /\ i <= i
    OBVIOUS
  <2>2. Part(i + 1)[i] = Part(i)[i]
    BY <1>1, <2>1, FollowsOnce
  <2>3. Part(i + 1)[i + 1] = step[<<i + 1, Part(i + 1)[i]>>]
    BY <1>1, <2>1 DEF Follows
  <2>4. f[i + 1] = Part(i + 1)[i + 1] /\ f[i] = Part(i)[i]
    BY <1>2, <2>1
  <2> QED BY <2>2, <2>3, <2>4
<1> HIDE DEF f
<1>6. \A n \in Nat : Follows(f, a, step, n)
  BY <1>4, <1>5 DEF Follows
<1> QED BY <1>3, <1>6

-----------------------------------------------------------------------------
(* Bits.                                                                    *)

LEMMA BitFacts ==
    /\ Bit[0] = 1
    /\ \A n \in Nat : Bit[n] \in Nat \ {0} /\ Bit[n + 1] = 2 * Bit[n]
<1> DEFINE step == [t \in Nat \X (Nat \ {0}) |-> 2 * t[2]]
<1>1. step \in [Nat \X (Nat \ {0}) -> Nat \ {0}] /\ 1 \in Nat \ {0}
  OBVIOUS
<1>2. \A i \in Nat, x \in Nat \ {0} : step[<<i, x>>] = 2 * x
  OBVIOUS
<1> HIDE DEF step
<1>3. PICK f \in [Nat -> Nat \ {0}] : \A n \in Nat : Follows(f, 1, step, n)
  BY <1>1, FollowsForever
<1>4. ASSUME NEW n \in Nat PROVE f[n] = IF n = 0 THEN 1 ELSE 2 * f[n - 1]
  <2>1. f[0] = 1
    BY <1>3 DEF Follows
  <2>2. CASE n # 0
    <3>1. n - 1 \in Nat /\ (n - 1) + 1 = n /\ n - 1 < n /\ f[n - 1] \in Nat \ {0}
      BY <1>3, <2>2
    <3>2. f[(n - 1) + 1] = step[<<(n - 1) + 1, f[n - 1]>>]
      BY <1>3, <3>1 DEF Follows
    <3>3. step[<<n, f[n - 1]>>] = 2 * f[n - 1]
      BY <1>2, <3>1
    <3>4. f[n] = 2 * f[n - 1]
      BY <3>1, <3>2, <3>3
    <3> QED BY <2>2, <3>4
  <2> QED BY <2>1, <2>2
<1>5. f = [n \in Nat |-> IF n = 0 THEN 1 ELSE 2 * f[n - 1]]
  BY <1>3, <1>4
<1> DEFINE q == CHOOSE g : g = [n \in Nat |-> IF n = 0 THEN 1 ELSE 2 * g[n - 1]]
<1>6. q = [n \in Nat |-> IF n = 0 THEN 1 ELSE 2 * q[n - 1]]
  BY <1>5
<1>7. Bit = q
  BY Zenon DEF Bit
<1> HIDE DEF q
<1>8. Bit[0] = 1 /\ \A n \in Nat : n # 0 => Bit[n] = 2 * Bit[n - 1]
  BY <1>6, <1>7
<1>9. ASSUME NEW n \in Nat PROVE Bit[n + 1] = 2 * Bit[n]
  <2>1. n + 1 \in Nat /\ n + 1 # 0 /\ (n + 1) - 1 = n
    OBVIOUS
  <2> QED BY <1>8, <2>1
<1>10. \A n \in Nat : Bit[n] \in Nat \ {0}
  <2> DEFINE D == {n \in Nat : Bit[n] \in Nat \ {0}}
  <2>1. 0 \in D
    BY <1>8
  <2>2. \A n \in D : n + 1 \in D
    BY <1>9
  <2>3. D = Nat
    <3>1. D \in SUBSET Nat
      OBVIOUS
    <3> HIDE DEF D
    <3> QED BY <2>1, <2>2, <3>1, NatSetInduction
  <2> QED BY <2>3
<1> QED BY <1>8, <1>9, <1>10

LEMMA BitGrows == \A n \in Nat : n < Bit[n]
<1> DEFINE D == {n \in Nat : n < Bit[n]}
<1>1. 0 \in D
  BY BitFacts
<1>2. \A n \in D : n + 1 \in D
  BY BitFacts
<1>3. D = Nat
  <2>1. D \in SUBSET Nat
    OBVIOUS
  <2> HIDE DEF D
  <2> QED BY <1>1, <1>2, <2>1, NatSetInduction
<1> QED BY <1>3

\* As many bits as a range needs.
LEMMA BitCountFacts ==
    ASSUME NEW range \in Nat \ {0}
    PROVE  BitCountForRange(range) \in Nat /\ Bit[BitCountForRange(range)] >= range
<1> DEFINE Fits(n) == /\ Bit[n] >= range
                      /\ \A m \in 0 .. n - 1 : Bit[m] < range
           D == {n \in Nat : Bit[n] >= range}
<1>1. range \in D
  BY BitFacts, BitGrows
<1>2. PICK n \in D : \A m \in D : n <= m
  <2>1. D \in SUBSET Nat /\ D # {}
    BY <1>1
  <2> HIDE DEF D
  <2> QED BY <2>1, LeastNumber
<1>3. n \in 0 .. range
  BY <1>1, <1>2
<1>4. Fits(n)
  BY <1>2, BitFacts
<1> DEFINE q == CHOOSE m \in 0 .. range : Fits(m)
<1>5. q \in 0 .. range /\ Fits(q)
  <2> HIDE DEF Fits
  <2> QED BY <1>3, <1>4
<1>6. BitCountForRange(range) = q
  BY Zenon DEF BitCountForRange
<1> HIDE DEF q
<1> QED BY <1>5, <1>6

LEMMA Division ==
    ASSUME NEW a \in Int, NEW p \in Nat \ {0}
    PROVE  /\ a \div p \in Int /\ a % p \in 0 .. p - 1
           /\ a = (a \div p) * p + (a % p)
OBVIOUS

LEMMA DivisionOnce ==
    ASSUME NEW a \in Int, NEW p \in Nat \ {0}, NEW q \in Int, NEW r \in 0 .. p - 1,
           a = q * p + r
    PROVE  a \div p = q /\ a % p = r
OBVIOUS

\* One more bit of a number.
LEMMA NextBit ==
    ASSUME NEW v \in Int, NEW p \in Nat \ {0}
    PROVE  v % (2 * p) = (v % p) + ((v \div p) % 2) * p
<1> DEFINE q == v \div p
           r == v % p
           h == q \div 2
           b == q % 2
<1>1. q \in Int /\ r \in 0 .. p - 1 /\ v = q * p + r
  BY Division
<1>2. h \in Int /\ b \in 0 .. 1 /\ q = h * 2 + b
  <2> HIDE DEF q
  <2> QED BY <1>1, Division
<1> HIDE DEF q, r, h, b
<1>3. b = 0 \/ b = 1
  BY <1>2
<1>4. 2 * p \in Nat \ {0} /\ r + b * p \in 0 .. 2 * p - 1
  BY <1>1, <1>3
<1>5. v = h * (2 * p) + (r + b * p)
  BY <1>1, <1>2
<1>6. v % (2 * p) = r + b * p
  <2> DEFINE pp == 2 * p
             rr == r + b * p
  <2>1. pp \in Nat \ {0} /\ rr \in 0 .. pp - 1 /\ v = h * pp + rr
    BY <1>4, <1>5
  <2> HIDE DEF pp, rr
  <2>2. v % pp = rr
    BY <1>2, <2>1, DivisionOnce
  <2> QED BY <2>2 DEF pp, rr
<1> QED BY <1>6 DEF q, r, b

BitSeqs == Seq({0, 1})

LEMMA WriteIntFacts ==
    ASSUME NEW v \in Int, NEW n \in Nat
    PROVE  /\ WriteInt(v, n) \in BitSeqs /\ Len(WriteInt(v, n)) = n
           /\ \A i \in 1 .. n : WriteInt(v, n)[i] = (v \div Bit[i - 1]) % 2
<1>1. ASSUME NEW i \in 1 .. n PROVE (v \div Bit[i - 1]) % 2 \in {0, 1}
  <2>1. i - 1 \in Nat
    OBVIOUS
  <2>2. v \div Bit[i - 1] \in Int
    BY <2>1, BitFacts, Division
  <2> QED BY <2>2
<1> DEFINE b(i) == (v \div Bit[i - 1]) % 2
           s == [i \in 1 .. n |-> b(i)]
<1>2. \A i \in 1 .. n : b(i) \in {0, 1}
  BY <1>1
<1>3. s \in Seq({0, 1}) /\ Len(s) = n /\ \A i \in 1 .. n : s[i] = b(i)
  <2> HIDE DEF b
  <2> QED BY <1>2
<1> QED BY <1>3 DEF WriteInt, BitSeqs

LEMMA ReadFlagType ==
    ASSUME NEW bits \in BitSeqs, NEW pos \in Nat
    PROVE  ReadFlag(bits, pos) \in {0, 1}
BY DEF ReadFlag, BitSeqs

\* What readInt() has after each bit.
LEMMA ReadIntSteps ==
    ASSUME NEW bits \in BitSeqs, NEW pos \in Nat, NEW n \in Nat
    PROVE  \E f \in [0 .. n -> Int] :
              /\ f[0] = 0 /\ f[n] = ReadInt(bits, pos, n)
              /\ \A i \in Nat : i < n =>
                    f[i + 1] = f[i] + ReadFlag(bits, pos + i) * Bit[i]
<1> DEFINE add(i) == ReadFlag(bits, pos + i - 1) * Bit[i - 1]
           step == [t \in Nat \X Int |-> IF t[1] = 0 THEN 0 ELSE t[2] + add(t[1])]
<1>1. ASSUME NEW i \in Nat, i # 0 PROVE add(i) \in Int
  <2>1. i - 1 \in Nat /\ pos + i - 1 \in Nat
    BY <1>1
  <2>2. ReadFlag(bits, pos + i - 1) \in {0, 1} /\ Bit[i - 1] \in Nat
    BY <2>1, ReadFlagType, BitFacts
  <2> QED BY <2>2
<1>2. step \in [Nat \X Int -> Int] /\ \A i \in Nat, x \in Int : i # 0 => step[<<i, x>>] = x + add(i)
  <2> HIDE DEF add
  <2> QED BY <1>1
<1> HIDE DEF step
<1>3. PICK f \in [0 .. n -> Int] : Follows(f, 0, step, n)
  <2>1. step \in [Nat \X Int -> Int] /\ 0 \in Int
    BY <1>2
  <2> QED BY ONLY <2>1, n \in Nat, FollowsExists
<1>4. ASSUME NEW i \in 0 .. n PROVE f[i] = IF i = 0 THEN 0 ELSE f[i - 1] + add(i)
  <2>1. CASE i = 0
    BY <1>3, <2>1 DEF Follows
  <2>2. CASE i # 0
    <3>1. i - 1 \in Nat /\ (i - 1) + 1 = i /\ i - 1 < n /\ f[i - 1] \in Int
      BY <1>3, <2>2
    <3>2. f[(i - 1) + 1] = step[<<(i - 1) + 1, f[i - 1]>>]
      BY <1>3, <3>1 DEF Follows
    <3> HIDE DEF add
    <3> QED BY <1>2, <2>2, <3>1, <3>2
  <2> QED BY <2>1, <2>2
<1>5. f = [i \in 0 .. n |-> IF i = 0 THEN 0
                            ELSE f[i - 1] + ReadFlag(bits, pos + i - 1) * Bit[i - 1]]
  BY <1>3, <1>4
<1> DEFINE q == CHOOSE g : g = [i \in 0 .. n |->
                   IF i = 0 THEN 0 ELSE g[i - 1] + ReadFlag(bits, pos + i - 1) * Bit[i - 1]]
<1>6. q = [i \in 0 .. n |-> IF i = 0 THEN 0
                            ELSE q[i - 1] + ReadFlag(bits, pos + i - 1) * Bit[i - 1]]
  BY <1>5
<1>7. ReadInt(bits, pos, n) = q[n]
  BY Zenon DEF ReadInt
<1> HIDE DEF q
<1>8. ASSUME NEW i \in Nat, i < n
      PROVE  q[i + 1] = q[i] + ReadFlag(bits, pos + i) * Bit[i]
  <2>1. i + 1 \in 0 .. n /\ i + 1 # 0 /\ (i + 1) - 1 = i /\ pos + (i + 1) - 1 = pos + i
    BY <1>8
  <2> QED BY <1>6, <2>1
<1>9. q[0] = 0
  BY <1>6
<1>10. q \in [0 .. n -> Int]
  <2> DEFINE D == {i \in Nat : i <= n => q[i] \in Int}
  <2>1. 0 \in D
    BY <1>9
  <2>2. ASSUME NEW i \in D PROVE i + 1 \in D
    <3>1. i + 1 <= n => i < n /\ i <= n
      OBVIOUS
    <3>2. ReadFlag(bits, pos + i) * Bit[i] \in Int
      <4>1. i \in Nat /\ pos + i \in Nat
        OBVIOUS
      <4>2. ReadFlag(bits, pos + i) \in {0, 1} /\ Bit[i] \in Nat
        BY <4>1, ReadFlagType, BitFacts
      <4> QED BY <4>2
    <3> QED BY <1>8, <3>1, <3>2
  <2>3. D = Nat
    <3>1. D \in SUBSET Nat
      OBVIOUS
    <3> HIDE DEF D
    <3> QED BY <2>1, <2>2, <3>1, NatSetInduction
  <2>4. \A i \in 0 .. n : q[i] \in Int
    BY <2>3
  <2> QED BY <1>6, <2>4
<1> QED BY <1>7, <1>8, <1>9, <1>10

\* Whatever the bits are, they are a number of their width.
LEMMA ReadIntRange ==
    ASSUME NEW bits \in BitSeqs, NEW pos \in Nat, NEW n \in Nat
    PROVE  ReadInt(bits, pos, n) \in 0 .. Bit[n] - 1
<1>1. PICK f \in [0 .. n -> Int] :
              /\ f[0] = 0 /\ f[n] = ReadInt(bits, pos, n)
              /\ \A i \in Nat : i < n =>
                    f[i + 1] = f[i] + ReadFlag(bits, pos + i) * Bit[i]
  BY ReadIntSteps
<1> DEFINE D == {i \in Nat : i <= n => f[i] \in 0 .. Bit[i] - 1}
<1>2. 0 \in D
  <2>1. Bit[0] = 1 /\ f[0] = 0
    BY <1>1, BitFacts
  <2>2. f[0] \in 0 .. Bit[0] - 1
    BY <2>1
  <2> QED BY <2>2
<1>3. ASSUME NEW i \in D PROVE i + 1 \in D
  <2> SUFFICES ASSUME i + 1 <= n PROVE f[i + 1] \in 0 .. Bit[i + 1] - 1
    OBVIOUS
  <2>1. i \in Nat /\ i < n /\ f[i] \in 0 .. Bit[i] - 1
    OBVIOUS
  <2>2. ReadFlag(bits, pos + i) \in {0, 1}
    BY <2>1, ReadFlagType
  <2>3. Bit[i] \in Nat \ {0} /\ Bit[i + 1] = 2 * Bit[i]
    BY <2>1, BitFacts
  <2>4. f[i + 1] = f[i] + ReadFlag(bits, pos + i) * Bit[i]
    BY <1>1, <2>1
  <2>5. ReadFlag(bits, pos + i) * Bit[i] = 0 \/ ReadFlag(bits, pos + i) * Bit[i] = Bit[i]
    BY <2>2, <2>3
  <2> QED BY <2>1, <2>3, <2>4, <2>5
<1>4. D = Nat
  <2>1. D \in SUBSET Nat
    OBVIOUS
  <2> HIDE DEF D
  <2> QED BY <1>2, <1>3, <2>1, NatSetInduction
<1> QED BY <1>1, <1>4

\* What was written is read, as far as the width goes.
LEMMA ReadWritten ==
    ASSUME NEW bits \in BitSeqs, NEW pos \in Nat, NEW n \in Nat, NEW v \in Int,
           pos + n <= Len(bits),
           \A i \in 1 .. n : bits[pos + i] = WriteInt(v, n)[i]
    PROVE  ReadInt(bits, pos, n) = v % Bit[n]
<1>1. PICK f \in [0 .. n -> Int] :
              /\ f[0] = 0 /\ f[n] = ReadInt(bits, pos, n)
              /\ \A i \in Nat : i < n =>
                    f[i + 1] = f[i] + ReadFlag(bits, pos + i) * Bit[i]
  BY ReadIntSteps
<1> DEFINE D == {i \in Nat : i <= n => f[i] = v % Bit[i]}
<1>2. 0 \in D
  <2>1. v % 1 = 0
    OBVIOUS
  <2> QED BY <1>1, <2>1, BitFacts
<1>3. ASSUME NEW i \in D PROVE i + 1 \in D
  <2> SUFFICES ASSUME i + 1 <= n PROVE f[i + 1] = v % Bit[i + 1]
    OBVIOUS
  <2>1. i \in Nat /\ i < n /\ f[i] = v % Bit[i]
    OBVIOUS
  <2>2. Bit[i] \in Nat \ {0} /\ Bit[i + 1] = 2 * Bit[i]
    BY <2>1, BitFacts
  <2>3. ReadFlag(bits, pos + i) = (v \div Bit[i]) % 2
    <3>1. i + 1 \in 1 .. n /\ (i + 1) - 1 = i /\ pos + (i + 1) = (pos + i) + 1
      BY <2>1
    <3>2. Len(bits) \in Nat
      BY DEF BitSeqs
    <3>3. pos + i < Len(bits)
      BY <2>1, <3>2
    <3>4. bits[(pos + i) + 1] = WriteInt(v, n)[i + 1]
      BY <3>1
    <3>5. WriteInt(v, n)[i + 1] = (v \div Bit[i]) % 2
      BY <3>1, WriteIntFacts
    <3> QED BY <3>3, <3>4, <3>5 DEF ReadFlag
  <2>4. f[i + 1] = f[i] + ReadFlag(bits, pos + i) * Bit[i]
    BY <1>1, <2>1
  <2>5. v % (2 * Bit[i]) = (v % Bit[i]) + ((v \div Bit[i]) % 2) * Bit[i]
    BY <2>2, NextBit
  <2> QED BY <2>1, <2>2, <2>3, <2>4, <2>5
<1>4. D = Nat
  <2>1. D \in SUBSET Nat
    OBVIOUS
  <2> HIDE DEF D
  <2> QED BY <1>2, <1>3, <2>1, NatSetInduction
<1> QED BY <1>1, <1>4

-----------------------------------------------------------------------------
(* The tree.                                                                *)

LEMMA TreeConstants ==
    /\ Size \in Nat /\ Elements = 1 .. Size
    /\ \A e \in Elements : Kind[e] \in {"flag", "dirtyflag", "rangedint", "float"}
    /\ \A e \in Elements :
          \/ Parent[e] = 0
          \/ Parent[e] \in Containers /\ Parent[e] \in Elements /\ Parent[e] < e
<1>1. Kind \in Seq({"flag", "dirtyflag", "rangedint", "float"})
  BY NetRootAssumption
<1>2. Size \in Nat /\ Elements = 1 .. Size
  BY <1>1 DEF Size, Elements
<1>3. \A e \in Elements : Kind[e] \in {"flag", "dirtyflag", "rangedint", "float"}
  BY <1>1, <1>2 DEF Size
<1>4. ASSUME NEW e \in Elements, Parent[e] # 0
      PROVE  Parent[e] \in Containers /\ Parent[e] \in Elements /\ Parent[e] < e
  <2>1. Parent[e] \in Containers /\ Parent[e] \in 1 .. e - 1
    BY <1>4, NetRootAssumption
  <2> QED BY <1>2, <2>1 DEF Containers
<1> QED BY <1>2, <1>3, <1>4

LEMMA PathRecursion ==
    Path[0] = {} /\ \A e \in Elements : Path[e] = {e} \cup Path[Parent[e]]
<1> DEFINE IsPath(f, n) ==
               f = [e \in 0 .. n |-> IF e = 0 THEN {} ELSE {e} \cup f[Parent[e]]]
           D == {n \in Nat : n <= Size => \E f : IsPath(f, n)}
<1>1. 0 \in D
  <2> DEFINE f == [e \in 0 .. 0 |-> {}]
  <2>1. f = [e \in 0 .. 0 |-> IF e = 0 THEN {} ELSE {e} \cup f[Parent[e]]]
    OBVIOUS
  <2> HIDE DEF f
  <2>2. \E g : IsPath(g, 0)
    BY <2>1
  <2> QED BY <2>2
<1>2. ASSUME NEW n \in D PROVE n + 1 \in D
  <2> SUFFICES ASSUME n + 1 <= Size PROVE \E f : IsPath(f, n + 1)
    OBVIOUS
  <2>1. n \in Nat /\ n <= Size /\ n + 1 \in Elements
    BY TreeConstants
  <2>2. PICK f : IsPath(f, n)
    BY <2>1
  <2>3. PICK s : s = {n + 1} \cup f[Parent[n + 1]]
    OBVIOUS
  <2> DEFINE g == [e \in 0 .. n + 1 |-> IF e = n + 1 THEN s ELSE f[e]]
  <2>4. g[n + 1] = s /\ \A e \in 0 .. n : g[e] = f[e]
    BY <2>1
  <2>5. \A e \in 0 .. n : f[e] = IF e = 0 THEN {} ELSE {e} \cup f[Parent[e]]
    BY <2>2
  <2>6. ASSUME NEW e \in 0 .. n + 1
        PROVE  g[e] = IF e = 0 THEN {} ELSE {e} \cup g[Parent[e]]
    <3>1. e # 0 => Parent[e] \in 0 .. n
      <4>1. e # 0 => e \in Elements
        BY <2>1, TreeConstants
      <4> QED BY <2>1, <4>1, TreeConstants
    <3>2. CASE e = n + 1
      <4>1. e # 0 /\ g[Parent[e]] = f[Parent[e]]
        BY <2>1, <2>4, <3>1, <3>2
      <4> QED BY <2>3, <2>4, <3>2, <4>1
    <3>3. CASE e # n + 1
      <4>1. e \in 0 .. n
        BY <2>1, <3>3
      <4> HIDE DEF g
      <4> QED BY <2>4, <2>5, <3>1, <4>1
    <3> QED BY <3>2, <3>3
  <2>7. g = [e \in 0 .. n + 1 |-> g[e]]
    OBVIOUS
  <2> HIDE DEF g
  <2>8. IsPath(g, n + 1)
    BY <2>6, <2>7
  <2> QED BY <2>8
<1>3. D = Nat
  <2>1. D \in SUBSET Nat
    OBVIOUS
  <2> HIDE DEF D
  <2> QED BY <1>1, <1>2, <2>1, NatSetInduction
<1>4. PICK f : IsPath(f, Size)
  <2>1. Size \in D /\ Size <= Size
    <3> HIDE DEF D
    <3> QED BY <1>3, TreeConstants
  <2> HIDE DEF IsPath
  <2> QED BY <2>1
<1> DEFINE q == CHOOSE g : IsPath(g, Size)
<1>5. IsPath(q, Size)
  <2> HIDE DEF IsPath
  <2> QED BY <1>4
<1>6. Path = q
  BY Zenon DEF Path
<1> HIDE DEF q
<1>7. \A e \in 0 .. Size : Path[e] = IF e = 0 THEN {} ELSE {e} \cup Path[Parent[e]]
  BY <1>5, <1>6
<1>8. 0 \in 0 .. Size /\ \A e \in Elements : e \in 0 .. Size /\ e # 0
  BY TreeConstants
<1> QED BY <1>7, <1>8

\* Paths are downward closed chains of containers.
GoodPath(e) ==
    /\ Path[e] \subseteq 1 .. e /\ e \in Path[e]
    /\ \A c \in Path[e] : Path[c] \subseteq Path[e] /\ (c # e => c \in Containers)
    /\ \A c, d \in Path[e] : c \in Path[d] \/ d \in Path[c]

LEMMA PathFacts == \A e \in Elements : GoodPath(e)
<1> DEFINE D == {n \in Nat : \A e \in Elements : e <= n => GoodPath(e)}
<1>1. 0 \in D
  BY TreeConstants
<1>2. ASSUME NEW n \in D PROVE n + 1 \in D
  <2> SUFFICES ASSUME n + 1 \in Elements PROVE GoodPath(n + 1)
    <3>1. \A e \in Elements : e <= n + 1 => e <= n \/ e = n + 1
      BY TreeConstants
    <3> HIDE DEF GoodPath
    <3> QED BY <3>1
  <2> DEFINE e == n + 1
             p == Parent[e]
  <2>1. e \in Elements /\ Path[e] = {e} \cup Path[p] /\ n \in Nat
    BY PathRecursion
  <2>2. CASE p = 0
    <3>1. Path[e] = {e}
      BY <2>1, <2>2, PathRecursion
    <3> QED BY <2>1, <3>1 DEF GoodPath
  <2>3. CASE p # 0
    <3>1. p \in Elements /\ p \in Containers /\ p < e /\ p <= n
      BY <2>1, <2>3, TreeConstants
    <3>2. GoodPath(p)
      BY <3>1
    <3> HIDE DEF p, e
    <3>3. Path[e] \subseteq 1 .. e /\ e \in Path[e]
      BY <2>1, <3>1, <3>2, TreeConstants DEF GoodPath
    <3>4. \A c \in Path[p] : c \in Containers
      BY <3>1, <3>2 DEF GoodPath
    <3>5. ASSUME NEW c \in Path[e]
          PROVE  Path[c] \subseteq Path[e] /\ (c # e => c \in Containers)
      BY <2>1, <3>2, <3>4 DEF GoodPath
    <3>6. ASSUME NEW c \in Path[e], NEW d \in Path[e]
          PROVE  c \in Path[d] \/ d \in Path[c]
      BY <2>1, <3>2 DEF GoodPath
    <3> QED BY <3>3, <3>5, <3>6 DEF GoodPath, e
  <2> QED BY <2>2, <2>3
<1>3. D = Nat
  <2>1. D \in SUBSET Nat
    OBVIOUS
  <2> HIDE DEF D
  <2> QED BY <1>1, <1>2, <2>1, NatSetInduction
<1>4. \A e \in Elements : e \in Nat /\ e <= e
  BY TreeConstants
<1> QED BY <1>3, <1>4

\* The values a tree can have.
Trees == {v \in [Elements -> Int] : \A e \in Containers : v[e] \in {0, 1}}

\* What a reader makes of the value x of an element.
Dec(e, x) ==
    CASE Kind[e] = "rangedint" ->
            RangeMin[e] + ((x - RangeMin[e]) % Bit[RangeBits(RangeMin[e], RangeMax[e])])
      [] Kind[e] = "float" -> Grain * ((x \div Grain) % Bit[FloatBits])
      [] OTHER -> x

LEMMA RangeFacts ==
    ASSUME NEW e \in Elements, Kind[e] = "rangedint"
    PROVE  /\ RangeMin[e] \in Int /\ RangeMax[e] \in Int /\ RangeMin[e] <= RangeMax[e]
           /\ RangeBits(RangeMin[e], RangeMax[e]) \in Nat
           /\ Bit[RangeBits(RangeMin[e], RangeMax[e])] \in Nat \ {0}
           /\ RangeMax[e] - RangeMin[e] < Bit[RangeBits(RangeMin[e], RangeMax[e])]
<1>1. RangeMin[e] \in Int /\ RangeMax[e] \in Int /\ RangeMin[e] <= RangeMax[e]
  BY NetRootAssumption
<1> DEFINE range == RangeMax[e] - RangeMin[e] + 1
           n == BitCountForRange(range)
<1>2. range \in Nat \ {0}
  BY <1>1
<1>3. n \in Nat /\ Bit[n] >= range
  <2> HIDE DEF range
  <2> QED BY <1>2, BitCountFacts
<1>4. Bit[n] \in Nat \ {0}
  BY <1>3, BitFacts
<1>5. RangeBits(RangeMin[e], RangeMax[e]) = n
  BY DEF RangeBits
<1> HIDE DEF n
<1> QED BY <1>1, <1>3, <1>4, <1>5

LEMMA Widths == FloatBits \in Nat /\ Grain \in Nat \ {0} /\ \A e \in Elements : Width(e) \in Nat
<1>1. FloatBits \in Nat /\ Grain \in Nat \ {0}
  BY NetRootAssumption, GrainAssumption
<1> QED BY <1>1, RangeFacts DEF Width

LEMMA EncodedFacts ==
    ASSUME NEW v \in Trees, NEW e \in Elements
    PROVE  Encoded(e, v) \in BitSeqs /\ Len(Encoded(e, v)) = Width(e)
<1>1. v[e] \in Int /\ (e \in Containers => v[e] \in {0, 1})
  BY DEF Trees
<1>2. CASE Kind[e] = "rangedint"
  <2>1. RangeMin[e] \in Int /\ RangeBits(RangeMin[e], RangeMax[e]) \in Nat
    BY <1>2, RangeFacts
  <2>2. v[e] - RangeMin[e] \in Int
    BY <1>1, <2>1
  <2> QED BY <1>2, <2>1, <2>2, WriteIntFacts DEF Encoded, Width, WriteRangedInt
<1>3. CASE Kind[e] = "float"
  <2>1. v[e] \div Grain \in Int /\ FloatBits \in Nat
    BY <1>1, Widths, Division
  <2> QED BY <1>3, <2>1, WriteIntFacts DEF Encoded, Width, WriteFloat
<1>4. CASE e \in Containers
  <2>1. WriteFlag(v[e]) \in BitSeqs /\ Len(WriteFlag(v[e])) = 1
    BY <1>1, <1>4 DEF WriteFlag, BitSeqs
  <2> QED BY <1>4, <2>1 DEF Encoded, Width, Containers
<1> QED BY <1>2, <1>3, <1>4, TreeConstants DEF Containers

\* Whatever a reader finds, it takes no value out of the range of its field,
\* but those it throws at.
LEMMA DecodedRange ==
    ASSUME NEW bits \in BitSeqs, NEW pos \in Nat, NEW e \in Elements
    PROVE  /\ Decoded(e, bits, pos) \in Int
           /\ e \in Containers => Decoded(e, bits, pos) \in {0, 1}
           /\ \/ Kind[e] = "rangedint" /\ AboveRange(Decoded(e, bits, pos), RangeMax[e])
              \/ Holds(e, Decoded(e, bits, pos))
<1>1. CASE Kind[e] = "rangedint"
  <2> DEFINE n == RangeBits(RangeMin[e], RangeMax[e])
             x == ReadInt(bits, pos, n)
  <2>1. RangeMin[e] \in Int /\ RangeMax[e] \in Int /\ n \in Nat /\ Bit[n] \in Nat
    BY <1>1, RangeFacts
  <2>2. x \in 0 .. Bit[n] - 1
    BY <2>1, ReadIntRange
  <2>3. Decoded(e, bits, pos) = RangeMin[e] + x
    BY <1>1 DEF Decoded, ReadRangedInt
  <2> HIDE DEF n, x
  <2> QED BY <1>1, <2>1, <2>2, <2>3 DEF AboveRange, Holds, Containers
<1>2. CASE Kind[e] = "float"
  <2> DEFINE x == ReadInt(bits, pos, FloatBits)
  <2>1. x \in 0 .. Bit[FloatBits] - 1 /\ Bit[FloatBits] \in Nat /\ Grain \in Nat
    BY Widths, BitFacts, ReadIntRange
  <2>2. Decoded(e, bits, pos) = Grain * x
    BY <1>2 DEF Decoded, ReadFloat
  <2> HIDE DEF x
  <2>3. Grain * x \in 0 .. Grain * (Bit[FloatBits] - 1)
    BY <2>1
  <2> QED BY <1>2, <2>1, <2>2, <2>3 DEF Holds, Containers
<1>3. CASE e \in Containers
  <2>1. ReadFlag(bits, pos) \in {0, 1}
    BY ReadFlagType
  <2> QED BY <1>3, <2>1 DEF Decoded, Holds, Containers
<1> QED BY <1>1, <1>2, <1>3, TreeConstants DEF Containers

\* A reader at the place of an element finds what Dec says.
LEMMA DecodedWritten ==
    ASSUME NEW bits \in BitSeqs, NEW pos \in Nat, NEW e \in Elements, NEW v \in Trees,
           pos + Width(e) <= Len(bits),
           \A i \in 1 .. Width(e) : bits[pos + i] = Encoded(e, v)[i]
    PROVE  Decoded(e, bits, pos) = Dec(e, v[e])
<1>1. v[e] \in Int /\ (e \in Containers => v[e] \in {0, 1})
  BY DEF Trees
<1>2. CASE Kind[e] = "rangedint"
  <2> DEFINE n == RangeBits(RangeMin[e], RangeMax[e])
             x == v[e] - RangeMin[e]
  <2>1. RangeMin[e] \in Int /\ n \in Nat /\ x \in Int
    BY <1>1, <1>2, RangeFacts
  <2>2. Width(e) = n /\ Encoded(e, v) = WriteInt(x, n)
    BY <1>2 DEF Encoded, Width, WriteRangedInt
  <2>3. Decoded(e, bits, pos) = RangeMin[e] + ReadInt(bits, pos, n)
    BY <1>2 DEF Decoded, ReadRangedInt
  <2>4. Dec(e, v[e]) = RangeMin[e] + (x % Bit[n])
    BY <1>2 DEF Dec
  <2> HIDE DEF n, x
  <2>5. /\ pos + n <= Len(bits)
        /\ \A i \in 1 .. n : bits[pos + i] = WriteInt(x, n)[i]
    BY <2>2
  <2>6. ReadInt(bits, pos, n) = x % Bit[n]
    BY <2>1, <2>5, ReadWritten
  <2> QED BY <2>3, <2>4, <2>6, Zenon
<1>3. CASE Kind[e] = "float"
  <2> DEFINE x == v[e] \div Grain
  <2>1. x \in Int /\ FloatBits \in Nat
    BY <1>1, Widths, Division
  <2>2. Width(e) = FloatBits /\ Encoded(e, v) = WriteInt(x, FloatBits)
    BY <1>3 DEF Encoded, Width, WriteFloat
  <2>3. Decoded(e, bits, pos) = Grain * ReadInt(bits, pos, FloatBits)
    BY <1>3 DEF Decoded, ReadFloat
  <2>4. Dec(e, v[e]) = Grain * (x % Bit[FloatBits])
    BY <1>3 DEF Dec
  <2> HIDE DEF x
  <2>5. /\ pos + FloatBits <= Len(bits)
        /\ \A i \in 1 .. FloatBits : bits[pos + i] = WriteInt(x, FloatBits)[i]
    BY <2>2
  <2>6. ReadInt(bits, pos, FloatBits) = x % Bit[FloatBits]
    BY <2>1, <2>5, ReadWritten
  <2> QED BY <2>3, <2>4, <2>6, Zenon
<1>4. CASE e \in Containers
  <2>1. Width(e) = 1 /\ Encoded(e, v) = <<v[e]>> /\ Dec(e, v[e]) = v[e]
    BY <1>4 DEF Encoded, Width, Dec, Containers, WriteFlag
  <2>2. Decoded(e, bits, pos) = ReadFlag(bits, pos)
    BY <1>4 DEF Decoded, Containers
  <2>3. pos < Len(bits) /\ bits[pos + 1] = v[e]
    <3>1. Len(bits) \in Nat /\ 1 \in 1 .. 1
      BY DEF BitSeqs
    <3>2. bits[pos + 1] = Encoded(e, v)[1]
      BY <2>1, <3>1
    <3>3. pos < Len(bits)
      BY <2>1, <3>1
    <3> QED BY <2>1, <3>2, <3>3
  <2> QED BY <2>1, <2>2, <2>3 DEF ReadFlag
<1> QED BY <1>2, <1>3, <1>4, TreeConstants DEF Containers

\* What a field has room for goes through, a float less than a step below.
LEMMA DecKeeps ==
    ASSUME NEW e \in Elements, NEW x \in Int, Holds(e, x)
    PROVE  IF Kind[e] = "float" THEN x \in Dec(e, x) .. Dec(e, x) + Grain - 1
                                ELSE Dec(e, x) = x
<1>1. CASE Kind[e] = "rangedint"
  <2> DEFINE n == RangeBits(RangeMin[e], RangeMax[e])
             y == x - RangeMin[e]
  <2>1. /\ RangeMin[e] \in Int /\ RangeMax[e] \in Int /\ Bit[n] \in Nat \ {0}
        /\ RangeMax[e] - RangeMin[e] < Bit[n]
    BY <1>1, RangeFacts
  <2>2. x \in RangeMin[e] .. RangeMax[e]
    BY <1>1 DEF Holds
  <2>3. Dec(e, x) = RangeMin[e] + (y % Bit[n])
    BY <1>1 DEF Dec
  <2>4. PICK p : p = Bit[n]
    OBVIOUS
  <2>5. y \in 0 .. p - 1 /\ y = 0 * p + y
    BY <2>1, <2>2, <2>4
  <2>6. y % p = y
    <3> HIDE DEF y
    <3> QED BY <2>1, <2>4, <2>5, DivisionOnce
  <2>7. RangeMin[e] + y = x
    BY <2>1
  <2> HIDE DEF y
  <2>8. Dec(e, x) = x
    BY <2>3, <2>4, <2>6, <2>7, Zenon
  <2> QED BY <1>1, <2>8
<1>2. CASE Kind[e] = "float"
  <2> DEFINE y == x \div Grain
  <2>1. PICK p : p = Bit[FloatBits]
    OBVIOUS
  <2>2. p \in Nat \ {0} /\ Grain \in Nat \ {0}
    BY <2>1, Widths, BitFacts
  <2>3. y \in Int /\ x % Grain \in 0 .. Grain - 1 /\ x = y * Grain + (x % Grain)
    BY <2>2, Division
  <2>4. x \in 0 .. Grain * (p - 1)
    BY <1>2, <2>1 DEF Holds
  <2>5. Dec(e, x) = Grain * (y % p)
    BY <1>2, <2>1 DEF Dec
  <2> HIDE DEF y
  <2>6. PICK r : r = x % Grain
    OBVIOUS
  <2>7. y \in 0 .. p - 1
    <3>1. r \in Int /\ 0 <= r /\ r < Grain /\ x = y * Grain + r /\ 0 <= x /\ x <= Grain * (p - 1)
      BY <2>2, <2>3, <2>4, <2>6
    <3>2. ~(y < 0)
      <4>1. y < 0 => y * Grain <= 0 - Grain
        BY <2>2, <2>3
      <4>2. y * Grain \in Int
        BY <2>2, <2>3
      <4> QED BY <2>2, <3>1, <4>1, <4>2
    <3>3. ~(y > p - 1)
      <4>1. y > p - 1 => y * Grain >= p * Grain
        BY <2>2, <2>3
      <4>2. p * Grain = Grain * (p - 1) + Grain /\ y * Grain \in Int /\ Grain * (p - 1) \in Int
        BY <2>2, <2>3
      <4> QED BY <2>2, <3>1, <4>1, <4>2
    <3> QED BY <2>2, <2>3, <3>2, <3>3
  <2>8. y % p = y
    <3>1. y = 0 * p + y
      BY <2>2, <2>7
    <3> QED BY <2>2, <2>7, <3>1, DivisionOnce
  <2>9. Grain * y = y * Grain /\ y * Grain \in Int
    BY <2>2, <2>3
  <2> QED BY <1>2, <2>2, <2>3, <2>5, <2>8, <2>9
<1>3. CASE e \in Containers
  BY <1>3 DEF Dec, Containers
<1> QED BY <1>1, <1>2, <1>3, TreeConstants DEF Containers

-----------------------------------------------------------------------------
(* serialize().                                                             *)

LEMMA StreamFacts ==
    ASSUME NEW v \in Trees
    PROVE  /\ Stream(v) \in [0 .. Size -> BitSeqs] /\ Stream(v)[0] = <<>>
           /\ \A e \in Elements : Stream(v)[e] = Stream(v)[e - 1] \o SerializeElement(e, v)
<1> DEFINE Piece(e) == SerializeElement(e, v)
<1>1. ASSUME NEW e \in Elements PROVE Piece(e) \in BitSeqs
  <2>1. <<>> \in BitSeqs
    BY DEF BitSeqs
  <2> QED BY <2>1, EncodedFacts DEF SerializeElement
<1> DEFINE step == [t \in Nat \X BitSeqs |->
                        IF t[1] \in Elements THEN t[2] \o Piece(t[1]) ELSE t[2]]
<1>2. /\ step \in [Nat \X BitSeqs -> BitSeqs] /\ <<>> \in BitSeqs
      /\ \A e \in Elements, s \in BitSeqs : e \in Nat => step[<<e, s>>] = s \o Piece(e)
  <2>1. <<>> \in BitSeqs /\ \A s, t \in BitSeqs : s \o t \in BitSeqs
    BY DEF BitSeqs
  <2> HIDE DEF Piece
  <2> QED BY <1>1, <2>1
<1> HIDE DEF step
<1>3. PICK f \in [0 .. Size -> BitSeqs] : Follows(f, <<>>, step, Size)
  <2> HIDE DEF Piece
  <2> QED BY <1>2, TreeConstants, FollowsExists
<1>4. ASSUME NEW e \in 0 .. Size PROVE f[e] = IF e = 0 THEN <<>> ELSE f[e - 1] \o Piece(e)
  <2>1. CASE e = 0
    BY <1>3, <2>1 DEF Follows
  <2>2. CASE e # 0
    <3>1. /\ e - 1 \in Nat /\ (e - 1) + 1 = e /\ e - 1 < Size /\ f[e - 1] \in BitSeqs
          /\ e \in Elements /\ e \in Nat
      BY <1>3, <2>2, TreeConstants
    <3>2. f[(e - 1) + 1] = step[<<(e - 1) + 1, f[e - 1]>>]
      BY <1>3, <3>1 DEF Follows
    <3> HIDE DEF Piece
    <3> QED BY <1>2, <2>2, <3>1, <3>2
  <2> QED BY <2>1, <2>2
<1>5. f = [e \in 0 .. Size |-> IF e = 0 THEN <<>> ELSE f[e - 1] \o SerializeElement(e, v)]
  BY <1>3, <1>4
<1> DEFINE q == CHOOSE g : g = [e \in 0 .. Size |->
                    IF e = 0 THEN <<>> ELSE g[e - 1] \o SerializeElement(e, v)]
<1>6. q = [e \in 0 .. Size |-> IF e = 0 THEN <<>> ELSE q[e - 1] \o SerializeElement(e, v)]
  BY <1>5
<1>7. Stream(v) = q
  BY Zenon DEF Stream
<1> HIDE DEF q
<1>8. 0 \in 0 .. Size /\ \A e \in Elements : e \in 0 .. Size /\ e # 0 /\ e - 1 \in 0 .. Size
  BY TreeConstants
<1>9. q[0] = <<>> /\ \A e \in Elements : q[e] = q[e - 1] \o Piece(e)
  BY <1>6, <1>8
<1> HIDE DEF Piece
<1>10. q \in [0 .. Size -> BitSeqs]
  <2> DEFINE D == {e \in Nat : e <= Size => q[e] \in BitSeqs}
  <2>1. 0 \in D
    BY <1>2, <1>9
  <2>2. ASSUME NEW e \in D PROVE e + 1 \in D
    <3>1. e + 1 <= Size => e + 1 \in Elements /\ e <= Size /\ (e + 1) - 1 = e
      BY TreeConstants
    <3>2. \A s, t \in BitSeqs : s \o t \in BitSeqs
      BY DEF BitSeqs
    <3>3. ASSUME e + 1 <= Size PROVE q[e + 1] \in BitSeqs
      <4>1. q[e] \in BitSeqs /\ Piece(e + 1) \in BitSeqs
        BY <1>1, <3>1, <3>3
      <4>2. q[e + 1] = q[e] \o Piece(e + 1)
        BY <1>9, <3>1, <3>3
      <4> QED BY <3>2, <4>1, <4>2
    <3> QED BY <3>3
  <2>3. D = Nat
    <3>1. D \in SUBSET Nat
      OBVIOUS
    <3> HIDE DEF D
    <3> QED BY <2>1, <2>2, <3>1, NatSetInduction
  <2>4. \A e \in 0 .. Size : q[e] \in BitSeqs
    BY <2>3
  <2> QED BY <1>6, <2>4
<1> QED BY <1>7, <1>9, <1>10 DEF Piece

\* s goes on from t.
Extends(s, t) == Len(t) <= Len(s) /\ \A k \in 1 .. Len(t) : s[k] = t[k]

LEMMA StreamGrows ==
    ASSUME NEW v \in Trees
    PROVE  \A e \in 0 .. Size : Extends(Serialize(v), Stream(v)[e])
<1> DEFINE s == Stream(v)
           D == {f \in Nat : f <= Size => \A e \in 0 .. f : Extends(s[f], s[e])}
<1>1. s \in [0 .. Size -> BitSeqs]
  BY StreamFacts
<1>2. \A t \in BitSeqs : Extends(t, t)
  BY DEF Extends, BitSeqs
<1>3. ASSUME NEW f \in Elements PROVE Extends(s[f], s[f - 1])
  <2>1. s[f] = s[f - 1] \o SerializeElement(f, v)
    BY StreamFacts
  <2>2. s[f - 1] \in BitSeqs /\ SerializeElement(f, v) \in BitSeqs
    <3>1. f - 1 \in 0 .. Size /\ <<>> \in BitSeqs
      BY TreeConstants DEF BitSeqs
    <3> QED BY <1>1, <3>1, EncodedFacts DEF SerializeElement
  <2> HIDE DEF s
  <2> QED BY <2>1, <2>2 DEF Extends, BitSeqs
<1>4. \A r, t, u \in BitSeqs : Extends(r, t) /\ Extends(t, u) => Extends(r, u)
  BY DEF Extends, BitSeqs
<1> HIDE DEF s
<1>5. 0 \in D
  <2>1. 0 \in 0 .. Size /\ \A e \in 0 .. 0 : e = 0
    BY TreeConstants
  <2> QED BY <1>1, <1>2, <2>1
<1>6. ASSUME NEW f \in D PROVE f + 1 \in D
  <2> SUFFICES ASSUME f + 1 <= Size, NEW e \in 0 .. f + 1 PROVE Extends(s[f + 1], s[e])
    OBVIOUS
  <2>1. /\ f + 1 \in Elements /\ (f + 1) - 1 = f /\ f \in 0 .. Size /\ f <= Size
        /\ f + 1 \in 0 .. Size /\ e \in 0 .. Size
    BY TreeConstants
  <2>2. CASE e = f + 1
    BY <1>1, <1>2, <2>1, <2>2
  <2>3. CASE e # f + 1
    <3>1. e \in 0 .. f
      BY <2>1, <2>3
    <3>2. Extends(s[f], s[e]) /\ Extends(s[f + 1], s[f])
      BY <1>3, <2>1, <3>1
    <3> QED BY <1>1, <1>4, <2>1, <3>2
  <2> QED BY <2>2, <2>3
<1>7. D = Nat
  <2>1. D \in SUBSET Nat
    OBVIOUS
  <2> HIDE DEF D
  <2> QED BY <1>5, <1>6, <2>1, NatSetInduction
<1>8. Size \in Nat /\ Size <= Size
  BY TreeConstants
<1> QED BY <1>7, <1>8 DEF s, Serialize

\* Where a visited element is.
LEMMA StreamAt ==
    ASSUME NEW v \in Trees, NEW e \in Elements
    PROVE  /\ Serialize(v) \in BitSeqs
           /\ Len(Stream(v)[e - 1]) \in Nat
           /\ Len(Stream(v)[e]) = IF e \in Visited(v)
                                  THEN Len(Stream(v)[e - 1]) + Width(e)
                                  ELSE Len(Stream(v)[e - 1])
           /\ e \in Visited(v) =>
                /\ Len(Stream(v)[e - 1]) + Width(e) <= Len(Serialize(v))
                /\ \A i \in 1 .. Width(e) :
                      Serialize(v)[Len(Stream(v)[e - 1]) + i] = Encoded(e, v)[i]
<1> DEFINE s == Stream(v)
           p == Len(s[e - 1])
           w == Width(e)
<1>1. e - 1 \in 0 .. Size /\ e \in 0 .. Size /\ Size \in 0 .. Size
  BY TreeConstants
<1>2. s[e - 1] \in BitSeqs /\ s[e] \in BitSeqs /\ s[Size] \in BitSeqs
  BY <1>1, StreamFacts
<1>3. Encoded(e, v) \in BitSeqs /\ Len(Encoded(e, v)) = w /\ w \in Nat
  BY EncodedFacts, Widths
<1>4. s[e] = s[e - 1] \o SerializeElement(e, v)
  BY StreamFacts
<1>5. Extends(s[Size], s[e])
  BY <1>1, StreamGrows DEF Serialize
<1>6. Serialize(v) = s[Size]
  BY DEF Serialize
<1> HIDE DEF s, w
<1>7. CASE e \in Visited(v)
  <2>1. s[e] = s[e - 1] \o Encoded(e, v)
    BY <1>4, <1>7 DEF SerializeElement
  <2>2. PICK c : c = Encoded(e, v)
    OBVIOUS
  <2>3. Len(s[e]) = p + w /\ p \in Nat /\ \A i \in 1 .. w : s[e][p + i] = c[i]
    <3>1. \A a, b \in BitSeqs : /\ Len(a \o b) = Len(a) + Len(b) /\ Len(a) \in Nat
                               /\ \A i \in 1 .. Len(b) : (a \o b)[Len(a) + i] = b[i]
      BY DEF BitSeqs
    <3>2. PICK a : a = s[e - 1]
      OBVIOUS
    <3>3. a \in BitSeqs /\ c \in BitSeqs /\ Len(c) = w /\ s[e] = a \o c /\ p = Len(a)
      BY <1>2, <1>3, <2>1, <2>2, <3>2
    <3>4. /\ Len(a \o c) = Len(a) + Len(c) /\ Len(a) \in Nat
          /\ \A i \in 1 .. Len(c) : (a \o c)[Len(a) + i] = c[i]
      BY <3>1, <3>3, Zenon
    <3> HIDE DEF p
    <3> QED BY <3>3, <3>4, Zenon
  <2>4. Len(s[Size]) \in Nat /\ p + w <= Len(s[Size])
    BY <1>2, <1>5, <2>3 DEF Extends, BitSeqs
  <2>5. ASSUME NEW i \in 1 .. w PROVE s[Size][p + i] = c[i]
    <3>1. p + i \in 1 .. Len(s[e])
      BY <1>3, <2>3
    <3> HIDE DEF p
    <3> QED BY <1>5, <2>3, <3>1 DEF Extends
  <2> QED BY <1>2, <1>6, <1>7, <2>2, <2>3, <2>4, <2>5 DEF s, w
<1>8. CASE e \notin Visited(v)
  <2>1. s[e] = s[e - 1] \o <<>>
    BY <1>4, <1>8 DEF SerializeElement
  <2>2. Len(s[e]) = p /\ p \in Nat
    BY <1>2, <2>1 DEF BitSeqs
  <2> QED BY <1>2, <1>6, <1>8, <2>2 DEF s
<1> QED BY <1>7, <1>8

-----------------------------------------------------------------------------
(* deserialize().                                                           *)

Readers == [value : Trees, pos : Nat, threw : BOOLEAN]

LEMMA TreeUpdate ==
    ASSUME NEW v \in Trees, NEW e \in Elements, NEW x \in Int,
           e \in Containers => x \in {0, 1}
    PROVE  [v EXCEPT ![e] = x] \in Trees
<1> DEFINE w == [v EXCEPT ![e] = x]
<1>1. v \in [Elements -> Int] /\ \A d \in Containers : v[d] \in {0, 1} /\ d \in Elements
  BY DEF Trees, Containers
<1>2. w \in [Elements -> Int]
  BY <1>1
<1>3. \A d \in Elements : w[d] = IF d = e THEN x ELSE v[d]
  BY <1>1
<1> HIDE DEF w
<1>4. \A d \in Containers : w[d] \in {0, 1}
  BY <1>1, <1>3
<1>5. w \in Trees
  BY <1>2, <1>4 DEF Trees
<1> QED BY <1>5 DEF w

LEMMA ReaderType ==
    ASSUME NEW bits \in BitSeqs, NEW r \in Readers, NEW e \in Elements
    PROVE  DeserializeElement(e, bits, r) \in Readers
<1> DEFINE v == Decoded(e, bits, r.pos)
<1>1. r.value \in Trees /\ r.pos \in Nat /\ r.threw \in BOOLEAN
  BY DEF Readers
<1>2. v \in Int /\ (e \in Containers => v \in {0, 1})
  BY <1>1, DecodedRange
<1>3. Width(e) \in Nat
  BY Widths
<1> HIDE DEF v
<1>4. [r.value EXCEPT ![e] = v] \in Trees
  BY <1>1, <1>2, TreeUpdate
<1>5. [r EXCEPT !.threw = TRUE] \in Readers
  BY DEF Readers
<1>6. [r EXCEPT !.value[e] = v, !.pos = @ + Width(e)] \in Readers
  <2>1. PICK w : w = [r.value EXCEPT ![e] = v]
    OBVIOUS
  <2>2. [r EXCEPT !.value[e] = v, !.pos = @ + Width(e)]
          = [r EXCEPT !.value = w, !.pos = @ + Width(e)]
    BY <2>1
  <2>3. r.pos + Width(e) \in Nat /\ w \in Trees
    BY <1>1, <1>3, <1>4, <2>1
  <2>4. [r EXCEPT !.value = w, !.pos = @ + Width(e)] \in Readers
    BY <2>3 DEF Readers
  <2> QED BY <2>2, <2>4
<1> QED BY <1>5, <1>6 DEF DeserializeElement, v

LEMMA ReadingFacts ==
    ASSUME NEW bits \in BitSeqs, NEW old \in Trees
    PROVE  /\ Reading(bits, old) \in [0 .. Size -> Readers]
           /\ Reading(bits, old)[0] = [value |-> old, pos |-> 0, threw |-> FALSE]
           /\ \A e \in Elements : Reading(bits, old)[e] =
                  DeserializeElement(e, bits, Reading(bits, old)[e - 1])
<1> DEFINE start == [value |-> old, pos |-> 0, threw |-> FALSE]
           Pass(e, r) == DeserializeElement(e, bits, r)
           step == [t \in Nat \X Readers |->
                        IF t[1] \in Elements THEN Pass(t[1], t[2]) ELSE t[2]]
<1>1. start \in Readers
  BY DEF Readers
<1>2. /\ step \in [Nat \X Readers -> Readers]
      /\ \A e \in Elements, r \in Readers : e \in Nat => step[<<e, r>>] = Pass(e, r)
  <2>1. \A e \in Elements, r \in Readers : Pass(e, r) \in Readers
    BY ReaderType
  <2> HIDE DEF Pass
  <2> QED BY <2>1
<1> HIDE DEF step
<1>3. PICK f \in [0 .. Size -> Readers] : Follows(f, start, step, Size)
  <2> HIDE DEF start, Pass
  <2> QED BY <1>1, <1>2, TreeConstants, FollowsExists
<1>4. ASSUME NEW e \in 0 .. Size PROVE f[e] = IF e = 0 THEN start ELSE Pass(e, f[e - 1])
  <2> HIDE DEF start
  <2>1. CASE e = 0
    BY <1>3, <2>1 DEF Follows
  <2>2. CASE e # 0
    <3>1. /\ e - 1 \in Nat /\ (e - 1) + 1 = e /\ e - 1 < Size /\ f[e - 1] \in Readers
          /\ e \in Elements /\ e \in Nat
      BY <1>3, <2>2, TreeConstants
    <3>2. f[(e - 1) + 1] = step[<<(e - 1) + 1, f[e - 1]>>]
      BY <1>3, <3>1 DEF Follows
    <3> HIDE DEF Pass
    <3> QED BY <1>2, <2>2, <3>1, <3>2
  <2> QED BY <2>1, <2>2
<1>5. f = [e \in 0 .. Size |-> IF e = 0 THEN [value |-> old, pos |-> 0, threw |-> FALSE]
                               ELSE DeserializeElement(e, bits, f[e - 1])]
  BY <1>3, <1>4
<1> DEFINE q == CHOOSE g : g = [e \in 0 .. Size |->
                    IF e = 0 THEN [value |-> old, pos |-> 0, threw |-> FALSE]
                    ELSE DeserializeElement(e, bits, g[e - 1])]
<1>6. q = [e \in 0 .. Size |-> IF e = 0 THEN [value |-> old, pos |-> 0, threw |-> FALSE]
                               ELSE DeserializeElement(e, bits, q[e - 1])]
  BY <1>5
<1>7. Reading(bits, old) = q
  BY Zenon DEF Reading
<1> HIDE DEF q
<1>8. 0 \in 0 .. Size /\ \A e \in Elements : e \in 0 .. Size /\ e # 0 /\ e - 1 \in 0 .. Size
  BY TreeConstants
<1>9. q[0] = start /\ \A e \in Elements : q[e] = Pass(e, q[e - 1])
  BY <1>6, <1>8
<1>10. q \in [0 .. Size -> Readers]
  <2> DEFINE D == {e \in Nat : e <= Size => q[e] \in Readers}
  <2> HIDE DEF start, Pass
  <2>1. 0 \in D
    BY <1>1, <1>9
  <2>2. ASSUME NEW e \in D PROVE e + 1 \in D
    <3>1. e + 1 <= Size => e + 1 \in Elements /\ e <= Size /\ (e + 1) - 1 = e
      BY TreeConstants
    <3>2. \A d \in Elements, r \in Readers : Pass(d, r) \in Readers
      BY ReaderType DEF Pass
    <3> QED BY <1>9, <3>1, <3>2
  <2>3. D = Nat
    <3>1. D \in SUBSET Nat
      OBVIOUS
    <3> HIDE DEF D
    <3> QED BY <2>1, <2>2, <3>1, NatSetInduction
  <2>4. \A e \in 0 .. Size : q[e] \in Readers
    BY <2>3
  <2> QED BY <1>6, <2>4
<1> QED BY <1>7, <1>9, <1>10

\* What a step of a reader does to its values.
LEMMA ReaderStep ==
    ASSUME NEW bits \in BitSeqs, NEW r \in Readers, NEW e \in Elements,
           NEW s, s = DeserializeElement(e, bits, r),
           NEW x, x = Decoded(e, bits, r.pos)
    PROVE  /\ r.threw \/ e \notin Visited(r.value) => s = r
           /\ ~r.threw /\ e \in Visited(r.value) =>
                IF Kind[e] = "rangedint" /\ AboveRange(x, RangeMax[e])
                THEN s.threw /\ s.value = r.value
                ELSE /\ ~s.threw /\ s.value = [r.value EXCEPT ![e] = x]
                     /\ s.pos = r.pos + Width(e)
<1>1. r.value \in Trees /\ r.pos \in Nat
  BY DEF Readers
<1>2. s = IF r.threw \/ e \notin Visited(r.value) THEN r
          ELSE IF Kind[e] = "rangedint" /\ AboveRange(x, RangeMax[e])
               THEN [r EXCEPT !.threw = TRUE]
               ELSE [r EXCEPT !.value[e] = x, !.pos = @ + Width(e)]
  BY DEF DeserializeElement
<1>3. [r EXCEPT !.threw = TRUE].threw /\ [r EXCEPT !.threw = TRUE].value = r.value
  BY DEF Readers
<1>4. PICK w, n : w = [r.value EXCEPT ![e] = x] /\ n = Width(e)
  OBVIOUS
<1>5. [r EXCEPT !.value[e] = x, !.pos = @ + n] = [r EXCEPT !.value = w, !.pos = @ + n]
  BY <1>4
<1>6. PICK t : t = [r EXCEPT !.value = w, !.pos = @ + n]
  OBVIOUS
<1>7. t.threw = r.threw /\ t.value = w /\ t.pos = r.pos + n
  BY <1>6 DEF Readers
<1> QED BY <1>2, <1>3, <1>4, <1>5, <1>6, <1>7

\* Nothing comes into the tree that its field has no room for.
LEMMA ReadInRange ==
    ASSUME NEW bits \in BitSeqs, NEW old \in Trees
    PROVE  /\ Deserialize(bits, old) \in Readers
           /\ \A e \in Elements : \/ Deserialize(bits, old).value[e] = old[e]
                                  \/ Holds(e, Deserialize(bits, old).value[e])
<1> DEFINE r == Reading(bits, old)
           InRange(n) == \A e \in Elements : \/ r[n].value[e] = old[e]
                                             \/ Holds(e, r[n].value[e])
           D == {n \in Nat : n <= Size => InRange(n)}
<1>1. /\ r \in [0 .. Size -> Readers] /\ r[0].value = old
      /\ \A e \in Elements : r[e] = DeserializeElement(e, bits, r[e - 1])
  <2>1. r[0] = [value |-> old, pos |-> 0, threw |-> FALSE]
    BY ReadingFacts
  <2> QED BY <2>1, ReadingFacts
<1> HIDE DEF r
<1>2. 0 \in D
  BY <1>1
<1>3. ASSUME NEW n \in D PROVE n + 1 \in D
  <2> SUFFICES ASSUME n + 1 <= Size PROVE InRange(n + 1)
    OBVIOUS
  <2>1. /\ n + 1 \in Elements /\ (n + 1) - 1 = n /\ n <= Size /\ n \in 0 .. Size
    BY TreeConstants
  <2>2. PICK e : e = n + 1
    OBVIOUS
  <2>3. r[n] \in Readers /\ InRange(n) /\ e \in Elements
    BY <1>1, <2>1, <2>2
  <2>4. PICK x : x = Decoded(e, bits, r[n].pos)
    OBVIOUS
  <2>5. r[n].value \in Trees /\ r[n].pos \in Nat
    BY <2>3 DEF Readers
  <2>6. \/ Kind[e] = "rangedint" /\ AboveRange(x, RangeMax[e])
        \/ Holds(e, x)
    BY <2>3, <2>4, <2>5, DecodedRange
  <2>7. r[e] = DeserializeElement(e, bits, r[n])
    BY <1>1, <2>1, <2>2, <2>3
  <2>8. \/ r[e].value = r[n].value
        \/ Holds(e, x) /\ r[e].value = [r[n].value EXCEPT ![e] = x]
    BY <2>3, <2>4, <2>6, <2>7, ReaderStep
  <2>9. ASSUME NEW d \in Elements
        PROVE  r[e].value[d] = old[d] \/ Holds(d, r[e].value[d])
    <3>1. \/ r[e].value[d] = r[n].value[d]
          \/ d = e /\ Holds(e, x) /\ r[e].value[d] = x
      BY <2>5, <2>8 DEF Trees
    <3> QED BY <2>3, <3>1
  <2> QED BY <2>2, <2>9
<1>4. D = Nat
  <2>1. D \in SUBSET Nat
    OBVIOUS
  <2> HIDE DEF D
  <2> QED BY <1>2, <1>3, <2>1, NatSetInduction
<1>5. Size \in Nat /\ Size <= Size /\ Size \in 0 .. Size
  BY TreeConstants
<1>6. InRange(Size) /\ r[Size] \in Readers
  BY <1>1, <1>4, <1>5
<1> QED BY <1>6 DEF r, Deserialize

\* Which elements are visited is up to the visited containers before them.
LEMMA VisitedAlike ==
    ASSUME NEW v \in Trees, NEW w, NEW e \in Elements,
           \A c \in Containers : c < e /\ c \in Visited(v) => w[c] = v[c]
    PROVE  e \in Visited(v) <=> e \in Visited(w)
<1> DEFINE Above == Path[e] \ {e}
<1>1. ASSUME NEW c \in Above
      PROVE  /\ c \in Elements /\ c \in Containers /\ c \in Nat /\ c < e
             /\ \A b \in Path[c] \ {c} : b \in Above /\ b < c
  <2>1. c \in Containers /\ c \in 1 .. e /\ c # e /\ Path[c] \subseteq Path[e]
    BY PathFacts DEF GoodPath
  <2>2. c \in Elements /\ c \in Nat /\ c < e
    BY <2>1, TreeConstants
  <2>3. ASSUME NEW b \in Path[c] \ {c} PROVE b \in Above /\ b < c
    <3>1. b \in 1 .. c /\ b # c
      BY <2>2, PathFacts DEF GoodPath
    <3> QED BY <2>1, <2>2, <3>1
  <2> QED BY <2>1, <2>2, <2>3
<1> HIDE DEF Above
<1>2. ASSUME NEW c \in Above, \A b \in Path[c] \ {c} : v[b] = 1
      PROVE  w[c] = v[c]
  <2>1. c \in Visited(v)
    BY <1>1, <1>2 DEF Visited
  <2> QED BY <1>1, <2>1
<1>3. ASSUME \A c \in Above : v[c] = 1
      PROVE  \A c \in Above : w[c] = 1
  BY <1>1, <1>2, <1>3
<1>4. ASSUME NEW c \in Above, v[c] # 1
      PROVE  \E d \in Above : w[d] # 1
  <2> DEFINE D == {d \in Above : v[d] # 1}
  <2>1. D \in SUBSET Nat /\ D # {}
    BY <1>1, <1>4
  <2>2. PICK d \in D : \A b \in D : d <= b
    <3> HIDE DEF D
    <3> QED BY <2>1, LeastNumber
  <2>3. ASSUME NEW b \in Path[d] \ {d} PROVE v[b] = 1
    <3>1. b \in Above /\ b < d /\ b \in Nat /\ d \in Nat
      BY <1>1, <2>2
    <3> QED BY <2>2, <3>1
  <2> QED BY <1>2, <2>2, <2>3
<1> QED BY <1>3, <1>4 DEF Visited, Above

\* The reader throws at an element up to n.
Throws(v, n) ==
    \E d \in Visited(v) : /\ d <= n /\ Kind[d] = "rangedint"
                          /\ AboveRange(Dec(d, v[d]), RangeMax[d])

\* What it has then, if not.
Merged(v, old, n) ==
    [d \in Elements |-> IF d <= n /\ d \in Visited(v) THEN Dec(d, v[d]) ELSE old[d]]

LEMMA ReadElement ==
    ASSUME NEW v \in Trees, NEW old \in Trees, NEW e \in Elements, ~Throws(v, e - 1),
           NEW r \in Readers, ~r.threw, r.value = Merged(v, old, e - 1),
           r.pos = Len(Stream(v)[e - 1]),
           NEW s, s = DeserializeElement(e, Serialize(v), r)
    PROVE  IF Throws(v, e) THEN s.threw
           ELSE /\ ~s.threw /\ s.value = Merged(v, old, e)
                /\ s.pos = Len(Stream(v)[e])
<1>1. /\ e \in Nat /\ \A d \in Elements : d \in Nat /\ (d <= e <=> d <= e - 1 \/ d = e)
      /\ ~(e <= e - 1)
  BY TreeConstants
<1>2. \A d \in Visited(v) : d \in Elements
  BY DEF Visited
<1>3. \A d \in Elements : r.value[d] = IF d <= e - 1 /\ d \in Visited(v)
                                       THEN Dec(d, v[d]) ELSE old[d]
  BY DEF Merged
<1>4. e \in Visited(v) <=> e \in Visited(r.value)
  <2>1. ASSUME NEW c \in Containers, c < e, c \in Visited(v) PROVE r.value[c] = v[c]
    <3>1. c \in Elements /\ c <= e - 1 /\ Dec(c, v[c]) = v[c]
      BY <1>1, <2>1 DEF Containers, Dec
    <3> QED BY <1>3, <2>1, <3>1
  <2> QED BY <2>1, VisitedAlike
<1>5. CASE e \notin Visited(v)
  <2>1. s = r
    <3>1. Serialize(v) \in BitSeqs
      BY StreamAt
    <3> QED BY <1>4, <1>5, <3>1, ReaderStep
  <2>2. ~Throws(v, e)
    BY <1>1, <1>2, <1>5 DEF Throws
  <2>3. Merged(v, old, e) = Merged(v, old, e - 1)
    BY <1>1, <1>5 DEF Merged
  <2>4. Len(Stream(v)[e]) = Len(Stream(v)[e - 1])
    BY <1>5, StreamAt
  <2> QED BY <2>1, <2>2, <2>3, <2>4
<1>6. CASE e \in Visited(v)
  <2>1. PICK x : x = Decoded(e, Serialize(v), r.pos)
    OBVIOUS
  <2>2. x = Dec(e, v[e])
    <3>1. /\ Serialize(v) \in BitSeqs /\ r.pos \in Nat
          /\ r.pos + Width(e) <= Len(Serialize(v))
          /\ \A i \in 1 .. Width(e) : Serialize(v)[r.pos + i] = Encoded(e, v)[i]
      BY <1>6, StreamAt
    <3> QED BY <2>1, <3>1, DecodedWritten
  <2>3. IF Kind[e] = "rangedint" /\ AboveRange(x, RangeMax[e])
        THEN s.threw
        ELSE /\ ~s.threw /\ s.value = [r.value EXCEPT ![e] = x]
             /\ s.pos = r.pos + Width(e)
    <3>1. Serialize(v) \in BitSeqs
      BY StreamAt
    <3> QED BY <1>4, <1>6, <2>1, <3>1, ReaderStep
  <2>4. Throws(v, e) <=> Kind[e] = "rangedint" /\ AboveRange(x, RangeMax[e])
    BY <1>1, <1>2, <1>6, <2>2 DEF Throws
  <2>5. [r.value EXCEPT ![e] = x] = Merged(v, old, e)
    <3>1. r.value \in [Elements -> Int]
      BY DEF Readers, Trees
    <3>2. \A d \in Elements : [r.value EXCEPT ![e] = x][d]
                              = IF d = e THEN x ELSE r.value[d]
      BY <3>1
    <3>3. \A d \in Elements : [r.value EXCEPT ![e] = x][d]
                              = IF d <= e /\ d \in Visited(v) THEN Dec(d, v[d]) ELSE old[d]
      BY <1>1, <1>3, <1>6, <2>2, <3>2
    <3> QED BY <3>1, <3>3 DEF Merged
  <2>6. Len(Stream(v)[e]) = r.pos + Width(e)
    BY <1>6, StreamAt
  <2> QED BY <2>3, <2>4, <2>5, <2>6
<1> QED BY <1>5, <1>6

\* An update is read as it was written, whatever the reader's tree holds.
LEMMA DeserializeFacts ==
    ASSUME NEW v \in Trees, NEW old \in Trees,
           NEW r, r = Deserialize(Serialize(v), old)
    PROVE  /\ r.threw <=> Throws(v, Size)
           /\ ~r.threw => r.value = Merged(v, old, Size) /\ r.pos = Len(Serialize(v))
<1> DEFINE rs == Reading(Serialize(v), old)
           IsRead(n) == IF Throws(v, n) THEN rs[n].threw
                        ELSE /\ ~rs[n].threw /\ rs[n].value = Merged(v, old, n)
                             /\ rs[n].pos = Len(Stream(v)[n])
           D == {n \in Nat : n <= Size => IsRead(n)}
<1>1. Serialize(v) \in BitSeqs
  <2>1. Size \in 0 .. Size
    BY TreeConstants
  <2> QED BY <2>1, StreamFacts DEF Serialize
<1>2. /\ rs \in [0 .. Size -> Readers]
      /\ rs[0] = [value |-> old, pos |-> 0, threw |-> FALSE]
      /\ \A e \in Elements : rs[e] = DeserializeElement(e, Serialize(v), rs[e - 1])
  BY <1>1, ReadingFacts
<1> HIDE DEF rs
<1>3. 0 \in D
  <2>1. \A d \in Visited(v) : d \in Nat /\ ~(d <= 0)
    BY TreeConstants DEF Visited
  <2>2. ~Throws(v, 0)
    BY <2>1 DEF Throws
  <2>3. Merged(v, old, 0) = old
    <3>1. \A d \in Elements : ~(d <= 0)
      BY TreeConstants
    <3>2. old = [d \in Elements |-> old[d]]
      BY DEF Trees
    <3> QED BY <3>1, <3>2 DEF Merged
  <2>4. Len(Stream(v)[0]) = 0
    BY StreamFacts
  <2>5. IsRead(0)
    BY <1>2, <2>2, <2>3, <2>4
  <2> HIDE DEF IsRead
  <2> QED BY <2>5
<1>4. ASSUME NEW n \in D PROVE n + 1 \in D
  <2> SUFFICES ASSUME n + 1 <= Size PROVE IsRead(n + 1)
    <3> HIDE DEF IsRead
    <3> QED OBVIOUS
  <2>1. n + 1 \in Elements /\ (n + 1) - 1 = n /\ n <= Size /\ n \in 0 .. Size
    BY TreeConstants
  <2>2. PICK e : e = n + 1
    OBVIOUS
  <2>3. rs[n] \in Readers /\ e \in Elements /\ e - 1 = n
    BY <1>2, <2>1, <2>2
  <2>4. IsRead(n)
    <3> HIDE DEF IsRead
    <3> QED BY <2>1
  <2>5. rs[e] = DeserializeElement(e, Serialize(v), rs[n])
    BY <1>2, <2>3
  <2>6. CASE Throws(v, n)
    <3>1. rs[e] = rs[n] /\ rs[n].threw
      <4>1. rs[n].threw
        BY <2>4, <2>6
      <4>2. PICK q, s, x : /\ q = rs[n] /\ s = rs[e]
                           /\ x = Decoded(e, Serialize(v), q.pos)
        OBVIOUS
      <4>3. q \in Readers /\ q.threw /\ s = DeserializeElement(e, Serialize(v), q)
        BY <2>3, <2>5, <4>1, <4>2
      <4>4. s = q
        BY <4>3 DEF DeserializeElement
      <4> QED BY <4>1, <4>2, <4>4
    <3>2. Throws(v, e)
      <4>1. \A d \in Visited(v) : d \in Nat /\ (d <= n => d <= e)
        BY <2>2, TreeConstants DEF Visited
      <4> QED BY <2>6, <4>1 DEF Throws
    <3> QED BY <2>2, <3>1, <3>2
  <2>7. CASE ~Throws(v, n)
    <3>1. /\ ~Throws(v, e - 1) /\ ~rs[n].threw /\ rs[n].value = Merged(v, old, e - 1)
          /\ rs[n].pos = Len(Stream(v)[e - 1])
      BY <2>3, <2>4, <2>7
    <3>2. IsRead(e)
      BY <2>3, <2>5, <3>1, ReadElement
    <3> HIDE DEF IsRead
    <3> QED BY <2>2, <3>2
  <2> QED BY <2>6, <2>7
<1>5. D = Nat
  <2>1. D \in SUBSET Nat
    OBVIOUS
  <2> HIDE DEF D
  <2> QED BY <1>3, <1>4, <2>1, NatSetInduction
<1>6. IsRead(Size)
  <2>1. Size \in Nat /\ Size <= Size
    BY TreeConstants
  <2> HIDE DEF IsRead
  <2> QED BY <1>5, <2>1
<1>7. r = rs[Size] /\ r \in Readers
  <2>1. Size \in 0 .. Size
    BY TreeConstants
  <2>2. r = rs[Size]
    BY DEF Deserialize, rs
  <2> QED BY <1>2, <2>1, <2>2
<1> QED BY <1>6, <1>7 DEF Serialize
-----------------------------------------------------------------------------
(* The invariant.  What is in flight are trees as they were written.  A     *)
(* field that is not fully dirty is as it is at the server in the last of   *)
(* them that brings it, or, if none does, at the client.                    *)
Sent(vs) ==
    /\ vs \in Seq(Trees) /\ Len(vs) = Len(wire)
    /\ \A k \in 1 .. Len(vs) : wire[k] = Serialize(vs[k])

Arrives(vs, e) ==
    \/ \E k \in 1 .. Len(vs) :
          /\ e \in Visited(vs[k]) /\ vs[k][e] = protocol[e]
          /\ \A j \in k + 1 .. Len(vs) : e \notin Visited(vs[j])
    \/ /\ \A j \in 1 .. Len(vs) : e \notin Visited(vs[j])
       /\ copy[e] = Dec(e, protocol[e])

CleanArrive(vs) ==
    \A e \in Tracked :
        Covered(e) /\ Visible(e) /\ ~(GetElementDirtyBits(e) \subseteq dirtyFlags)
            => Arrives(vs, e)

TypeInv ==
    /\ object \in [Tracked -> UNION {Settings[e] : e \in Tracked}]
    /\ \A e \in Tracked : object[e] \in Settings[e]
    /\ protocol \in Trees /\ copy \in Trees
    /\ dirtyFlags \subseteq AllDirty
    /\ isGhosted \in BOOLEAN /\ failed \in BOOLEAN

CopyInRange == \A e \in Elements : copy[e] = Fresh[e] \/ Holds(e, copy[e])

ShownIsCopy ==
    wire = <<>> /\ isGhosted /\ ~failed => \A e \in Tracked : shown[e] = copy[e]

InFlight == \E vs \in Seq(Trees) : Sent(vs) /\ (~failed => CleanArrive(vs))

ProtocolInv ==
    TypeInv /\ CopyInRange /\ ShownInRange /\ ShownIsCopy
            /\ wire \in Seq(BitSeqs) /\ InFlight

LEMMA ConstantFacts ==
    /\ Tracked \subseteq Elements /\ Tracked \cap DirtyFlags = {}
    /\ \A e \in Tracked : /\ Settings[e] \subseteq Int
                          /\ e \in Containers => Settings[e] \subseteq {0, 1}
    /\ Fresh \in Trees
    /\ \A e \in Elements : FlagBit(e) \in AllDirty /\ GetElementDirtyBits(e) \subseteq AllDirty
<1>1. Tracked \subseteq Elements /\ Tracked \cap DirtyFlags = {}
  BY ProtocolAssumption
<1>2. \A e \in Tracked : /\ Settings[e] \subseteq Int
                         /\ e \in Containers => Settings[e] \subseteq {0, 1}
  BY <1>1, ProtocolAssumption DEF Containers, DirtyFlags
<1>3. Fresh \in Trees
  BY DEF Fresh, Trees, Containers
<1>4. \A e \in Elements : FlagBit(e) \in AllDirty
  <2> TAKE e \in Elements
  <2>1. IsFiniteSet(Elements)
    BY TreeConstants, FS_Interval
  <2>2. {d \in DirtyFlags : d < e} \subseteq Elements
    BY DEF DirtyFlags
  <2>3. DirtyFlagIndex(e) \in Nat
    BY <2>1, <2>2, FS_Subset, FS_CardinalityType DEF DirtyFlagIndex
  <2>4. IntBits \in Nat \ {0}
    BY NetRootAssumption
  <2>5. \A a \in Nat, p \in Nat \ {0} : (a % p) \in 0 .. p - 1
    OBVIOUS
  <2> QED BY <2>3, <2>4, <2>5 DEF FlagBit, AllDirty
<1>5. \A e \in Elements : GetElementDirtyBits(e) \subseteq AllDirty
  BY <1>4 DEF GetElementDirtyBits, DirtyFlags
<1> QED BY <1>1, <1>2, <1>3, <1>4, <1>5

LEMMA ProtocolInit == Init => ProtocolInv
<1> SUFFICES ASSUME Init PROVE ProtocolInv
  OBVIOUS
<1>1. TypeInv
  BY ConstantFacts DEF Init, TypeInv
<1>2. CopyInRange /\ ShownInRange /\ ShownIsCopy /\ wire \in Seq(BitSeqs)
  BY DEF Init, CopyInRange, ShownInRange, ShownIsCopy
<1>3. CleanArrive(<<>>)
  BY ConstantFacts DEF Init, CleanArrive
<1>4. <<>> \in Seq(Trees) /\ Sent(<<>>)
  BY DEF Init, Sent
<1> QED BY <1>1, <1>2, <1>3, <1>4 DEF ProtocolInv, InFlight

LEMMA ProtocolChange ==
    ASSUME ProtocolInv, NEW e \in Tracked, NEW v \in Settings[e], ChangeProperty(e, v)
    PROVE  ProtocolInv'
<1>1. TypeInv'
  BY DEF ProtocolInv, TypeInv, ChangeProperty
<1>2. /\ lastValue' = lastValue /\ protocol' = protocol /\ dirtyFlags' = dirtyFlags
      /\ isGhosted' = isGhosted /\ wire' = wire /\ copy' = copy /\ shown' = shown
      /\ failed' = failed
  BY DEF ChangeProperty
<1> QED BY <1>1, <1>2 DEF ProtocolInv, CopyInRange, ShownInRange, ShownIsCopy, InFlight,
           Sent, CleanArrive, Arrives, Visible

LEMMA ProtocolCheck ==
    ASSUME ProtocolInv, CheckTrackedProperties
    PROVE  ProtocolInv'
<1>1. /\ TypeInv /\ CopyInRange /\ ShownInRange /\ ShownIsCopy /\ wire \in Seq(BitSeqs)
      /\ protocol \in [Elements -> Int]
  BY DEF ProtocolInv, TypeInv, Trees
<1>2. /\ object' = object /\ isGhosted' = isGhosted /\ wire' = wire /\ copy' = copy
      /\ shown' = shown /\ failed' = failed
      /\ protocol' = [e \in Elements |-> IF e \in Changed THEN object[e] ELSE protocol[e]]
      /\ dirtyFlags' = dirtyFlags \cup UNION {GetElementDirtyBits(e) : e \in Changed}
  BY DEF CheckTrackedProperties
<1>3. \A e \in Elements : protocol'[e] = IF e \in Changed THEN object[e] ELSE protocol[e]
  BY <1>2
<1>4. Changed \subseteq Tracked /\ Tracked \subseteq Elements
  BY ConstantFacts DEF Changed
<1>5. TypeInv'
  <2>1. \A e \in Changed : object[e] \in Int /\ (e \in Containers => object[e] \in {0, 1})
    BY <1>1, <1>4, ConstantFacts DEF TypeInv
  <2>2. \A e \in Elements : protocol'[e] \in Int /\ (e \in Containers => protocol'[e] \in {0, 1})
    BY <1>1, <1>3, <2>1 DEF TypeInv, Trees
  <2>3. protocol' \in Trees
    <3>1. protocol' \in [Elements -> Int]
      BY <1>2, <1>3, <2>2
    <3> QED BY <2>2, <3>1 DEF Trees, Containers
  <2>4. dirtyFlags' \subseteq AllDirty
    BY <1>1, <1>2, <1>4, ConstantFacts DEF TypeInv
  <2> QED BY <1>1, <1>2, <2>3, <2>4 DEF TypeInv
<1>6. PICK vs \in Seq(Trees) : Sent(vs) /\ (~failed => CleanArrive(vs))
  BY DEF ProtocolInv, InFlight
<1>7. ASSUME ~failed, NEW e \in Tracked, Covered(e), Visible(e)',
             ~(GetElementDirtyBits(e) \subseteq dirtyFlags')
      PROVE  Arrives(vs, e)'
  <2>1. e \notin Changed
    BY <1>2, <1>7
  <2>2. protocol'[e] = protocol[e]
    BY <1>3, <1>4, <2>1
  <2>3. Visible(e)
    <3> SUFFICES ASSUME NEW c \in Path[e] \ (DirtyFlags \cup {e}), protocol[c] # 1
                 PROVE  FALSE
      BY DEF Visible
    <3>1. protocol'[c] = 1
      BY <1>7 DEF Visible
    <3>2. c \in Elements
      BY <1>4, PathFacts, TreeConstants DEF GoodPath
    <3>3. c \in Changed
      BY <1>3, <3>1, <3>2
    <3>4. Path[e] \cap DirtyFlags \subseteq Path[c]
      <4> SUFFICES ASSUME NEW d \in Path[e] \cap DirtyFlags, d \notin Path[c]
                   PROVE  FALSE
        OBVIOUS
      <4>1. c \in Path[d]
        BY <1>4, PathFacts DEF GoodPath
      <4>2. c \in DirtyFlags
        BY <1>7, <4>1 DEF Covered
      <4> QED BY <4>2
    <3>5. GetElementDirtyBits(e) \subseteq GetElementDirtyBits(c)
      BY <3>4 DEF GetElementDirtyBits
    <3> QED BY <1>2, <1>7, <3>3, <3>5
  <2>4. ~(GetElementDirtyBits(e) \subseteq dirtyFlags)
    BY <1>2, <1>7
  <2>5. Arrives(vs, e)
    BY <1>6, <1>7, <2>3, <2>4 DEF CleanArrive
  <2> QED BY <1>2, <2>2, <2>5 DEF Arrives
<1>8. InFlight'
  BY <1>2, <1>6, <1>7 DEF InFlight, Sent, CleanArrive, Covered
<1> QED BY <1>1, <1>2, <1>5, <1>8 DEF ProtocolInv, CopyInRange, ShownInRange, ShownIsCopy

LEMMA ProtocolWrite ==
    ASSUME ProtocolInv, WriteUpdate
    PROVE  ProtocolInv'
<1>1. /\ TypeInv /\ CopyInRange /\ ShownInRange /\ ShownIsCopy /\ wire \in Seq(BitSeqs)
      /\ protocol \in [Elements -> Int] /\ protocol \in Trees
  BY DEF ProtocolInv, TypeInv, Trees
<1>2. /\ object' = object /\ copy' = copy /\ shown' = shown /\ failed' = failed
      /\ isGhosted' = TRUE /\ dirtyFlags' = {}
      /\ wire' = Append(wire, Serialize(protocol'))
      /\ protocol' = SetDirtyState(protocol, dirtyFlags)
  BY DEF WriteUpdate
<1>3. \A e \in Elements :
         protocol'[e] = IF e \in DirtyFlags THEN IF FlagBit(e) \in dirtyFlags THEN 1 ELSE 0
                        ELSE protocol[e]
  BY <1>2 DEF SetDirtyState
<1>4. protocol' \in Trees
  <2>1. \A e \in Elements : protocol'[e] \in Int /\ (e \in Containers => protocol'[e] \in {0, 1})
    BY <1>1, <1>3 DEF Trees
  <2>2. protocol' \in [Elements -> Int]
    BY <1>2, <2>1 DEF SetDirtyState
  <2> QED BY <2>1, <2>2 DEF Trees, Containers
<1>5. Serialize(protocol') \in BitSeqs
  <2>1. Size \in 0 .. Size
    BY TreeConstants
  <2> QED BY <1>4, <2>1, StreamFacts DEF Serialize
<1>6. TypeInv'
  BY <1>1, <1>2, <1>4 DEF TypeInv
<1>7. /\ wire' \in Seq(BitSeqs) /\ Len(wire') = Len(wire) + 1 /\ wire' # <<>>
      /\ wire'[Len(wire) + 1] = Serialize(protocol')
      /\ \A k \in 1 .. Len(wire) : wire'[k] = wire[k]
  BY <1>1, <1>2, <1>5
<1>8. PICK vs \in Seq(Trees) : Sent(vs) /\ (~failed => CleanArrive(vs))
  BY DEF ProtocolInv, InFlight
<1>9. PICK n, ws : n = Len(vs) /\ ws = Append(vs, protocol')
  OBVIOUS
<1>10. /\ n \in Nat /\ n = Len(wire) /\ ws \in Seq(Trees) /\ Len(ws) = n + 1
       /\ ws[n + 1] = protocol' /\ \A k \in 1 .. n : ws[k] = vs[k]
  BY <1>4, <1>8, <1>9 DEF Sent
<1>11. Sent(ws)'
  <2>1. \A k \in 1 .. n + 1 : k \in 1 .. n \/ k = n + 1
    BY <1>10
  <2>2. \A k \in 1 .. n : wire[k] = Serialize(vs[k])
    BY <1>8, <1>9 DEF Sent
  <2>3. \A k \in 1 .. n + 1 : wire'[k] = Serialize(ws[k])
    BY <1>7, <1>10, <2>1, <2>2
  <2> QED BY <1>7, <1>10, <2>3 DEF Sent
<1>12. ASSUME ~failed, NEW e \in Tracked, Covered(e), Visible(e)'
       PROVE  Arrives(ws, e)'
  <2>1. e \in Elements /\ e \notin DirtyFlags /\ protocol'[e] = protocol[e]
    BY <1>3, ConstantFacts
  <2>2. CASE e \in Visited(protocol')
    <3>1. n + 1 \in 1 .. Len(ws) /\ \A j \in (n + 1) + 1 .. Len(ws) : FALSE
      BY <1>10
    <3> QED BY <1>10, <2>2, <3>1 DEF Arrives
  <2>3. CASE e \notin Visited(protocol')
    <3>1. PICK c \in Path[e] \ {e} : protocol'[c] # 1
      BY <2>1, <2>3 DEF Visited
    <3>2. c \in DirtyFlags /\ c \in Elements
      BY <1>12, <3>1 DEF Visible, DirtyFlags
    <3>3. FlagBit(c) \notin dirtyFlags
      BY <1>3, <3>1, <3>2
    <3>4. ~(GetElementDirtyBits(e) \subseteq dirtyFlags)
      BY <3>1, <3>2, <3>3 DEF GetElementDirtyBits
    <3>5. Visible(e)
      <4>1. \A d \in Path[e] : d \in Elements
        BY <2>1, PathFacts, TreeConstants DEF GoodPath
      <4> QED BY <1>3, <1>12, <4>1 DEF Visible
    <3>6. Arrives(vs, e)
      BY <1>8, <1>12, <3>4, <3>5 DEF CleanArrive
    <3>7. ASSUME NEW k \in Nat, \A j \in k + 1 .. n : e \notin Visited(vs[j])
          PROVE  \A j \in k + 1 .. Len(ws) : e \notin Visited(ws[j])
      <4> TAKE j \in k + 1 .. Len(ws)
      <4>1. j = n + 1 \/ (j \in k + 1 .. n /\ j \in 1 .. n)
        BY <1>10
      <4> QED BY <1>10, <2>3, <3>7, <4>1
    <3>8. CASE \E k \in 1 .. n : /\ e \in Visited(vs[k]) /\ vs[k][e] = protocol[e]
                                 /\ \A j \in k + 1 .. n : e \notin Visited(vs[j])
      <4>1. PICK k \in 1 .. n : /\ e \in Visited(vs[k]) /\ vs[k][e] = protocol[e]
                                /\ \A j \in k + 1 .. n : e \notin Visited(vs[j])
        BY <3>8
      <4>2. k \in Nat /\ k \in 1 .. Len(ws) /\ ws[k] = vs[k]
        BY <1>10
      <4>3. \A j \in k + 1 .. Len(ws) : e \notin Visited(ws[j])
        BY <3>7, <4>1, <4>2
      <4> QED BY <2>1, <4>1, <4>2, <4>3 DEF Arrives
    <3>9. CASE (\A j \in 1 .. n : e \notin Visited(vs[j])) /\ copy[e] = Dec(e, protocol[e])
      <4>1. \A j \in 0 + 1 .. Len(ws) : e \notin Visited(ws[j])
        BY <3>7, <3>9
      <4> QED BY <1>2, <2>1, <3>9, <4>1 DEF Arrives
    <3> QED BY <1>9, <3>6, <3>8, <3>9 DEF Arrives
  <2> QED BY <2>2, <2>3
<1>13. InFlight'
  BY <1>2, <1>10, <1>11, <1>12 DEF InFlight, CleanArrive, Covered
<1> QED BY <1>1, <1>2, <1>6, <1>7, <1>13 DEF ProtocolInv, CopyInRange, ShownInRange,
           ShownIsCopy

\* The first of the updates in flight, and what its reader makes of it.
LEMMA FirstUpdate ==
    ASSUME ProtocolInv, wire # <<>>, NEW vs \in Seq(Trees), Sent(vs)
    PROVE  /\ vs # <<>> /\ vs[1] \in Trees /\ Head(wire) = Serialize(vs[1])
           /\ Head(wire) \in BitSeqs /\ Read \in Readers
           /\ Read.threw <=> Throws(vs[1], Size)
           /\ ~Read.threw => /\ Read.value = Merged(vs[1], copy, Size)
                             /\ Read.pos = Len(Head(wire))
           /\ \A e \in Elements : Read.value[e] = copy[e] \/ Holds(e, Read.value[e])
<1>1. wire \in Seq(BitSeqs) /\ copy \in Trees
  BY DEF ProtocolInv, TypeInv
<1>2. 1 \in 1 .. Len(vs) /\ Head(wire) = wire[1] /\ Head(wire) \in BitSeqs
  BY <1>1 DEF Sent
<1>3. vs # <<>> /\ vs[1] \in Trees /\ Head(wire) = Serialize(vs[1])
  BY <1>2 DEF Sent
<1>4. Read = Deserialize(Serialize(vs[1]), copy)
  BY <1>3 DEF Read
<1> QED BY <1>1, <1>2, <1>3, <1>4, DeserializeFacts, ReadInRange

LEMMA ProtocolRead ==
    ASSUME ProtocolInv, ReadUpdate
    PROVE  ProtocolInv'
<1>1. /\ TypeInv /\ CopyInRange /\ ShownInRange /\ ShownIsCopy /\ wire \in Seq(BitSeqs)
  BY DEF ProtocolInv
<1>2. /\ object' = object /\ protocol' = protocol /\ dirtyFlags' = dirtyFlags
      /\ isGhosted' = isGhosted
      /\ wire # <<>> /\ wire' = Tail(wire) /\ copy' = Read.value
      /\ shown' = IF Read.threw THEN shown ELSE [e \in Tracked |-> copy'[e]]
      /\ failed' = (failed \/ Read.threw)
  BY DEF ReadUpdate
<1>3. PICK vs \in Seq(Trees) : Sent(vs) /\ (~failed => CleanArrive(vs))
  BY DEF ProtocolInv, InFlight
<1>4. /\ vs # <<>> /\ vs[1] \in Trees /\ Read \in Readers
      /\ ~Read.threw => Read.value = Merged(vs[1], copy, Size)
      /\ \A e \in Elements : Read.value[e] = copy[e] \/ Holds(e, Read.value[e])
  BY <1>2, <1>3, FirstUpdate
<1>5. Read.value \in Trees /\ Read.threw \in BOOLEAN
  BY <1>4 DEF Readers
<1>6. TypeInv'
  BY <1>1, <1>2, <1>5 DEF TypeInv
<1>7. CopyInRange'
  <2>1. \A e \in Elements : copy'[e] = copy[e] \/ Holds(e, copy'[e])
    BY <1>2, <1>4
  <2> QED BY <1>1, <2>1 DEF CopyInRange
<1>8. ShownInRange'
  <2>1. \A e \in Tracked : copy'[e] \in {NotSeen, Fresh[e]} \/ Holds(e, copy'[e])
    BY <1>7, ConstantFacts DEF CopyInRange
  <2>2. CASE Read.threw
    BY <1>1, <1>2, <2>2 DEF ShownInRange
  <2>3. CASE ~Read.threw
    BY <1>2, <2>1, <2>3 DEF ShownInRange
  <2> QED BY <2>2, <2>3
<1>9. ShownIsCopy'
  BY <1>2, <1>5 DEF ShownIsCopy
<1>10. wire' \in Seq(BitSeqs)
  BY <1>1, <1>2
<1>11. PICK n, ws : n = Len(vs) - 1 /\ ws = Tail(vs)
  OBVIOUS
<1>12. /\ n \in Nat /\ Len(vs) = n + 1 /\ ws \in Seq(Trees) /\ Len(ws) = n
       /\ \A k \in 1 .. n : ws[k] = vs[k + 1]
  BY <1>4, <1>11
<1>13. Sent(ws)'
  <2>1. /\ Len(wire) = n + 1
        /\ \A k \in 1 .. n : k + 1 \in 1 .. n + 1 /\ k + 1 \in 1 .. Len(vs)
    BY <1>3, <1>12 DEF Sent
  <2>2. Len(wire') = n /\ \A k \in 1 .. n : wire'[k] = wire[k + 1]
    <3>1. \A w \in Seq(BitSeqs) :
             Len(w) = n + 1 => Len(Tail(w)) = n /\ \A k \in 1 .. n : Tail(w)[k] = w[k + 1]
      BY <1>12
    <3> QED BY <1>1, <1>2, <2>1, <3>1
  <2>3. \A k \in 1 .. n : wire'[k] = Serialize(ws[k])
    BY <1>3, <1>12, <2>1, <2>2 DEF Sent
  <2> QED BY <1>12, <2>2, <2>3 DEF Sent
<1>14. ASSUME ~failed', NEW e \in Tracked, Covered(e), Visible(e)',
              ~(GetElementDirtyBits(e) \subseteq dirtyFlags')
       PROVE  Arrives(ws, e)'
  <2>1. Arrives(vs, e)
    BY <1>2, <1>3, <1>14 DEF CleanArrive, Visible
  <2>2. copy'[e] = IF e \in Visited(vs[1]) THEN Dec(e, vs[1][e]) ELSE copy[e]
    <3>1. e \in Elements /\ e <= Size
      BY ConstantFacts, TreeConstants
    <3>2. copy' = Merged(vs[1], copy, Size)
      BY <1>2, <1>4, <1>14
    <3> QED BY <3>1, <3>2 DEF Merged
  <2>3. ASSUME NEW k \in Nat, \A j \in (k + 1) + 1 .. n + 1 : e \notin Visited(vs[j])
        PROVE  \A j \in k + 1 .. n : e \notin Visited(ws[j])
    <3> TAKE j \in k + 1 .. n
    <3>1. j \in 1 .. n /\ j + 1 \in (k + 1) + 1 .. n + 1
      BY <1>12
    <3> QED BY <1>12, <2>3, <3>1
  <2>4. CASE \E k \in 1 .. n + 1 : /\ e \in Visited(vs[k]) /\ vs[k][e] = protocol[e]
                                   /\ \A j \in k + 1 .. n + 1 : e \notin Visited(vs[j])
    <3>1. PICK k \in 1 .. n + 1 : /\ e \in Visited(vs[k]) /\ vs[k][e] = protocol[e]
                                  /\ \A j \in k + 1 .. n + 1 : e \notin Visited(vs[j])
      BY <2>4
    <3>2. PICK m \in Nat : k = m + 1
      <4>1. k - 1 \in Nat /\ k = (k - 1) + 1
        BY <1>12
      <4> QED BY <4>1
    <3>3. \A j \in m + 1 .. n : e \notin Visited(ws[j])
      BY <2>3, <3>1, <3>2
    <3>4. CASE m = 0
      <4>1. copy'[e] = Dec(e, protocol[e])
        BY <2>2, <3>1, <3>2, <3>4
      <4> QED BY <1>2, <1>12, <3>3, <3>4, <4>1 DEF Arrives
    <3>5. CASE m # 0
      <4>1. m \in 1 .. n /\ ws[m] = vs[k]
        BY <1>12, <3>2, <3>5
      <4> QED BY <1>2, <1>12, <3>1, <3>3, <4>1 DEF Arrives
    <3> QED BY <3>4, <3>5
  <2>5. CASE (\A j \in 1 .. n + 1 : e \notin Visited(vs[j])) /\ copy[e] = Dec(e, protocol[e])
    <3>1. 1 \in 1 .. n + 1 /\ \A j \in (0 + 1) + 1 .. n + 1 : j \in 1 .. n + 1
      BY <1>12
    <3>2. \A j \in 0 + 1 .. n : e \notin Visited(ws[j])
      BY <2>3, <2>5, <3>1
    <3>3. copy'[e] = Dec(e, protocol[e])
      BY <2>2, <2>5, <3>1
    <3> QED BY <1>2, <1>12, <3>2, <3>3 DEF Arrives
  <2> QED BY <1>12, <2>1, <2>4, <2>5 DEF Arrives
<1>15. InFlight'
  BY <1>12, <1>13, <1>14 DEF InFlight, CleanArrive, Covered
<1> QED BY <1>6, <1>7, <1>8, <1>9, <1>10, <1>15 DEF ProtocolInv

LEMMA ProtocolInvariant == Spec => []ProtocolInv
<1>1. ASSUME ProtocolInv, [Next]_vars PROVE ProtocolInv'
  <2>1. CASE \E e \in Tracked : \E v \in Settings[e] : ChangeProperty(e, v)
    BY <1>1, <2>1, ProtocolChange
  <2>2. CASE CheckTrackedProperties
    BY <1>1, <2>2, ProtocolCheck
  <2>3. CASE WriteUpdate
    BY <1>1, <2>3, ProtocolWrite
  <2>4. CASE ReadUpdate
    BY <1>1, <2>4, ProtocolRead
  <2>5. CASE UNCHANGED vars
    BY <1>1, <2>5 DEF vars, ProtocolInv, TypeInv, CopyInRange, ShownInRange, ShownIsCopy,
       InFlight, Sent, CleanArrive, Arrives, Visible
  <2> QED BY <1>1, <2>1, <2>2, <2>3, <2>4, <2>5 DEF Next
<1> QED BY <1>1, ProtocolInit, PTL DEF Spec

-----------------------------------------------------------------------------
\* The trees, the dirty bits and what is in flight are what the types of the
\* code say, for every protocol and every setting of its fields.
THEOREM ProtocolTypeCorrect == Spec => []TypeOK
<1>1. ProtocolInv => TypeOK
  BY DEF ProtocolInv, TypeInv, TypeOK, Trees, BitSeqs
<1> QED BY <1>1, ProtocolInvariant, PTL

\* NetElementContainer.as:22-32, FlagElement.as:17-27: for every tree of
\* elements, the client reads exactly the bits of an update, whatever the values
\* of the two trees were before.
THEOREM ReaderStaysInFrame == Spec => []InFrame
<1>1. ProtocolInv => InFrame
  <2> SUFFICES ASSUME ProtocolInv, wire # <<>> PROVE Read.threw \/ Read.pos = Len(Head(wire))
    BY DEF InFrame
  <2>1. PICK vs \in Seq(Trees) : Sent(vs)
    BY DEF ProtocolInv, InFlight
  <2> QED BY <2>1, FirstUpdate
<1> QED BY <1>1, ProtocolInvariant, PTL

\* BitStream.as:194-212: whatever the server's properties are set to, no value
\* that its field has no room for reaches the client's object, but the 1 that a
\* ranged int starts with.
THEOREM ShownStaysInRange == Spec => []ShownInRange
<1>1. ProtocolInv => ShownInRange
  BY DEF ProtocolInv
<1> QED BY <1>1, ProtocolInvariant, PTL

\* Ghost.as:167-218, NetRoot.as:135-209: when no field is dirty and all is read,
\* the client shows every covered and visible field as it is, for every tree,
\* every width of an int that dirty flags may have to share, and any number of
\* updates in flight before; unless an update ended in an exception.
THEOREM CleanFieldsShown == Spec => []CleanFieldsAreShown
<1>1. ProtocolInv => CleanFieldsAreShown
  <2> SUFFICES ASSUME ProtocolInv, isGhosted, dirtyFlags = {}, wire = <<>>, ~failed,
                      NEW e \in Tracked, Covered(e), Visible(e), Holds(e, protocol[e])
               PROVE  Shows(e, protocol[e])
    BY DEF CleanFieldsAreShown
  <2>1. PICK vs \in Seq(Trees) : Sent(vs) /\ CleanArrive(vs)
    BY DEF ProtocolInv, InFlight
  <2>2. Len(vs) = 0
    BY <2>1 DEF Sent
  <2>3. Arrives(vs, e)
    BY <2>1 DEF CleanArrive, Covered
  <2>4. copy[e] = Dec(e, protocol[e])
    BY <2>2, <2>3 DEF Arrives
  <2>5. shown[e] = copy[e]
    BY DEF ProtocolInv, ShownIsCopy
  <2>6. e \in Elements /\ protocol[e] \in Int
    BY ConstantFacts DEF ProtocolInv, TypeInv, Trees
  <2> QED BY <2>4, <2>5, <2>6, DecKeeps DEF Shows
<1> QED BY <1>1, ProtocolInvariant, PTL
==============================================================================
