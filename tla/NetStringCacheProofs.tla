------------------------ MODULE NetStringCacheProofs ------------------------
(***************************************************************************)
(* Facts about the operators of NetStringCache that the proofs about its   *)
(* users rest on: what the constructor builds, and what reuseEntry (the    *)
(* only operation that changes a cache) preserves.  With them: induction   *)
(* over the naturals, what the joined packets on a connection are when one *)
(* is sent or taken, and how a reader follows a writer.                    *)
(***************************************************************************)
EXTENDS NetStringCache, SequencesExt, SequenceTheorems, WellFoundedInduction, TLAPS

\* The sentinels are not ids and there is at least one id.
LEMMA IdsFacts ==
    /\ 0 \in Ids
    /\ LruHead \notin Ids /\ LruTail \notin Ids /\ NoEntry \notin Ids
    /\ LruHead # LruTail
    /\ NoString \notin Strings
BY CacheAssumption DEF Ids, LruHead, LruTail, NoEntry

\* The constructor (NetStringCache.as:46-83) builds a well-formed empty cache.
LEMMA NewCacheIsSound ==
    /\ NewCache \in Caches
    /\ WellLinked(NewCache) /\ KnownHeld(NewCache) /\ HeldKnown(NewCache)
<1>1. NewCache \in Caches
  BY CacheAssumption DEF NewCache, Caches, Ids, LruHead, LruTail, NoEntry
<1>2. WellLinked(NewCache)
  BY CacheAssumption DEF NewCache, WellLinked, Ids, LruHead, LruTail
<1>3. KnownHeld(NewCache) /\ HeldKnown(NewCache)
  BY CacheAssumption DEF NewCache, KnownHeld, HeldKnown, Knows, LookupByString
<1> QED BY <1>1, <1>2, <1>3

\* getOldestEntry (NetStringCache.as:201-204) never returns the head sentinel.
LEMMA OldestIsAnEntry ==
    ASSUME NEW c \in Caches, WellLinked(c)
    PROVE  GetOldestEntry(c) \in Ids
<1>1. c.prev[LruTail] \in Ids \cup {LruHead}
  BY DEF Caches
<1>2. c.next[c.prev[LruTail]] = LruTail
  BY DEF WellLinked
<1>3. c.prev[LruTail] # LruHead
  BY <1>2 DEF WellLinked
<1> QED BY <1>1, <1>3 DEF GetOldestEntry

\* reuseEntry maps caches to caches.
LEMMA ReuseType ==
    ASSUME NEW c \in Caches, NEW e \in Ids, NEW s \in Strings
    PROVE  ReuseEntry(c, e, s) \in Caches
<1>1. /\ c.value \in [Ids -> Strings \cup {NoString}]
      /\ c.hash \in [Strings -> Ids \cup {NoEntry}]
      /\ c.next \in [Ids \cup {LruHead} -> Ids \cup {LruTail}]
      /\ c.prev \in [Ids \cup {LruTail} -> Ids \cup {LruHead}]
  BY DEF Caches
<1>2. UnlinkedNext(c, e) \in [Ids \cup {LruHead} -> Ids \cup {LruTail}]
  BY <1>1 DEF UnlinkedNext
<1>3. UnlinkedPrev(c, e) \in [Ids \cup {LruTail} -> Ids \cup {LruHead}]
  BY <1>1 DEF UnlinkedPrev
<1>4. LinkedNext(c, e) \in [Ids \cup {LruHead} -> Ids \cup {LruTail}]
  BY <1>2 DEF LinkedNext
<1>5. LinkedPrev(c, e) \in [Ids \cup {LruTail} -> Ids \cup {LruHead}]
  BY <1>2, <1>3 DEF LinkedPrev
<1>6. Erased(c, e) \in [Strings -> Ids \cup {NoEntry}]
  BY <1>1 DEF Erased
<1>7. [c.value EXCEPT ![e] = s] \in [Ids -> Strings \cup {NoString}]
  BY <1>1
<1>8. [Erased(c, e) EXCEPT ![s] = e] \in [Strings -> Ids \cup {NoEntry}]
  BY <1>6
<1> QED BY <1>4, <1>5, <1>7, <1>8 DEF ReuseEntry, Caches

\* bringToFront (NetStringCache.as:185-196) keeps the list doubly linked and
\* non-empty, wherever in the list the entry was.
LEMMA ReuseKeepsList ==
    ASSUME NEW c \in Caches, NEW e \in Ids, NEW s \in Strings, WellLinked(c)
    PROVE  WellLinked(ReuseEntry(c, e, s))
<1> DEFINE next == c.next
           prev == c.prev
           next2 == LinkedNext(c, e)
           prev2 == LinkedPrev(c, e)
<1>1. /\ next \in [Ids \cup {LruHead} -> Ids \cup {LruTail}]
      /\ prev \in [Ids \cup {LruTail} -> Ids \cup {LruHead}]
  BY DEF Caches
<1>2. /\ \A i \in Ids \cup {LruHead} : prev[next[i]] = i
      /\ \A i \in Ids \cup {LruTail} : next[prev[i]] = i
      /\ next[LruHead] # LruTail
  BY DEF WellLinked
<1>3. /\ next2 = [[[next EXCEPT ![prev[e]] = next[e]]
                  EXCEPT ![e] = [next EXCEPT ![prev[e]] = next[e]][LruHead]]
                  EXCEPT ![LruHead] = e]
      /\ prev2 = [[[prev EXCEPT ![next[e]] = prev[e]]
                  EXCEPT ![[next EXCEPT ![prev[e]] = next[e]][LruHead]] = e]
                  EXCEPT ![e] = LruHead]
  BY DEF LinkedNext, LinkedPrev, UnlinkedNext, UnlinkedPrev
<1> HIDE DEF next, prev, next2, prev2
<1>4. \A i \in Ids \cup {LruHead} : prev2[next2[i]] = i
  BY <1>1, <1>2, <1>3, IdsFacts
<1>5. \A i \in Ids \cup {LruTail} : next2[prev2[i]] = i
  BY <1>1, <1>2, <1>3, IdsFacts
<1>6. next2[LruHead] # LruTail
  BY <1>1, <1>3, IdsFacts
<1> QED BY <1>4, <1>5, <1>6 DEF WellLinked, ReuseEntry, next2, prev2

\* What reuseEntry does to the string map and the entries, string by string:
\* s is now at e, what e held is forgotten, all else is as before.
LEMMA ReuseLookups ==
    ASSUME NEW c \in Caches, NEW e \in Ids, NEW s \in Strings
    PROVE  LET r == ReuseEntry(c, e, s)
           IN  /\ r.value[e] = s
               /\ \A i \in Ids \ {e} : r.value[i] = c.value[i]
               /\ r.hash[s] = e
               /\ \A t \in Strings \ {s} : r.hash[t] = IF t = c.value[e] THEN NoEntry
                                                     ELSE c.hash[t]
<1>1. /\ c.hash \in [Strings -> Ids \cup {NoEntry}]
      /\ c.value \in [Ids -> Strings \cup {NoString}]
  BY DEF Caches
<1>2. Erased(c, e) \in [Strings -> Ids \cup {NoEntry}]
  BY <1>1 DEF Erased
<1>3. \A t \in Strings : Erased(c, e)[t] = IF t = c.value[e] THEN NoEntry
                                          ELSE c.hash[t]
  BY <1>1, IdsFacts DEF Erased
<1> QED BY <1>1, <1>2, <1>3 DEF ReuseEntry

\* reuseEntry never leaves the map pointing at an entry that holds another
\* string, even when a string already known is defined in a second entry.
LEMMA ReuseKeepsKnownHeld ==
    ASSUME NEW c \in Caches, NEW e \in Ids, NEW s \in Strings, KnownHeld(c)
    PROVE  KnownHeld(ReuseEntry(c, e, s))
<1> DEFINE hash2 == ReuseEntry(c, e, s).hash
           value2 == ReuseEntry(c, e, s).value
<1>1. /\ value2[e] = s
      /\ \A i \in Ids \ {e} : value2[i] = c.value[i]
      /\ hash2[s] = e
      /\ \A t \in Strings \ {s} : hash2[t] = IF t = c.value[e] THEN NoEntry
                                            ELSE c.hash[t]
  BY ReuseLookups
<1>2. \A t \in Strings : c.hash[t] # NoEntry => c.value[c.hash[t]] = t
  BY DEF KnownHeld, Knows, LookupByString
<1>3. c.hash \in [Strings -> Ids \cup {NoEntry}]
  BY DEF Caches
<1> HIDE DEF hash2, value2
<1>4. \A t \in Strings : hash2[t] # NoEntry => value2[hash2[t]] = t
  BY <1>1, <1>2, <1>3
<1> QED BY <1>4 DEF KnownHeld, Knows, LookupByString, hash2, value2

\* reuseEntry keeps every held string findable when the string it brings in
\* is new to the cache, which is what write() guarantees.
LEMMA ReuseKeepsHeldKnown ==
    ASSUME NEW c \in Caches, NEW e \in Ids, NEW s \in Strings,
           KnownHeld(c), HeldKnown(c), ~Knows(c, s)
    PROVE  HeldKnown(ReuseEntry(c, e, s))
<1> DEFINE hash2 == ReuseEntry(c, e, s).hash
           value2 == ReuseEntry(c, e, s).value
<1>1. /\ value2[e] = s
      /\ \A i \in Ids \ {e} : value2[i] = c.value[i]
      /\ hash2[s] = e
      /\ \A t \in Strings \ {s} : hash2[t] = IF t = c.value[e] THEN NoEntry
                                            ELSE c.hash[t]
  BY ReuseLookups
<1>2. \A i \in Ids : c.value[i] # NoString => c.hash[c.value[i]] = i
  BY DEF HeldKnown
<1>3. c.value \in [Ids -> Strings \cup {NoString}] /\ c.hash[s] = NoEntry
  BY DEF Caches, Knows, LookupByString
<1> HIDE DEF hash2, value2
<1>4. ASSUME NEW i \in Ids, value2[i] # NoString
      PROVE  hash2[value2[i]] = i
  <2>1. CASE i = e
    BY <1>1, <2>1
  <2>2. CASE i # e
    BY <1>1, <1>2, <1>3, <1>4, <2>2, IdsFacts
  <2> QED BY <2>1, <2>2
<1> QED BY <1>4 DEF HeldKnown, hash2, value2

-----------------------------------------------------------------------------
\* What write() puts in the stream is well formed, and leaves a cache.
LEMMA WriteType ==
    ASSUME NEW c \in Caches, NEW s \in Strings, WellLinked(c)
    PROVE  Written(c, s) \in CachedStrings /\ AfterWrite(c, s) \in Caches
<1>1. GetOldestEntry(c) \in Ids
  BY OldestIsAnEntry
<1>2. Knows(c, s) => LookupByString(c, s) \in Ids
  BY DEF Knows, LookupByString, Caches
<1>3. AfterWrite(c, s) \in Caches
  BY <1>1, ReuseType DEF AfterWrite
<1>4. Written(c, s) \in CachedStrings
  BY <1>1, <1>2, CacheAssumption DEF Written, CachedStrings
<1> QED BY <1>3, <1>4

\* A reader whose cache equals the writer's reads the string that was written
\* and ends with the writer's new cache.
LEMMA ReadUndoesWrite ==
    ASSUME NEW c \in Caches, NEW s \in Strings, KnownHeld(c)
    PROVE  /\ ReadString(c, Written(c, s)) = s
           /\ AfterRead(c, Written(c, s)) = AfterWrite(c, s)
BY DEF ReadString, AfterRead, Written, AfterWrite, KnownHeld, Knows,
       LookupByString, LookupById

\* read() of anything the wire format allows leaves a well-formed cache.
LEMMA ReadType ==
    ASSUME NEW c \in Caches, NEW w \in CachedStrings, WellLinked(c)
    PROVE  /\ AfterRead(c, w) \in Caches /\ WellLinked(AfterRead(c, w))
           /\ ReadString(c, w) \in Strings \cup {NoString}
<1>1. /\ w.fresh \in BOOLEAN /\ w.id \in Ids /\ w.str \in Strings \cup {NoString}
      /\ w.fresh => w.str \in Strings
  BY DEF CachedStrings
<1>2. AfterRead(c, w) \in Caches /\ WellLinked(AfterRead(c, w))
  BY <1>1, ReuseType, ReuseKeepsList DEF AfterRead
<1>3. ReadString(c, w) \in Strings \cup {NoString}
  BY <1>1 DEF ReadString, LookupById, Caches
<1> QED BY <1>2, <1>3

\* write() leaves a well-linked list.
LEMMA WriteKeepsList ==
    ASSUME NEW c \in Caches, NEW s \in Strings, WellLinked(c)
    PROVE  WellLinked(AfterWrite(c, s))
<1>1. GetOldestEntry(c) \in Ids
  BY OldestIsAnEntry
<1> QED BY <1>1, ReuseKeepsList DEF AfterWrite

\* write() keeps the map in step with the entries.
LEMMA WriteKeepsKnownHeld ==
    ASSUME NEW c \in Caches, NEW s \in Strings, WellLinked(c), KnownHeld(c)
    PROVE  KnownHeld(AfterWrite(c, s))
<1>1. GetOldestEntry(c) \in Ids
  BY OldestIsAnEntry
<1> QED BY <1>1, ReuseKeepsKnownHeld DEF AfterWrite

-----------------------------------------------------------------------------
(* The packets under way, joined: FlattenSeq is defined by recursion, so    *)
(* its laws are proved by induction.                                        *)

\* Induction, for sets of natural numbers.
LEMMA NatSetInduction ==
    ASSUME NEW D \in SUBSET Nat, 0 \in D, \A n \in D : n + 1 \in D
    PROVE  D = Nat
<1> DEFINE T == Nat \ D
<1> SUFFICES ASSUME T # {} PROVE FALSE
  OBVIOUS
<1>1. PICK x \in T : \A y \in T : ~ (<<y, x>> \in OpToRel(<, Nat))
  <2>1. IsWellFoundedOn(OpToRel(<, Nat), Nat)
    BY NatLessThanWellFounded
  <2>2. T \subseteq Nat
    OBVIOUS
  <2> HIDE DEF T
  <2> QED BY ONLY <2>1, <2>2, T # {}, WFMin, Zenon
<1>2. \A y \in T : ~(y < x)
  <2>1. \A y \in Nat : y < x => <<y, x>> \in OpToRel(<, Nat)
    BY Zenon DEF OpToRel
  <2> QED BY <1>1, <2>1, Zenon
<1>3. x # 0 /\ x - 1 \in Nat /\ x - 1 < x
  OBVIOUS
<1>4. x - 1 \in D
  BY <1>2, <1>3
<1> QED BY <1>4

\* The first packets of s, joined.
Joins(s, f) == f = [i \in 1 .. Len(s) |-> IF i = 1 THEN s[i] ELSE f[i - 1] \o s[i]]

LEMMA JoinsExists ==
    ASSUME NEW I, NEW s \in Seq(Seq(I))
    PROVE  \E f \in [1 .. Len(s) -> Seq(I)] : Joins(s, f)
<1> DEFINE Upto(n, f) == \A i \in 1 .. n : f[i] = IF i = 1 THEN s[i] ELSE f[i - 1] \o s[i]
           Some(n) == n <= Len(s) => \E f \in [1 .. n -> Seq(I)] : Upto(n, f)
           D == {n \in Nat : Some(n)}
<1>1. Len(s) \in Nat /\ \A i \in 1 .. Len(s) : s[i] \in Seq(I)
  OBVIOUS
<1>2. 0 \in D
  <2>1. [i \in 1 .. 0 |-> <<>>] \in [1 .. 0 -> Seq(I)]
    OBVIOUS
  <2>2. Upto(0, [i \in 1 .. 0 |-> <<>>])
    OBVIOUS
  <2> QED BY <2>1, <2>2
<1>3. ASSUME NEW n \in D PROVE n + 1 \in D
  <2> SUFFICES ASSUME n + 1 <= Len(s)
               PROVE  \E f \in [1 .. n + 1 -> Seq(I)] : Upto(n + 1, f)
    <3>1. n + 1 \in Nat
      OBVIOUS
    <3>2. Some(n + 1) => n + 1 \in D
      <4> HIDE DEF Some
      <4> QED BY <3>1
    <3> HIDE DEF Upto, D
    <3> QED BY <3>2, Zenon
  <2>1. n \in Nat /\ n <= Len(s) /\ n + 1 \in 1 .. Len(s)
    BY <1>1
  <2>2. PICK f \in [1 .. n -> Seq(I)] : Upto(n, f)
    <3> HIDE DEF Upto
    <3> QED BY <2>1, Zenon
  <2> DEFINE last == IF n = 0 THEN s[n + 1] ELSE f[n] \o s[n + 1]
             g == [i \in 1 .. n + 1 |-> IF i = n + 1 THEN last ELSE f[i]]
  <2>3. last \in Seq(I)
    <3>1. s[n + 1] \in Seq(I)
      BY <1>1, <2>1
    <3>2. n # 0 => f[n] \in Seq(I)
      BY <2>1
    <3> QED BY <3>1, <3>2
  <2>4. /\ g \in [1 .. n + 1 -> Seq(I)] /\ g[n + 1] = last
        /\ \A i \in 1 .. n : g[i] = f[i]
    <3> HIDE DEF last
    <3> QED BY <2>1, <2>3
  <2> HIDE DEF g
  <2>5. ASSUME NEW i \in 1 .. n + 1
        PROVE  g[i] = IF i = 1 THEN s[i] ELSE g[i - 1] \o s[i]
    <3>1. CASE i = n + 1 /\ n = 0
      BY <2>4, <3>1
    <3>2. CASE i = n + 1 /\ n # 0
      <4>1. i # 1 /\ i - 1 = n /\ n \in 1 .. n
        BY <2>1, <3>2
      <4> QED BY <2>4, <3>2, <4>1
    <3>3. CASE i \in 1 .. n
      <4>1. i # 1 => i - 1 \in 1 .. n
        BY <2>1, <3>3
      <4> QED BY <2>2, <2>4, <3>3, <4>1
    <3> QED BY <2>1, <3>1, <3>2, <3>3
  <2> QED BY <2>4, <2>5
<1>4. D = Nat
  <2>1. D \in SUBSET Nat
    OBVIOUS
  <2> HIDE DEF D
  <2> QED BY <1>2, <1>3, <2>1, NatSetInduction
<1>5. PICK f \in [1 .. Len(s) -> Seq(I)] : Upto(Len(s), f)
  <2>1. Some(Len(s)) /\ Len(s) <= Len(s)
    <3> HIDE DEF Some
    <3> QED BY <1>1, <1>4
  <2> HIDE DEF Upto
  <2> QED BY <2>1, Zenon
<1>6. f = [i \in 1 .. Len(s) |-> IF i = 1 THEN s[i] ELSE f[i - 1] \o s[i]]
  BY <1>5
<1> QED BY <1>6 DEF Joins

LEMMA JoinsUnique ==
    ASSUME NEW s, Len(s) \in Nat, NEW f, Joins(s, f), NEW g, Joins(s, g)
    PROVE  f = g
<1> DEFINE D == {n \in Nat : n \in 1 .. Len(s) => f[n] = g[n]}
<1>1. /\ f = [i \in 1 .. Len(s) |-> IF i = 1 THEN s[i] ELSE f[i - 1] \o s[i]]
      /\ g = [i \in 1 .. Len(s) |-> IF i = 1 THEN s[i] ELSE g[i - 1] \o s[i]]
  BY DEF Joins
<1>2. \A i \in 1 .. Len(s) : /\ f[i] = IF i = 1 THEN s[i] ELSE f[i - 1] \o s[i]
                             /\ g[i] = IF i = 1 THEN s[i] ELSE g[i - 1] \o s[i]
  BY <1>1
<1>3. 0 \in D
  OBVIOUS
<1>4. ASSUME NEW n \in D PROVE n + 1 \in D
  <2> SUFFICES ASSUME n + 1 \in 1 .. Len(s) PROVE f[n + 1] = g[n + 1]
    OBVIOUS
  <2>1. n \in Nat /\ (n + 1) - 1 = n
    OBVIOUS
  <2>2. CASE n = 0
    BY <1>2, <2>2
  <2>3. CASE n # 0
    <3>1. n + 1 # 1 /\ n \in 1 .. Len(s)
      BY <2>1, <2>3
    <3>2. f[n] = g[n]
      BY <3>1
    <3> QED BY <1>2, <2>1, <3>1, <3>2
  <2> QED BY <2>2, <2>3
<1>5. D = Nat
  <2>1. D \in SUBSET Nat
    OBVIOUS
  <2> HIDE DEF D
  <2> QED BY <1>3, <1>4, <2>1, NatSetInduction
<1>6. \A i \in 1 .. Len(s) : f[i] = g[i]
  BY <1>5
<1> QED BY <1>1, <1>6

LEMMA FlattenJoins ==
    ASSUME NEW s, Len(s) \in Nat \ {0}, NEW f, Joins(s, f)
    PROVE  FlattenSeq(s) = f[Len(s)]
<1> DEFINE q == CHOOSE g : g = [i \in 1 .. Len(s) |-> IF i = 1 THEN s[i] ELSE g[i - 1] \o s[i]]
<1>1. q = f
  <2>1. f = [i \in 1 .. Len(s) |-> IF i = 1 THEN s[i] ELSE f[i - 1] \o s[i]]
    BY DEF Joins
  <2>2. q = [i \in 1 .. Len(s) |-> IF i = 1 THEN s[i] ELSE q[i - 1] \o s[i]]
    BY <2>1
  <2>3. Joins(s, q)
    <3> HIDE DEF q
    <3> QED BY <2>2 DEF Joins
  <2> HIDE DEF q
  <2> QED BY <2>3, JoinsUnique
<1>2. FlattenSeq(s) = q[Len(s)]
  BY Zenon DEF FlattenSeq
<1> QED BY <1>1, <1>2

LEMMA FlattenEmpty == FlattenSeq(<<>>) = <<>>
<1>1. Len(<<>>) = 0
  OBVIOUS
<1> QED BY <1>1 DEF FlattenSeq

LEMMA FlattenType ==
    ASSUME NEW I, NEW s \in Seq(Seq(I))
    PROVE  FlattenSeq(s) \in Seq(I)
<1>1. CASE s = <<>>
  <2>1. FlattenSeq(s) = <<>>
    BY <1>1, FlattenEmpty, Zenon
  <2> QED BY <2>1
<1>2. CASE s # <<>>
  <2>1. Len(s) \in Nat \ {0} /\ Len(s) \in 1 .. Len(s)
    BY <1>2
  <2>2. PICK f \in [1 .. Len(s) -> Seq(I)] : Joins(s, f)
    BY JoinsExists
  <2>3. FlattenSeq(s) = f[Len(s)]
    BY <2>1, <2>2, FlattenJoins
  <2>4. f[Len(s)] \in Seq(I)
    BY <2>1
  <2> QED BY <2>3, <2>4, Zenon
<1> QED BY <1>1, <1>2

\* One more packet, joined to the others.
LEMMA FlattenAppend ==
    ASSUME NEW I, NEW s \in Seq(Seq(I)), NEW x \in Seq(I)
    PROVE  FlattenSeq(Append(s, x)) = FlattenSeq(s) \o x
<1> DEFINE n == Len(s)
           t == Append(s, x)
<1>1. /\ n \in Nat /\ Len(t) = n + 1 /\ t[n + 1] = x
      /\ \A i \in 1 .. n : t[i] = s[i]
  OBVIOUS
<1>2. PICK f \in [1 .. n -> Seq(I)] : Joins(s, f)
  BY JoinsExists
<1> DEFINE g == [i \in 1 .. n + 1 |-> IF i = n + 1 THEN FlattenSeq(s) \o x ELSE f[i]]
<1>3. /\ g[n + 1] = FlattenSeq(s) \o x /\ \A i \in 1 .. n : g[i] = f[i]
  BY <1>1
<1>4. \A i \in 1 .. n : f[i] = IF i = 1 THEN s[i] ELSE f[i - 1] \o s[i]
  <2>1. f = [i \in 1 .. n |-> IF i = 1 THEN s[i] ELSE f[i - 1] \o s[i]]
    BY <1>2 DEF Joins
  <2> QED BY <2>1
<1>5. Joins(t, g)
  <2>1. ASSUME NEW i \in 1 .. n + 1
        PROVE  g[i] = IF i = 1 THEN t[i] ELSE g[i - 1] \o t[i]
    <3> HIDE DEF g, t
    <3>1. CASE i = n + 1 /\ n = 0
      <4>1. s = <<>>
        BY <3>1
      <4>2. FlattenSeq(s) \o x = x
        BY <4>1, FlattenEmpty
      <4> QED BY <1>1, <1>3, <3>1, <4>2
    <3>2. CASE i = n + 1 /\ n # 0
      <4>1. i # 1 /\ i - 1 = n /\ n \in 1 .. n /\ n \in Nat \ {0}
        BY <1>1, <3>2
      <4>2. FlattenSeq(s) = f[n]
        BY <1>2, <4>1, FlattenJoins
      <4> QED BY <1>1, <1>3, <3>2, <4>1, <4>2
    <3>3. CASE i \in 1 .. n
      <4>1. i # 1 => i - 1 \in 1 .. n
        BY <1>1, <3>3
      <4> QED BY <1>1, <1>3, <1>4, <3>3, <4>1
    <3> QED BY <1>1, <3>1, <3>2, <3>3
  <2>2. g = [i \in 1 .. n + 1 |-> IF i = 1 THEN t[i] ELSE g[i - 1] \o t[i]]
    <3>1. g = [i \in 1 .. n + 1 |-> g[i]]
      OBVIOUS
    <3> HIDE DEF g, t
    <3> QED BY <2>1, <3>1
  <2> QED BY <1>1, <2>2 DEF Joins
<1> HIDE DEF g, t
<1>6. FlattenSeq(t) = g[n + 1]
  BY <1>1, <1>5, FlattenJoins
<1> QED BY <1>3, <1>6 DEF t

LEMMA JoinAssociates ==
    ASSUME NEW I, NEW u \in Seq(I), NEW v \in Seq(I), NEW w \in Seq(I)
    PROVE  (u \o v) \o w = u \o (v \o w)
OBVIOUS

\* A sequence is a front of it and the rest.
LEMMA FrontAndRest ==
    ASSUME NEW E, NEW q \in Seq(E), NEW f \in Seq(E), NEW n \in Nat, n <= Len(q),
           Len(f) = n, \A k \in 1 .. n : f[k] = q[k]
    PROVE  f \o SubSeq(q, n + 1, Len(q)) = q
<1> DEFINE r == SubSeq(q, n + 1, Len(q))
<1>1. r \in Seq(E) /\ Len(r) = Len(q) - n /\ \A k \in 1 .. Len(q) - n : r[k] = q[n + k]
  OBVIOUS
<1> HIDE DEF r
<1>2. f \o r \in Seq(E) /\ Len(f \o r) = Len(q)
  BY <1>1
<1>3. ASSUME NEW k \in 1 .. Len(q) PROVE (f \o r)[k] = q[k]
  <2>1. CASE k <= n
    <3>1. k \in 1 .. n
      BY <2>1
    <3>2. (f \o r)[k] = f[k]
      BY <1>1, <2>1
    <3> QED BY <3>1, <3>2
  <2>2. CASE k > n
    <3>1. k - n \in 1 .. Len(q) - n /\ n + (k - n) = k
      BY <2>2
    <3>2. (f \o r)[k] = r[k - n]
      BY <1>1, <2>2
    <3> QED BY <1>1, <3>1, <3>2
  <2>3. k <= n \/ k > n
    OBVIOUS
  <2> QED BY <2>1, <2>2, <2>3
<1> QED BY <1>2, <1>3, SeqEqual DEF r

\* The first packet, before the others joined.
LEMMA FlattenFirst ==
    ASSUME NEW I, NEW s \in Seq(Seq(I)), s # <<>>
    PROVE  FlattenSeq(s) = Head(s) \o FlattenSeq(Tail(s))
<1> DEFINE n == Len(s)
           t == Tail(s)
<1>1. /\ n \in Nat \ {0} /\ t \in Seq(Seq(I)) /\ Len(t) = n - 1 /\ Head(s) = s[1]
      /\ \A i \in 1 .. n : s[i] \in Seq(I)
      /\ \A i \in 1 .. n - 1 : t[i] = s[i + 1]
  OBVIOUS
<1>2. PICK f \in [1 .. n -> Seq(I)] : Joins(s, f)
  BY JoinsExists
<1> HIDE DEF t
<1>3. PICK g \in [1 .. n - 1 -> Seq(I)] : Joins(t, g)
  BY <1>1, JoinsExists
<1>4. \A i \in 1 .. n : f[i] = IF i = 1 THEN s[i] ELSE f[i - 1] \o s[i]
  <2>1. f = [i \in 1 .. n |-> IF i = 1 THEN s[i] ELSE f[i - 1] \o s[i]]
    BY <1>2 DEF Joins
  <2> QED BY <2>1
<1>5. \A i \in 1 .. n - 1 : g[i] = IF i = 1 THEN t[i] ELSE g[i - 1] \o t[i]
  <2>1. g = [i \in 1 .. n - 1 |-> IF i = 1 THEN t[i] ELSE g[i - 1] \o t[i]]
    BY <1>1, <1>3 DEF Joins
  <2> QED BY <2>1
<1>6. FlattenSeq(s) = f[n]
  BY <1>1, <1>2, FlattenJoins
<1>7. CASE n = 1
  <2>1. t = <<>>
    BY <1>1, <1>7
  <2>2. FlattenSeq(t) = <<>>
    BY <2>1, FlattenEmpty
  <2>3. f[n] = s[1] /\ s[1] \in Seq(I)
    BY <1>1, <1>4, <1>7
  <2> QED BY <1>1, <1>6, <2>2, <2>3 DEF t
<1>8. CASE n # 1
  <2> DEFINE Ahead(k) == k + 1 <= n - 1 => f[k + 2] = s[1] \o g[k + 1]
             D == {k \in Nat : Ahead(k)}
  <2>1. 0 \in D
    <3>1. /\ 1 \in 1 .. n - 1 /\ 2 \in 1 .. n /\ 1 \in 1 .. n /\ 2 - 1 = 1 /\ 2 # 1
          /\ 0 + 1 = 1 /\ 0 + 2 = 2 /\ 1 + 1 = 2
      BY <1>1, <1>8
    <3>2. f[2] = f[1] \o s[2] /\ f[1] = s[1]
      BY <1>4, <3>1
    <3>3. g[1] = t[1] /\ t[1] = s[2]
      BY <1>1, <1>5, <3>1
    <3>4. Ahead(0)
      BY <3>1, <3>2, <3>3, Zenon
    <3> HIDE DEF Ahead
    <3> QED BY <3>4
  <2>2. ASSUME NEW k \in D PROVE k + 1 \in D
    <3>0. k \in Nat /\ k + 1 \in Nat /\ Ahead(k)
      <4> HIDE DEF Ahead
      <4> QED OBVIOUS
    <3> SUFFICES ASSUME (k + 1) + 1 <= n - 1
                 PROVE  f[(k + 1) + 2] = s[1] \o g[(k + 1) + 1]
      <4>1. Ahead(k + 1) => k + 1 \in D
        <5> HIDE DEF Ahead
        <5> QED BY <3>0
      <4> QED BY <4>1, Zenon
    <3>1. /\ k \in Nat /\ k + 1 \in 1 .. n - 1 /\ k + 3 \in 1 .. n /\ k + 2 \in 1 .. n - 1
          /\ (k + 1) + 2 = k + 3 /\ (k + 1) + 1 = k + 2 /\ (k + 3) - 1 = k + 2
          /\ (k + 2) - 1 = k + 1 /\ k + 3 # 1 /\ k + 2 # 1 /\ (k + 2) + 1 = k + 3
          /\ 1 \in 1 .. n /\ k + 1 <= n - 1
      BY <1>1, <3>0
    <3>2. f[k + 2] = s[1] \o g[k + 1]
      BY <3>0, <3>1, Zenon
    <3>3. f[k + 3] = f[k + 2] \o s[k + 3]
      BY <1>4, <3>1
    <3>4. g[k + 2] = g[k + 1] \o s[k + 3]
      <4>1. t[k + 2] = s[k + 3]
        BY <1>1, <3>1
      <4> QED BY <1>5, <3>1, <4>1, Zenon
    <3>5. s[1] \in Seq(I) /\ g[k + 1] \in Seq(I) /\ s[k + 3] \in Seq(I)
      BY <1>1, <3>1
    <3>6. (s[1] \o g[k + 1]) \o s[k + 3] = s[1] \o (g[k + 1] \o s[k + 3])
      <4>1. \A u, v, w \in Seq(I) : (u \o v) \o w = u \o (v \o w)
        <5> SUFFICES ASSUME NEW u \in Seq(I), NEW v \in Seq(I), NEW w \in Seq(I)
                     PROVE  (u \o v) \o w = u \o (v \o w)
          OBVIOUS
        <5> QED BY ONLY JoinAssociates
      <4> QED BY <3>5, <4>1, Zenon
    <3> QED BY <3>1, <3>2, <3>3, <3>4, <3>6, Zenon
  <2>3. D = Nat
    <3>1. D \in SUBSET Nat
      OBVIOUS
    <3> HIDE DEF D
    <3> QED BY <2>1, <2>2, <3>1, NatSetInduction
  <2>4. f[n] = s[1] \o g[n - 1]
    <3>1. /\ n - 2 \in Nat /\ (n - 2) + 1 = n - 1 /\ n - 1 \in 1 .. n - 1
          /\ (n - 1) + 1 = n
      BY <1>1, <1>8
    <3>2. (n - 2) + 2 = n /\ (n - 2) + 1 <= n - 1
      BY <1>1
    <3>3. Ahead(n - 2)
      <4> HIDE DEF Ahead
      <4> QED BY <2>3, <3>1
    <3> QED BY <3>1, <3>2, <3>3, Zenon
  <2>5. FlattenSeq(t) = g[n - 1]
    <3>1. Len(t) \in Nat \ {0}
      BY <1>1, <1>8
    <3> QED BY <1>1, <1>3, <3>1, FlattenJoins
  <2> QED BY <1>1, <1>6, <2>4, <2>5 DEF t
<1> QED BY <1>7, <1>8

-----------------------------------------------------------------------------
(* A reader behind a writer.  The items of a stream lead the reader, one   *)
(* after the other, from the state it is in to the state that the writer   *)
(* reckons with.  S are the reader's states; T are the steps <<a, x, b>>:  *)
(* in state a the item x is understood, and leaves the state b.            *)

\* The items of s lead from a to b.
Path(S, T, a, s, b) ==
    \E h \in [0 .. Len(s) -> S] :
        /\ h[0] = a /\ h[Len(s)] = b
        /\ \A k \in 1 .. Len(s) : <<h[k - 1], s[k], h[k]>> \in T

\* Whole packets of items of I as the items of a stream.
Legs(S, I, T) == {t \in S \X Seq(I) \X S : Path(S, T, t[1], t[2], t[3])}

\* What is left of the packet being read, the packets on the wire and what is
\* in the packet being written.
Journey(S, I, T, a, inbox, wire, out, b) ==
    \E m, n \in S : /\ Path(S, T, a, inbox, m)
                    /\ Path(S, Legs(S, I, T), m, wire, n)
                    /\ Path(S, T, n, out, b)

LEMMA PathEmpty ==
    ASSUME NEW S, NEW T, NEW a \in S, NEW b
    PROVE  Path(S, T, a, <<>>, b) <=> a = b
<1>1. Len(<<>>) = 0
  OBVIOUS
<1>2. ASSUME a = b PROVE Path(S, T, a, <<>>, b)
  <2> DEFINE h == [k \in 0 .. 0 |-> a]
  <2>1. h \in [0 .. Len(<<>>) -> S] /\ h[0] = a /\ h[Len(<<>>)] = b
    BY <1>1, <1>2
  <2>2. 1 .. Len(<<>>) = {}
    BY <1>1
  <2> HIDE DEF h
  <2> QED BY <2>1, <2>2 DEF Path
<1> QED BY <1>1, <1>2 DEF Path

LEMMA PathEnds ==
    ASSUME NEW S, NEW T, NEW I, NEW a, NEW s \in Seq(I), NEW b, Path(S, T, a, s, b)
    PROVE  a \in S /\ b \in S
<1>1. Len(s) \in Nat
  OBVIOUS
<1> QED BY <1>1 DEF Path

\* The first item is understood, and the rest leads on from there.
LEMMA PathFirst ==
    ASSUME NEW S, NEW T, NEW I, NEW a, NEW s \in Seq(I), NEW b, s # <<>>,
           Path(S, T, a, s, b)
    PROVE  \E m \in S : <<a, Head(s), m>> \in T /\ Path(S, T, m, Tail(s), b)
<1>1. PICK h \in [0 .. Len(s) -> S] :
          /\ h[0] = a /\ h[Len(s)] = b
          /\ \A k \in 1 .. Len(s) : <<h[k - 1], s[k], h[k]>> \in T
  BY DEF Path
<1>2. /\ Len(s) \in Nat \ {0} /\ Head(s) = s[1] /\ Tail(s) \in Seq(I)
      /\ Len(Tail(s)) = Len(s) - 1
      /\ \A k \in 1 .. Len(s) - 1 : Tail(s)[k] = s[k + 1]
  OBVIOUS
<1> DEFINE rest == [k \in 0 .. Len(s) - 1 |-> h[k + 1]]
<1>3. rest \in [0 .. Len(Tail(s)) -> S] /\ rest[0] = h[1] /\ rest[Len(Tail(s))] = b
  BY <1>1, <1>2
<1>4. ASSUME NEW k \in 1 .. Len(Tail(s))
      PROVE  <<rest[k - 1], Tail(s)[k], rest[k]>> \in T
  <2>1. k + 1 \in 1 .. Len(s) /\ k \in 0 .. Len(s) - 1 /\ k - 1 \in 0 .. Len(s) - 1
    BY <1>2
  <2>2. rest[k - 1] = h[k] /\ rest[k] = h[k + 1] /\ Tail(s)[k] = s[k + 1]
    BY <1>2, <2>1
  <2>3. <<h[(k + 1) - 1], s[k + 1], h[k + 1]>> \in T
    BY <1>1, <2>1
  <2> QED BY <2>1, <2>2, <2>3
<1>5. Path(S, T, h[1], Tail(s), b)
  <2> HIDE DEF rest
  <2> QED BY <1>3, <1>4 DEF Path
<1>6. <<a, Head(s), h[1]>> \in T /\ h[1] \in S
  <2>1. 1 \in 1 .. Len(s)
    BY <1>2
  <2>2. <<h[1 - 1], s[1], h[1]>> \in T
    BY <1>1, <2>1
  <2> QED BY <1>1, <1>2, <2>1, <2>2
<1> QED BY <1>5, <1>6

\* An item that is understood where the stream ends makes it longer.
LEMMA PathAppend ==
    ASSUME NEW S, NEW T, NEW I, NEW a, NEW s \in Seq(I), NEW m, NEW x \in I, NEW b \in S,
           Path(S, T, a, s, m), <<m, x, b>> \in T
    PROVE  Path(S, T, a, Append(s, x), b)
<1>1. PICK h \in [0 .. Len(s) -> S] :
          /\ h[0] = a /\ h[Len(s)] = m
          /\ \A k \in 1 .. Len(s) : <<h[k - 1], s[k], h[k]>> \in T
  BY DEF Path
<1> DEFINE n == Len(s)
           longer == [k \in 0 .. n + 1 |-> IF k = n + 1 THEN b ELSE h[k]]
<1>2. /\ n \in Nat /\ Len(Append(s, x)) = n + 1 /\ Append(s, x)[n + 1] = x
      /\ \A k \in 1 .. n : Append(s, x)[k] = s[k]
  OBVIOUS
<1>3. longer \in [0 .. n + 1 -> S] /\ longer[0] = a /\ longer[n + 1] = b
      /\ \A k \in 0 .. n : longer[k] = h[k]
  BY <1>1, <1>2
<1> HIDE DEF longer, n
<1>4. ASSUME NEW k \in 1 .. n + 1
      PROVE  <<longer[k - 1], Append(s, x)[k], longer[k]>> \in T
  <2>1. CASE k = n + 1
    <3>1. longer[k - 1] = m
      BY <1>1, <1>2, <1>3, <2>1
    <3> QED BY <1>2, <1>3, <2>1, <3>1
  <2>2. CASE k \in 1 .. n
    <3>1. k - 1 \in 0 .. n /\ k \in 0 .. n
      BY <1>2, <2>2
    <3>2. longer[k - 1] = h[k - 1] /\ longer[k] = h[k] /\ Append(s, x)[k] = s[k]
      BY <1>2, <1>3, <2>2, <3>1
    <3> QED BY <1>1, <2>2, <3>2
  <2>3. k = n + 1 \/ k \in 1 .. n
    BY <1>2
  <2> QED BY <2>1, <2>2, <2>3
<1> QED BY <1>2, <1>3, <1>4 DEF Path, n

-----------------------------------------------------------------------------
\* Before anything is sent.
LEMMA JourneyStart ==
    ASSUME NEW S, NEW I, NEW T, NEW a \in S
    PROVE  Journey(S, I, T, a, <<>>, <<>>, <<>>, a)
BY PathEmpty DEF Journey

\* Nothing under way: the reader is where the writer reckons it is.
LEMMA JourneyEnd ==
    ASSUME NEW S, NEW I, NEW T, NEW a \in S, NEW b, Journey(S, I, T, a, <<>>, <<>>, <<>>, b)
    PROVE  a = b
BY PathEmpty DEF Journey

\* The next item of the packet being read is understood.
LEMMA JourneyRead ==
    ASSUME NEW S, NEW I, NEW T, NEW a, NEW inbox \in Seq(I), NEW wire, NEW out, NEW b,
           inbox # <<>>, Journey(S, I, T, a, inbox, wire, out, b)
    PROVE  \E m \in S : /\ <<a, Head(inbox), m>> \in T
                        /\ Journey(S, I, T, m, Tail(inbox), wire, out, b)
<1>1. PICK m, n \in S : /\ Path(S, T, a, inbox, m)
                        /\ Path(S, Legs(S, I, T), m, wire, n)
                        /\ Path(S, T, n, out, b)
  BY DEF Journey
<1>2. PICK k \in S : <<a, Head(inbox), k>> \in T /\ Path(S, T, k, Tail(inbox), m)
  BY <1>1, PathFirst
<1> QED BY <1>1, <1>2 DEF Journey

\* The reader takes the next packet.
LEMMA JourneyTake ==
    ASSUME NEW S, NEW I, NEW T, NEW a \in S, NEW wire \in Seq(Seq(I)), NEW out, NEW b,
           wire # <<>>, Journey(S, I, T, a, <<>>, wire, out, b)
    PROVE  Journey(S, I, T, a, Head(wire), Tail(wire), out, b)
<1>1. PICK m, n \in S : /\ Path(S, T, a, <<>>, m)
                        /\ Path(S, Legs(S, I, T), m, wire, n)
                        /\ Path(S, T, n, out, b)
  BY DEF Journey
<1>2. a = m
  BY <1>1, PathEmpty
<1>3. PICK k \in S : /\ <<m, Head(wire), k>> \in Legs(S, I, T)
                     /\ Path(S, Legs(S, I, T), k, Tail(wire), n)
  BY <1>1, PathFirst
<1>4. Path(S, T, m, Head(wire), k)
  BY <1>3 DEF Legs
<1> QED BY <1>1, <1>2, <1>3, <1>4 DEF Journey

\* The writer adds an item to its packet.
LEMMA JourneyWrite ==
    ASSUME NEW S, NEW I, NEW T, NEW a, NEW inbox, NEW wire, NEW out \in Seq(I), NEW b,
           Journey(S, I, T, a, inbox, wire, out, b),
           NEW x \in I, NEW c \in S, <<b, x, c>> \in T
    PROVE  Journey(S, I, T, a, inbox, wire, Append(out, x), c)
<1>1. PICK m, n \in S : /\ Path(S, T, a, inbox, m)
                        /\ Path(S, Legs(S, I, T), m, wire, n)
                        /\ Path(S, T, n, out, b)
  BY DEF Journey
<1>2. Path(S, T, n, Append(out, x), c)
  BY <1>1, PathAppend
<1> QED BY <1>1, <1>2 DEF Journey

\* The writer sends its packet.
LEMMA JourneySend ==
    ASSUME NEW S, NEW I, NEW T, NEW a, NEW inbox, NEW wire \in Seq(Seq(I)),
           NEW out \in Seq(I), NEW b, Journey(S, I, T, a, inbox, wire, out, b)
    PROVE  Journey(S, I, T, a, inbox, Append(wire, out), <<>>, b)
<1>1. PICK m, n \in S : /\ Path(S, T, a, inbox, m)
                        /\ Path(S, Legs(S, I, T), m, wire, n)
                        /\ Path(S, T, n, out, b)
  BY DEF Journey
<1>2. b \in S
  BY <1>1, PathEnds
<1>3. <<n, out, b>> \in Legs(S, I, T)
  BY <1>1, <1>2 DEF Legs
<1>4. Path(S, Legs(S, I, T), m, Append(wire, out), b)
  BY <1>1, <1>2, <1>3, PathAppend
<1>5. Path(S, T, b, <<>>, b)
  BY <1>2, PathEmpty
<1> QED BY <1>1, <1>2, <1>4, <1>5 DEF Journey

LEMMA JourneyEnds ==
    ASSUME NEW S, NEW I, NEW T, NEW a, NEW inbox \in Seq(I), NEW wire, NEW out \in Seq(I),
           NEW b, Journey(S, I, T, a, inbox, wire, out, b)
    PROVE  a \in S /\ b \in S
BY PathEnds DEF Journey
=============================================================================
