----------------------- MODULE SharedStringCacheProofs -----------------------
(***************************************************************************)
(* For every set of strings and every cache size, and whatever the other   *)
(* end sends: the linked list is the insertion order and the string map    *)
(* never lies.  The inductive invariant is the conjunction of the typing,  *)
(* the two properties, "inserted is a permutation of the ids" (without     *)
(* which moving an id to the front could drop another one) and the local   *)
(* well-formedness of the list (which gives getOldestEntry a real entry).  *)
(***************************************************************************)
EXTENDS SharedStringCache, NetStringCacheProofs

Permutation(order) ==
    /\ \A i \in Ids : \E n \in 1 .. EntryCount : order[n] = i
    /\ \A m, n \in 1 .. EntryCount : order[m] = order[n] => m = n

SharedInv == /\ TypeOK
             /\ WellLinked(cache)
             /\ Permutation(inserted)
             /\ ListIsInsertionOrder
             /\ KnownStringsAreHeld

\* Moving an id to the front of an order gives an order.
LEMMA MoveType ==
    ASSUME NEW order \in Orders, NEW id \in Ids
    PROVE  MoveToFront(order, id) \in Orders
<1> DEFINE p == CHOOSE n \in 1 .. EntryCount : order[n] = id
<1> HIDE DEF p
<1>1. \A n \in 1 .. EntryCount : n # 1 => n - 1 \in 1 .. EntryCount
  BY CacheAssumption
<1> QED BY <1>1 DEF MoveToFront, Orders, p

\* Where the elements of a permutation go when one of them moves to the front.
LEMMA MoveFacts ==
    ASSUME NEW order \in Orders, NEW id \in Ids, Permutation(order)
    PROVE  \E p \in 1 .. EntryCount :
              /\ order[p] = id
              /\ \A n \in 1 .. EntryCount :
                    MoveToFront(order, id)[n] = IF n = 1 THEN id
                                                ELSE IF n <= p THEN order[n - 1]
                                                ELSE order[n]
<1> DEFINE p == CHOOSE n \in 1 .. EntryCount : order[n] = id
<1>1. p \in 1 .. EntryCount /\ order[p] = id
  BY DEF Permutation
<1> QED BY <1>1 DEF MoveToFront

\* A permutation stays one.
LEMMA MoveKeepsPermutation ==
    ASSUME NEW order \in Orders, NEW id \in Ids, Permutation(order)
    PROVE  Permutation(MoveToFront(order, id))
<1> DEFINE moved == MoveToFront(order, id)
<1>1. PICK p \in 1 .. EntryCount :
         /\ order[p] = id
         /\ \A n \in 1 .. EntryCount :
               moved[n] = IF n = 1 THEN id
                          ELSE IF n <= p THEN order[n - 1] ELSE order[n]
  BY MoveFacts
<1>2. /\ \A i \in Ids : \E n \in 1 .. EntryCount : order[n] = i
      /\ \A m, n \in 1 .. EntryCount : order[m] = order[n] => m = n
  BY DEF Permutation
<1> HIDE DEF moved
<1>3. ASSUME NEW i \in Ids
      PROVE  \E n \in 1 .. EntryCount : moved[n] = i
  <2>1. PICK n \in 1 .. EntryCount : order[n] = i
    BY <1>2
  <2>2. CASE n = p
    BY <1>1, <2>1, <2>2, CacheAssumption
  <2>3. CASE n < p
    <3>1. n + 1 \in 1 .. EntryCount /\ moved[n + 1] = i
      BY <1>1, <2>1, <2>3, CacheAssumption
    <3> QED BY <3>1
  <2>4. CASE n > p
    <3>1. moved[n] = i
      BY <1>1, <2>1, <2>4, CacheAssumption
    <3> QED BY <3>1
  <2> QED BY <2>2, <2>3, <2>4, CacheAssumption
<1>4. ASSUME NEW m \in 1 .. EntryCount, NEW n \in 1 .. EntryCount,
             moved[m] = moved[n]
      PROVE  m = n
  BY <1>1, <1>2, <1>4, CacheAssumption
<1> QED BY <1>3, <1>4 DEF Permutation, moved

\* bringToFront does to the linked list what MoveToFront does to the order.
LEMMA ReuseMovesToFront ==
    ASSUME NEW c \in Caches, NEW order \in Orders, NEW id \in Ids,
           NEW s \in Strings, Permutation(order), LinkedAs(c, order)
    PROVE  LinkedAs(ReuseEntry(c, id, s), MoveToFront(order, id))
<1> DEFINE moved == MoveToFront(order, id)
           next  == c.next
           prev  == c.prev
           next1 == UnlinkedNext(c, id)
           prev1 == UnlinkedPrev(c, id)
           next2 == LinkedNext(c, id)
           prev2 == LinkedPrev(c, id)
           N     == EntryCount
<1>1. PICK p \in 1 .. N :
         /\ order[p] = id
         /\ \A n \in 1 .. N :
               moved[n] = IF n = 1 THEN id
                          ELSE IF n <= p THEN order[n - 1] ELSE order[n]
  BY MoveFacts
<1>2. /\ next \in [Ids \cup {LruHead} -> Ids \cup {LruTail}]
      /\ prev \in [Ids \cup {LruTail} -> Ids \cup {LruHead}]
      /\ order \in [1 .. N -> Ids]
      /\ \A m, n \in 1 .. N : order[m] = order[n] => m = n
  BY DEF Caches, Orders, Permutation
<1>3. /\ next[LruHead] = order[1] /\ prev[order[1]] = LruHead
      /\ \A n \in 1 .. N - 1 : /\ next[order[n]] = order[n + 1]
                               /\ prev[order[n + 1]] = order[n]
      /\ next[order[N]] = LruTail /\ prev[LruTail] = order[N]
  BY DEF LinkedAs
<1>4. /\ next1 = [next EXCEPT ![prev[id]] = next[id]]
      /\ prev1 = [prev EXCEPT ![next[id]] = prev[id]]
      /\ next2 = [[next1 EXCEPT ![id] = next1[LruHead]] EXCEPT ![LruHead] = id]
      /\ prev2 = [[prev1 EXCEPT ![next1[LruHead]] = id] EXCEPT ![id] = LruHead]
  BY DEF LinkedNext, LinkedPrev, UnlinkedNext, UnlinkedPrev
<1>5. N \in Nat \ {0} /\ 1 \in 1 .. N /\ N \in 1 .. N
  BY CacheAssumption
<1> HIDE DEF moved, next, prev, next1, prev1, next2, prev2, N
<1>6. CASE p = 1
  <2>1. prev[id] = LruHead
    BY <1>1, <1>3, <1>6
  <2>2. next1[LruHead] = next[id]
    BY <1>2, <1>4, <2>1
  <2>3. next2 = next
    BY <1>1, <1>2, <1>3, <1>4, <1>6, <2>1, <2>2, IdsFacts
  <2>4. prev2 = prev
    BY <1>1, <1>2, <1>3, <1>4, <1>6, <2>1, <2>2, IdsFacts
  <2>5. \A n \in 1 .. N : moved[n] = order[n]
    BY <1>1, <1>6, <1>5
  <2>6. \A n \in 1 .. N - 1 : n \in 1 .. N /\ n + 1 \in 1 .. N
    BY <1>5
  <2> QED BY <1>3, <1>5, <2>3, <2>4, <2>5, <2>6
          DEF LinkedAs, ReuseEntry, next2, prev2, moved, N
<1>7. CASE p # 1
  <2>1. /\ p - 1 \in 1 .. N - 1 /\ p - 1 \in 1 .. N
        /\ prev[id] = order[p - 1] /\ next[order[p - 1]] = id
        /\ order[p - 1] # id /\ order[1] # id
    BY <1>1, <1>2, <1>3, <1>5, <1>7
  <2>2. next1[LruHead] = order[1]
    BY <1>2, <1>3, <1>4, <2>1, IdsFacts
  <2>3. /\ next2[LruHead] = id
        /\ next2[id] = order[1]
        /\ next2[order[p - 1]] = next[id]
        /\ \A i \in Ids : i # id /\ i # order[p - 1] => next2[i] = next[i]
    BY <1>2, <1>4, <2>1, <2>2, IdsFacts
  <2>4. /\ prev2[id] = LruHead
        /\ prev2[order[1]] = id
    BY <1>2, <1>4, <1>5, <2>1, <2>2, IdsFacts
  <2>5. next[id] = IF p = N THEN LruTail ELSE order[p + 1]
    BY <1>1, <1>3, <1>5
  <2>6. next[id] # id /\ next[id] # order[1]
    BY <1>1, <1>2, <1>3, <1>5, <1>7, <2>5, IdsFacts
  <2>7. prev2[next[id]] = order[p - 1]
    BY <1>2, <1>4, <2>1, <2>2, <2>6, IdsFacts
  <2>8. \A i \in Ids \cup {LruTail} :
            i # id /\ i # order[1] /\ i # next[id] => prev2[i] = prev[i]
    BY <1>2, <1>4, <2>2, IdsFacts
  <2>9. moved[1] = id
    BY <1>1, <1>5
  <2>10. ASSUME NEW n \in 1 .. N - 1
         PROVE  /\ next2[moved[n]] = moved[n + 1]
                /\ prev2[moved[n + 1]] = moved[n]
    <3>1. n \in 1 .. N /\ n + 1 \in 1 .. N
      BY <1>5
    <3>2. CASE n = 1
      <4>1. moved[2] = order[1]
        BY <1>1, <1>5, <1>7, <3>1, <3>2
      <4> QED BY <2>3, <2>4, <2>9, <3>2, <4>1
    <3>3. CASE n # 1 /\ n < p
      <4>1. n - 1 \in 1 .. N - 1 /\ n - 1 \in 1 .. N
        BY <1>5, <3>3
      <4>2. moved[n] = order[n - 1] /\ moved[n + 1] = order[n]
        BY <1>1, <1>5, <3>1, <3>3
      <4>3. next[order[n - 1]] = order[n] /\ prev[order[n]] = order[n - 1]
        BY <1>3, <4>1, <3>1
      <4>4. order[n - 1] # id /\ order[n - 1] # order[p - 1]
        BY <1>1, <1>2, <2>1, <3>1, <3>3, <4>1
      <4>5. order[n] # id /\ order[n] # order[1] /\ order[n] # next[id]
        <5>1. order[n] # id /\ order[n] # order[1]
          BY <1>1, <1>2, <1>5, <3>1, <3>3
        <5>2. CASE p = N
          BY <1>2, <2>5, <3>1, <5>1, <5>2, IdsFacts
        <5>3. CASE p # N
          <6>1. p + 1 \in 1 .. N /\ n # p + 1
            BY <1>5, <3>3, <5>3
          <6> QED BY <1>2, <2>5, <3>1, <5>1, <5>3, <6>1
        <5> QED BY <5>1, <5>2, <5>3
      <4>6. order[n - 1] \in Ids /\ order[n] \in Ids
        BY <1>2, <3>1, <4>1
      <4> QED BY <2>3, <2>8, <4>2, <4>3, <4>4, <4>5, <4>6
    <3>4. CASE n = p
      <4>1. moved[n] = order[p - 1] /\ moved[n + 1] = order[p + 1]
        BY <1>1, <1>5, <1>7, <3>1, <3>4
      <4>2. next[id] = order[p + 1]
        BY <2>5, <3>4, <1>5
      <4> QED BY <2>3, <2>7, <4>1, <4>2
    <3>5. CASE n > p
      <4>1. moved[n] = order[n] /\ moved[n + 1] = order[n + 1]
        BY <1>1, <1>5, <3>1, <3>5
      <4>2. next[order[n]] = order[n + 1] /\ prev[order[n + 1]] = order[n]
        BY <1>3
      <4>3. order[n] # id /\ order[n] # order[p - 1]
        BY <1>1, <1>2, <1>5, <2>1, <3>1, <3>5
      <4>4. /\ order[n + 1] # id /\ order[n + 1] # order[1]
            /\ order[n + 1] # order[p + 1] /\ p # N
        <5>1. p + 1 \in 1 .. N /\ p # N
          BY <1>5, <3>5
        <5> QED BY <1>1, <1>2, <1>5, <3>1, <3>5, <5>1
      <4>5. order[n] \in Ids /\ order[n + 1] \in Ids
        BY <1>2, <3>1
      <4>6. next[id] = order[p + 1]
        BY <2>5, <4>4
      <4>7. next2[order[n]] = next[order[n]]
        BY <2>3, <4>3, <4>5
      <4>8. prev2[order[n + 1]] = prev[order[n + 1]]
        BY <2>8, <4>4, <4>5, <4>6
      <4> QED BY <4>1, <4>2, <4>7, <4>8
    <3> QED BY <1>5, <3>2, <3>3, <3>4, <3>5
  <2>11. next2[moved[N]] = LruTail /\ prev2[LruTail] = moved[N]
    <3>1. CASE p = N
      <4>1. moved[N] = order[N - 1]
        BY <1>1, <1>5, <1>7, <3>1
      <4> QED BY <2>3, <2>5, <2>7, <3>1, <4>1
    <3>2. CASE p # N
      <4>1. moved[N] = order[N]
        BY <1>1, <1>5, <3>2
      <4>2. order[N] # id /\ order[N] # order[p - 1]
        BY <1>1, <1>2, <1>5, <2>1, <3>2
      <4>3. LruTail # id /\ LruTail # order[1] /\ LruTail # next[id]
        BY <1>1, <1>2, <1>5, <2>5, <3>2, IdsFacts
      <4> QED BY <1>2, <1>3, <1>5, <2>3, <2>8, <4>1, <4>2, <4>3
    <3> QED BY <3>1, <3>2
  <2> QED BY <2>3, <2>4, <2>9, <2>10, <2>11
          DEF LinkedAs, ReuseEntry, next2, prev2, moved, N
<1> QED BY <1>6, <1>7

-----------------------------------------------------------------------------
\* The invariant holds of the new cache.
LEMMA SharedInit == Init => SharedInv
<1> SUFFICES ASSUME Init PROVE SharedInv
  OBVIOUS
<1>1. inserted = [n \in 1 .. EntryCount |-> n - 1]
      /\ cache = NewCache
  BY DEF Init
<1>2. inserted \in Orders /\ Permutation(inserted)
  BY <1>1, CacheAssumption DEF Orders, Permutation, Ids
<1>3. LinkedAs(NewCache, inserted)
  BY <1>1, CacheAssumption DEF LinkedAs, NewCache, Ids, LruHead, LruTail
<1> QED BY <1>1, <1>2, <1>3, NewCacheIsSound
        DEF SharedInv, TypeOK, ListIsInsertionOrder, KnownStringsAreHeld

\* Redefining an entry, by a write or by a read, preserves the invariant.
LEMMA SharedReuse ==
    ASSUME SharedInv, NEW e \in Ids, NEW s \in Strings,
           cache' = ReuseEntry(cache, e, s),
           inserted' = MoveToFront(inserted, e)
    PROVE  SharedInv'
<1> USE DEF SharedInv, TypeOK
<1>1. cache' \in Caches
  BY ReuseType
<1>2. inserted' \in Orders
  BY MoveType
<1>3. WellLinked(cache')
  BY ReuseKeepsList
<1>4. Permutation(inserted')
  BY MoveKeepsPermutation
<1>5. LinkedAs(cache', inserted')
  BY ReuseMovesToFront DEF ListIsInsertionOrder
<1>6. KnownHeld(cache')
  BY ReuseKeepsKnownHeld DEF KnownStringsAreHeld
<1> QED BY <1>1, <1>2, <1>3, <1>4, <1>5, <1>6
        DEF ListIsInsertionOrder, KnownStringsAreHeld

\* Using an entry without redefining it changes nothing.
LEMMA SharedHit ==
    ASSUME SharedInv, NEW e \in Ids,
           cache' = cache, inserted' = inserted
    PROVE  SharedInv'
BY DEF SharedInv, TypeOK, ListIsInsertionOrder, KnownStringsAreHeld

\* Every step preserves the invariant.
LEMMA SharedStep == SharedInv /\ [Next]_vars => SharedInv'
<1> SUFFICES ASSUME SharedInv, [Next]_vars PROVE SharedInv'
  OBVIOUS
<1>1. ASSUME NEW s \in Strings, Write(s)
      PROVE  SharedInv'
  <2>1. GetOldestEntry(cache) \in Ids
    BY OldestIsAnEntry DEF SharedInv, TypeOK
  <2>2. CASE Knows(cache, s)
    <3>1. LookupByString(cache, s) \in Ids
      BY <2>2 DEF SharedInv, TypeOK, Caches, Knows, LookupByString
    <3> QED BY <1>1, <2>2, <3>1, SharedHit DEF Write, Touch, Written, AfterWrite
  <2>3. CASE ~Knows(cache, s)
    BY <1>1, <2>1, <2>3, SharedReuse DEF Write, Touch, Written, AfterWrite
  <2> QED BY <2>2, <2>3
<1>2. ASSUME NEW w \in CachedStrings, Read(w)
      PROVE  SharedInv'
  <2>1. w.id \in Ids /\ (w.fresh => w.str \in Strings)
    BY DEF CachedStrings
  <2>2. CASE w.fresh
    BY <1>2, <2>1, <2>2, SharedReuse DEF Read, Touch, AfterRead
  <2>3. CASE ~w.fresh
    BY <1>2, <2>1, <2>3, SharedHit DEF Read, Touch, AfterRead
  <2> QED BY <2>2, <2>3
<1>3. CASE UNCHANGED vars
  BY <1>3 DEF SharedInv, TypeOK, ListIsInsertionOrder, KnownStringsAreHeld, vars
<1> QED BY <1>1, <1>2, <1>3 DEF Next

\* Everything below follows from the inductive invariant.
LEMMA SharedInvariant == Spec => []SharedInv
<1>1. Init => SharedInv
  BY SharedInit
<1>2. SharedInv /\ [Next]_vars => SharedInv'
  BY SharedStep
<1> QED BY <1>1, <1>2, PTL DEF Spec

\* The cache never leaves its type: in particular every link and every id a
\* write puts in the stream is one of the entryCount entries.
THEOREM SharedTypeCorrect == Spec => []TypeOK
<1>1. SharedInv => TypeOK
  BY DEF SharedInv
<1> QED BY <1>1, SharedInvariant, PTL

\* NetStringCache.as:185-204: whatever is written locally and whatever the
\* other end defines, the linked list is exactly the order of insertion, so
\* the entry that write() redefines is the one defined longest ago.
THEOREM EvictionIsByInsertion == Spec => []ListIsInsertionOrder
<1>1. SharedInv => ListIsInsertionOrder
  BY DEF SharedInv
<1> QED BY <1>1, SharedInvariant, PTL

\* NetStringCache.as:210-227: the string map never names an entry that holds
\* another string, so write() never sends a reference to the wrong string.
THEOREM ReferencesAreSound == Spec => []KnownStringsAreHeld
<1>1. SharedInv => KnownStringsAreHeld
  BY DEF SharedInv
<1> QED BY <1>1, SharedInvariant, PTL
==============================================================================
