------------------------ MODULE StringCacheLinkProofs ------------------------
(***************************************************************************)
(* One direction of a connection, for every set of strings, every cache    *)
(* size and any number of strings in flight: the receiver reads what the   *)
(* sender wrote, and the link implements the safety part of StringChannel. *)
(*                                                                         *)
(* The properties are about the two ends of the wire and do not say what   *)
(* happens in between, so they are not inductive.  The strengthening       *)
(* describes the whole wire: the k-th message in flight is what write()    *)
(* makes of the k-th string at the cache the sender had then, and that     *)
(* cache is the receiver's cache once it has read the k-1 messages before. *)
(***************************************************************************)
EXTENDS StringCacheLink, NetStringCacheProofs

\* The cache the receiver will have when it reads the k-th message in flight.
Before(k) == IF k = 1 THEN receiver ELSE after[k - 1]

Sound(c) == WellLinked(c) /\ KnownHeld(c) /\ HeldKnown(c)

LinkInv ==
    /\ LinkTypeOK
    /\ Len(meant) = Len(wire) /\ Len(after) = Len(wire)
    /\ Sound(receiver)
    /\ \A k \in 1 .. Len(wire) : Sound(after[k])
    /\ \A k \in 1 .. Len(wire) :
          /\ wire[k] = Written(Before(k), meant[k])
          /\ after[k] = AfterWrite(Before(k), meant[k])
    /\ sender = Before(Len(wire) + 1)

\* write() keeps a cache sound.
LEMMA WriteKeepsSound ==
    ASSUME NEW c \in Caches, NEW s \in Strings, Sound(c)
    PROVE  Sound(AfterWrite(c, s))
<1>1. GetOldestEntry(c) \in Ids
  BY OldestIsAnEntry DEF Sound
<1> QED BY <1>1, ReuseKeepsList, ReuseKeepsKnownHeld, ReuseKeepsHeldKnown
        DEF AfterWrite, Sound

LEMMA LinkStart == LinkInit => LinkInv
BY NewCacheIsSound, CacheAssumption DEF LinkInit, LinkInv, LinkTypeOK, Before, Sound

\* The sender's cache is sound: it is the receiver's, or the last one in `after'.
LEMMA SenderSound == LinkInv => Sound(sender)
BY DEF LinkInv, LinkTypeOK, Before

LEMMA SendStep ==
    ASSUME LinkInv, NEW s \in Strings, Send(s)
    PROVE  LinkInv'
<1> USE DEF LinkInv, LinkTypeOK
<1> DEFINE n == Len(wire)
<1>1. Sound(sender)
  BY SenderSound
<1>2. Written(sender, s) \in CachedStrings /\ AfterWrite(sender, s) \in Caches
  BY <1>1, WriteType DEF Sound
<1>3. Sound(AfterWrite(sender, s))
  BY <1>1, WriteKeepsSound
<1>4. LinkTypeOK'
  BY <1>2 DEF Send
<1>5. /\ n \in Nat /\ Len(wire') = n + 1 /\ Len(meant') = n + 1 /\ Len(after') = n + 1
      /\ wire'[n + 1] = Written(sender, s) /\ meant'[n + 1] = s
      /\ after'[n + 1] = AfterWrite(sender, s)
      /\ \A k \in 1 .. n : /\ wire'[k] = wire[k] /\ meant'[k] = meant[k]
                           /\ after'[k] = after[k]
      /\ receiver' = receiver /\ sender' = AfterWrite(sender, s)
  BY DEF Send
<1>6. \A k \in 1 .. n + 1 : Before(k)' = Before(k)
  BY <1>5 DEF Before
<1>8. ASSUME NEW k \in 1 .. n + 1
      PROVE  /\ Sound(after'[k])
             /\ wire'[k] = Written(Before(k)', meant'[k])
             /\ after'[k] = AfterWrite(Before(k)', meant'[k])
  <2>1. CASE k = n + 1
    BY <1>3, <1>5, <1>6, <2>1
  <2>2. CASE k \in 1 .. n
    BY <1>5, <1>6, <2>2
  <2> QED BY <1>5, <2>1, <2>2
<1>9. sender' = Before(Len(wire) + 1)'
  BY <1>5 DEF Before
<1> QED BY <1>4, <1>5, <1>8, <1>9 DEF Sound, Before

LEMMA ReceiveStep ==
    ASSUME LinkInv, Receive
    PROVE  /\ LinkInv'
           /\ got' = Head(meant)
<1> USE DEF LinkInv, LinkTypeOK
<1> DEFINE n == Len(wire)
<1>1. n \in Nat /\ n >= 1 /\ Len(meant) = n /\ Len(after) = n /\ meant[1] \in Strings
  BY DEF Receive
<1>2. /\ wire[1] = Written(receiver, meant[1])
      /\ after[1] = AfterWrite(receiver, meant[1])
      /\ Sound(after[1])
  BY <1>1 DEF Before
<1>3. /\ ReadString(receiver, wire[1]) = meant[1]
      /\ AfterRead(receiver, wire[1]) = after[1]
  BY <1>1, <1>2, ReadUndoesWrite DEF Sound
<1>4. /\ got' = meant[1] /\ receiver' = after[1]
      /\ wire' = Tail(wire) /\ meant' = Tail(meant) /\ after' = Tail(after)
      /\ sender' = sender
  BY <1>1, <1>3 DEF Receive
<1>5. LinkTypeOK'
  BY <1>1, <1>4
<1>6. /\ Len(wire') = n - 1 /\ Len(meant') = n - 1 /\ Len(after') = n - 1
      /\ \A k \in 1 .. n - 1 : /\ wire'[k] = wire[k + 1] /\ meant'[k] = meant[k + 1]
                               /\ after'[k] = after[k + 1]
  BY <1>1, <1>4
<1>7. \A k \in 1 .. n : Before(k)' = Before(k + 1)
  BY <1>1, <1>4, <1>6 DEF Before
<1>8. ASSUME NEW k \in 1 .. n - 1
      PROVE  /\ Sound(after'[k])
             /\ wire'[k] = Written(Before(k)', meant'[k])
             /\ after'[k] = AfterWrite(Before(k)', meant'[k])
  <2>1. k + 1 \in 1 .. n /\ k \in 1 .. n
    BY <1>1
  <2> QED BY <1>6, <1>7, <2>1
<1>9. sender' = Before(Len(wire) + 1)'
  <2>1. sender = after[n]
    BY <1>1 DEF Before
  <2>2. n # 1 => n - 1 \in 1 .. n - 1
    BY <1>1
  <2>3. CASE n = 1
    BY <1>4, <1>6, <2>1, <2>3 DEF Before
  <2>4. CASE n # 1
    BY <1>1, <1>4, <1>6, <2>1, <2>2, <2>4 DEF Before
  <2> QED BY <2>3, <2>4
<1>10. Sound(receiver')
  BY <1>2, <1>4
<1>11. got' = Head(meant)
  BY <1>1, <1>4
<1> QED BY <1>5, <1>6, <1>8, <1>9, <1>10, <1>11 DEF Sound, Before

LEMMA LinkStep == LinkInv /\ [LinkNext]_linkVars => LinkInv'
<1> SUFFICES ASSUME LinkInv, [LinkNext]_linkVars PROVE LinkInv'
  OBVIOUS
<1>1. CASE UNCHANGED linkVars
  BY <1>1 DEF LinkInv, LinkTypeOK, Before, Sound, linkVars
<1> QED BY <1>1, SendStep, ReceiveStep DEF LinkNext

LEMMA LinkInvariant == LinkSpec => []LinkInv
<1>1. LinkInit => LinkInv
  BY LinkStart
<1>2. LinkInv /\ [LinkNext]_linkVars => LinkInv'
  BY LinkStep
<1> QED BY <1>1, <1>2, PTL DEF LinkSpec

-----------------------------------------------------------------------------
\* The typing of both caches and of the wire.
THEOREM LinkTypeCorrect == LinkSpec => []LinkTypeOK
<1>1. LinkInv => LinkTypeOK
  BY DEF LinkInv
<1> QED BY <1>1, LinkInvariant, PTL

\* NetStringCache.as:91-179: the message at the head of the wire is read as the
\* string that was written, however much of the cache has been redefined since.
THEOREM ReadsAreRight == LinkSpec => []NextReadIsRight
<1>1. LinkInv => NextReadIsRight
  <2> SUFFICES ASSUME LinkInv, wire # <<>>
               PROVE  ReadString(receiver, Head(wire)) = Head(meant)
    BY DEF NextReadIsRight
  <2>1. /\ wire[1] = Written(receiver, meant[1]) /\ 1 \in 1 .. Len(meant)
        /\ meant[1] \in Strings /\ meant # <<>>
    BY DEF LinkInv, LinkTypeOK, Before
  <2> QED BY <2>1, ReadUndoesWrite DEF LinkInv, LinkTypeOK, Sound
<1> QED BY <1>1, LinkInvariant, PTL

\* Both ends agree on the whole table as soon as nothing is in flight.
THEOREM CoherentWhenDrained == LinkSpec => []CachesCoherent
<1>1. LinkInv => CachesCoherent
  BY DEF LinkInv, CachesCoherent, Before
<1> QED BY <1>1, LinkInvariant, PTL

\* Neither end's string map ever disagrees with its entries.
THEOREM MapsAlwaysAgree == LinkSpec => []MapsAgree
<1>1. LinkInv => MapsAgree
  BY SenderSound DEF LinkInv, MapsAgree, Sound
<1> QED BY <1>1, LinkInvariant, PTL

\* Every step of the link is a Put, a Take or a stutter of StringChannel: the
\* safety part of ImplementsChannel (its fairness stays with the model checker).
THEOREM LinkImplementsChannel == LinkSpec => Channel!Init /\ [][Channel!Next]_<<meant, got>>
<1>1. LinkInit => Channel!Init
  BY DEF LinkInit, Channel!Init
<1>2. LinkInv /\ [LinkNext]_linkVars => [Channel!Next]_<<meant, got>>
  <2> SUFFICES ASSUME LinkInv, [LinkNext]_linkVars
               PROVE  Channel!Next \/ UNCHANGED <<meant, got>>
    OBVIOUS
  <2>1. ASSUME NEW s \in Strings, Send(s) PROVE Channel!Put
    BY <2>1 DEF Send, Channel!Put
  <2>2. ASSUME Receive PROVE Channel!Take
    <3>1. got' = Head(meant) /\ meant' = Tail(meant)
      BY <2>2, ReceiveStep DEF Receive
    <3>2. meant # <<>>
      BY <2>2 DEF Receive, LinkInv, LinkTypeOK
    <3> QED BY <3>1, <3>2 DEF Channel!Take
  <2> QED BY <2>1, <2>2 DEF LinkNext, linkVars, Channel!Next
<1> QED BY <1>1, <1>2, LinkInvariant, PTL DEF LinkSpec
==============================================================================
