------------------------ MODULE GhostConnectionProofs ------------------------
(***************************************************************************)
(* GhostManager, and then events and ghosts in one packet.                 *)
(*                                                                         *)
(* The server's slots, for every set of ghosts, every number of slots and  *)
(* every packet size: a ghost has a GhostInfo iff it sits in a slot, in    *)
(* one slot only, and _attachedGhosts counts the slots in use.  This is    *)
(* why findGhostId never fails, why registerGhostInfo never finds an old   *)
(* GhostInfo and why "No free IDs!" is never thrown.                       *)
(*                                                                         *)
(* Typing and slots depend on each other (the count stays a count of slots *)
(* only because a kill is written for a ghost that sits in one), and both  *)
(* on pendingUpdates holding attached ghosts only, and on the two string   *)
(* caches being well linked, so the four are proved together.              *)
(*                                                                         *)
(* The client takes every record for what it is, and the dirty flags tell  *)
(* the truth.  Both speak of the two ends only, so the invariant describes *)
(* all that is between them: the records under way, taken in order, lead   *)
(* the client's copies and string cache to what the server has recorded as *)
(* sent (Path and Journey of NetStringCacheProofs, with a ghost record as  *)
(* the item).  These steps lead to whole copies, which is why ghosting is  *)
(* a mirror (GhostMirror).                                                 *)
(*                                                                         *)
(* GhostConnection then has the types, the client in step, every event     *)
(* accounted for, and mirror and channel at once.  What was said of the    *)
(* ghosts goes through unchanged, but for the string cache: a packet now   *)
(* leads the reader's cache over the type names of its events first, and   *)
(* over the prototype names of its ghosts then.                            *)
(***************************************************************************)
EXTENDS GhostConnection, NetStringCacheProofs, FiniteSetTheorems, TLAPS

PendingAreAttached == \A g \in pending : info[g] # NoInfo

GhostInv ==
    /\ TypeOK
    /\ SlotsMatchInfos
    /\ PendingAreAttached
    /\ WellLinked(cache) /\ WellLinked(clientCache)

Occupied == {i \in GhostIds : ghostMap[i] # Empty}

\* What the constants say, for the leaves that need it.
LEMMA Constants ==
    /\ IsFiniteSet(GhostIds)
    /\ MaxGhostCount \in Nat \ {0}
    /\ GhostIds = 0 .. MaxGhostCount - 1
    /\ TopPriority \in Nat /\ GhostIdBits \in Nat
    /\ Empty \notin Ghosts
    /\ NoInfo \notin GhostInfos
<1>1. MaxGhostCount \in Nat \ {0} /\ TopPriority \in Nat /\ GhostIdBits \in Nat
      /\ Empty \notin Ghosts
  BY GhostAssumption
<1>2. IsFiniteSet(0 .. MaxGhostCount - 1)
  BY <1>1, FS_Interval
<1> QED BY <1>1, <1>2, NoInfoAssumption DEF GhostIds

\* findGhostId finds the slot of every ghost that has a GhostInfo.
LEMMA SlotFound ==
    ASSUME SlotsMatchInfos, NEW g \in Ghosts, info[g] # NoInfo
    PROVE  SlotOf(g) \in GhostIds /\ ghostMap[SlotOf(g)] = g
<1>1. \E i \in GhostIds : ghostMap[i] = g
  BY DEF SlotsMatchInfos
<1> QED BY <1>1 DEF SlotOf

\* A step that leaves the slots alone and neither adds nor drops a GhostInfo.
LEMMA SlotsKept ==
    ASSUME SlotsMatchInfos, ghostMap' = ghostMap, attachedGhosts' = attachedGhosts,
           \A g \in Ghosts : info'[g] = NoInfo <=> info[g] = NoInfo
    PROVE  SlotsMatchInfos'
BY DEF SlotsMatchInfos

\* A GhostInfo with more dirty flags, another priority, or marked for death is
\* a GhostInfo.
LEMMA InfoUpdates ==
    ASSUME NEW gi \in GhostInfos, NEW fs \in SUBSET Fields, NEW p \in Priorities
    PROVE  /\ [gi EXCEPT !.dirtyFlags = @ \cup fs] \in GhostInfos
           /\ [gi EXCEPT !.priority = p] \in GhostInfos
           /\ MarkedForDeath(gi) \in GhostInfos
<1>1. /\ gi.dirtyFlags \in SUBSET Fields /\ gi.priority \in Priorities
      /\ gi.isGhosted \in BOOLEAN /\ gi.shouldKill \in BOOLEAN
      /\ TopPriority \in Priorities
  BY Constants DEF GhostInfos, Priorities
<1>2. [gi EXCEPT !.dirtyFlags = @ \cup fs] \in GhostInfos
  <2>1. gi.dirtyFlags \cup fs \in SUBSET Fields
    BY <1>1
  <2> QED BY <1>1, <2>1 DEF GhostInfos
<1>3. [gi EXCEPT !.priority = p] \in GhostInfos
  BY <1>1 DEF GhostInfos
<1>4. MarkedForDeath(gi) \in GhostInfos
  BY <1>1 DEF GhostInfos, MarkedForDeath
<1> QED BY <1>2, <1>3, <1>4

LEMMA MarkedDirtyType ==
    ASSUME TypeOK, NEW g \in Ghosts, NEW gs, info[g] # NoInfo
    PROVE  MarkedDirty(g, gs) \in GhostInfos
<1>1. info[g] \in GhostInfos
  BY DEF TypeOK, SlotTypeOK
<1>2. Changed(g) \in SUBSET Fields
  BY DEF Changed
<1>3. 0 \in Priorities
  BY Constants DEF Priorities
<1> QED BY <1>1, <1>2, <1>3, InfoUpdates DEF MarkedDirty

\* checkTrackedProperties keeps the protocol typed.
LEMMA CheckType ==
    ASSUME TypeOK, NEW gs, Check(gs)
    PROVE  protocol' \in [Ghosts -> States]
BY DEF TypeOK, GameTypeOK, Check, Changed, States

LEMMA GhostInit == Init => GhostInv
<1> SUFFICES ASSUME Init PROVE GhostInv
  OBVIOUS
<1>1. NewCache \in Caches /\ WellLinked(NewCache)
  BY NewCacheIsSound
<1>2. TypeOK
  <2>1. GameTypeOK
    BY GhostAssumption DEF Init, GameTypeOK, States, Blank
  <2>2. SlotTypeOK
    BY Constants DEF Init, SlotTypeOK
  <2>3. 0 \in Priorities
    BY Constants DEF Priorities
  <2>4. QueryTypeOK
    BY <2>3 DEF Init, QueryTypeOK
  <2>5. WriteTypeOK /\ ClientTypeOK
    <3>1. out \in Seq(Records) /\ wire \in Seq(Seq(Records)) /\ inbox \in Seq(Records)
      BY DEF Init
    <3>2. pending \in SUBSET Ghosts /\ bits \in Nat
      BY DEF Init
    <3>3. copies \in [GhostIds -> Copies \cup {Empty}]
      BY DEF Init
    <3> QED BY <1>1, <3>1, <3>2, <3>3 DEF Init, WriteTypeOK, ClientTypeOK
  <2> QED BY <2>1, <2>2, <2>4, <2>5 DEF TypeOK
<1>3. {i \in GhostIds : ghostMap[i] # Empty} = {}
  BY DEF Init
<1>4. Cardinality({}) = 0
  BY FS_EmptySet
<1>5. SlotsMatchInfos
  BY <1>3, <1>4, Constants DEF Init, SlotsMatchInfos
<1>6. PendingAreAttached
  BY DEF Init, PendingAreAttached
<1> QED BY <1>1, <1>2, <1>5, <1>6 DEF GhostInv, Init

\* What a step leaves alone stays typed.
LEMMA GameKept ==
    ASSUME GameTypeOK, UNCHANGED <<gameVars, protocol>>
    PROVE  GameTypeOK'
BY DEF GameTypeOK, gameVars

LEMMA SlotKept ==
    ASSUME SlotTypeOK, UNCHANGED slotVars
    PROVE  SlotTypeOK'
BY DEF SlotTypeOK, slotVars

LEMMA QueryKept ==
    ASSUME QueryTypeOK, UNCHANGED queryVars
    PROVE  QueryTypeOK'
BY DEF QueryTypeOK, queryVars

LEMMA WriteKept ==
    ASSUME WriteTypeOK, UNCHANGED <<writeVars, cache, wire, lost, polluted>>
    PROVE  WriteTypeOK'
BY DEF WriteTypeOK, writeVars

LEMMA ClientKept ==
    ASSUME ClientTypeOK, UNCHANGED clientVars
    PROVE  ClientTypeOK'
BY DEF ClientTypeOK, clientVars

\* The game's steps touch neither the server's tables nor the client's.
LEMMA GameStep ==
    ASSUME GhostInv, UNCHANGED <<slotVars, queryVars, writeVars, cache, wire,
                                 clientVars, lost, polluted>>,
           GameTypeOK'
    PROVE  GhostInv'
<1>1. TypeOK'
  BY SlotKept, QueryKept, WriteKept, ClientKept DEF GhostInv, TypeOK
<1>2. SlotsMatchInfos'
  BY SlotsKept DEF GhostInv, slotVars
<1>3. PendingAreAttached'
  BY DEF GhostInv, PendingAreAttached, slotVars, writeVars
<1> QED BY <1>1, <1>2, <1>3 DEF GhostInv, clientVars

LEMMA ChangePropertyStep ==
    ASSUME GhostInv, NEW g \in Ghosts, NEW f \in Fields, NEW v \in Values,
           ChangeProperty(g, f, v)
    PROVE  GhostInv'
<1>1. object \in [Ghosts -> [Fields -> Values]] /\ scope \in Scopes
      /\ protocol \in [Ghosts -> States]
  BY DEF GhostInv, TypeOK, GameTypeOK
<1>2. object' = [object EXCEPT ![g] = [object[g] EXCEPT ![f] = v]]
  BY DEF ChangeProperty
<1>3. [object[g] EXCEPT ![f] = v] \in [Fields -> Values]
  BY <1>1
<1>4. object' \in [Ghosts -> [Fields -> Values]]
  BY <1>1, <1>2, <1>3
<1>5. scope' = scope /\ protocol' = protocol
  BY DEF ChangeProperty
<1>6. GameTypeOK'
  BY <1>1, <1>4, <1>5 DEF GameTypeOK
<1>7. UNCHANGED <<slotVars, queryVars, writeVars, cache, wire, clientVars, lost,
                  polluted>>
  BY DEF ChangeProperty
<1> QED BY <1>6, <1>7, GameStep

LEMMA ChangeScopeStep ==
    ASSUME GhostInv, NEW s \in Scopes, ChangeScope(s)
    PROVE  GhostInv'
<1>1. GameTypeOK'
  BY DEF GhostInv, TypeOK, GameTypeOK, ChangeScope
<1>2. UNCHANGED <<slotVars, queryVars, writeVars, cache, wire, clientVars, lost,
                  polluted>>
  BY DEF ChangeScope
<1> QED BY <1>1, <1>2, GameStep

\* A step that gives each attached ghost another GhostInfo, and leaves the
\* slots alone, keeps everything that is said of the slots.
LEMMA InfoStep ==
    ASSUME GhostInv, UNCHANGED <<ghostMap, attachedGhosts>>,
           info' \in [Ghosts -> GhostInfos \cup {NoInfo}],
           \A g \in Ghosts : info'[g] = NoInfo <=> info[g] = NoInfo,
           pending' \subseteq pending
    PROVE  SlotTypeOK' /\ SlotsMatchInfos' /\ PendingAreAttached'
<1>1. SlotTypeOK'
  BY DEF GhostInv, TypeOK, SlotTypeOK
<1>2. SlotsMatchInfos'
  BY SlotsKept DEF GhostInv
<1>3. pending \subseteq Ghosts
  BY DEF GhostInv, TypeOK, WriteTypeOK
<1>4. PendingAreAttached'
  BY <1>3 DEF GhostInv, PendingAreAttached
<1> QED BY <1>1, <1>2, <1>4

LEMMA CheckTrackedPropertiesStep ==
    ASSUME GhostInv, NEW g \in Ghosts, CheckTrackedProperties(g)
    PROVE  GhostInv'
<1>1. TypeOK
  BY DEF GhostInv
<1>2. GameTypeOK'
  <2>1. protocol' \in [Ghosts -> States]
    BY <1>1, CheckType DEF CheckTrackedProperties
  <2> QED BY <1>1, <2>1 DEF CheckTrackedProperties, TypeOK, GameTypeOK, gameVars
<1>3. \A h \in Ghosts : info[h] # NoInfo => MarkedDirty(h, {g}) \in GhostInfos
  BY <1>1, MarkedDirtyType
<1>4. info' = [h \in Ghosts |-> IF info[h] = NoInfo THEN NoInfo
                                ELSE MarkedDirty(h, {g})]
  BY DEF CheckTrackedProperties
<1>5. info' \in [Ghosts -> GhostInfos \cup {NoInfo}]
  BY <1>3, <1>4
<1>6. \A h \in Ghosts : info'[h] = NoInfo <=> info[h] = NoInfo
  BY <1>3, <1>4, Constants
<1>7. /\ UNCHANGED <<ghostMap, attachedGhosts>> /\ UNCHANGED queryVars
      /\ UNCHANGED <<writeVars, cache, wire, lost, polluted>> /\ UNCHANGED clientVars
  BY DEF CheckTrackedProperties
<1>8. pending' \subseteq pending
  BY <1>7 DEF writeVars
<1>9. SlotTypeOK' /\ SlotsMatchInfos' /\ PendingAreAttached'
  BY <1>5, <1>6, <1>7, <1>8, InfoStep
<1>10. TypeOK'
  BY <1>1, <1>2, <1>7, <1>9, QueryKept, WriteKept, ClientKept DEF TypeOK
<1>11. cache' = cache /\ clientCache' = clientCache
  BY <1>7 DEF clientVars
<1> QED BY <1>9, <1>10, <1>11 DEF GhostInv

LEMMA BeginPacketStep ==
    ASSUME GhostInv, NEW room \in Nat, BeginPacket(room)
    PROVE  GhostInv'
<1>1. TypeOK
  BY DEF GhostInv
<1>2. GameTypeOK'
  <2>1. protocol' \in [Ghosts -> States]
    BY <1>1, CheckType DEF BeginPacket
  <2> QED BY <1>1, <2>1 DEF BeginPacket, TypeOK, GameTypeOK, gameVars
<1>3. PICK sel \in Selections :
          /\ info' = [g \in Ghosts |->
                IF info[g] = NoInfo THEN NoInfo
                ELSE IF g \notin sel /\ info[g].isGhosted
                THEN MarkedForDeath(MarkedDirty(g, Scoped))
                ELSE MarkedDirty(g, Scoped)]
          /\ inScope' = sel
          /\ scopeQueue' = sel
  BY DEF BeginPacket
<1>4. \A g \in Ghosts : info[g] # NoInfo =>
          /\ MarkedDirty(g, Scoped) \in GhostInfos
          /\ MarkedForDeath(MarkedDirty(g, Scoped)) \in GhostInfos
  <2>1. \A g \in Ghosts : info[g] # NoInfo => MarkedDirty(g, Scoped) \in GhostInfos
    BY <1>1, MarkedDirtyType
  <2>2. {} \in SUBSET Fields /\ 0 \in Priorities
    BY Constants DEF Priorities
  <2>3. \A gi \in GhostInfos : MarkedForDeath(gi) \in GhostInfos
    BY <2>2, InfoUpdates
  <2> QED BY <2>1, <2>3
<1>5. info' \in [Ghosts -> GhostInfos \cup {NoInfo}]
  BY <1>3, <1>4
<1>6. \A g \in Ghosts : info'[g] = NoInfo <=> info[g] = NoInfo
  BY <1>3, <1>4, Constants
<1>7. /\ UNCHANGED <<ghostMap, attachedGhosts>> /\ UNCHANGED clientVars
      /\ UNCHANGED <<pending, out, cache, wire, lost, polluted>>
  BY DEF BeginPacket
<1>8. pending' \subseteq pending
  BY <1>7
<1>9. SlotTypeOK' /\ SlotsMatchInfos' /\ PendingAreAttached'
  BY <1>5, <1>6, <1>7, <1>8, InfoStep
<1>10. QueryTypeOK'
  <2>1. sel \subseteq Ghosts
    BY DEF Selections, Scoped
  <2>2. inScope' \in SUBSET Ghosts /\ scopeQueue' \in SUBSET Ghosts
    BY <1>3, <2>1
  <2>3. scope \in [Ghosts -> 0 .. TopPriority - 1]
    BY <1>1, GhostAssumption DEF TypeOK, GameTypeOK
  <2>4. \A g \in Ghosts : scope[g] \in Priorities
    BY <2>3, Constants DEF Priorities
  <2>5. scopePriority \in [Ghosts -> Priorities]
    BY <1>1 DEF TypeOK, QueryTypeOK
  <2>6. scopePriority' \in [Ghosts -> Priorities]
    BY <2>4, <2>5 DEF BeginPacket
  <2> QED BY <2>2, <2>6 DEF QueryTypeOK
<1>11. WriteTypeOK'
  <2>1. mode' = "scoping" /\ bits' = room
    BY DEF BeginPacket
  <2>2. WriteTypeOK
    BY <1>1 DEF TypeOK
  <2> QED BY <1>7, <2>1, <2>2 DEF WriteTypeOK
<1>12. TypeOK'
  BY <1>1, <1>2, <1>7, <1>9, <1>10, <1>11, ClientKept DEF TypeOK
<1>13. cache' = cache /\ clientCache' = clientCache
  BY <1>7 DEF clientVars
<1> QED BY <1>9, <1>12, <1>13 DEF GhostInv

\* attachGhost: the ghost had no GhostInfo, so it sat in no slot; it gets a
\* free one, and the count goes up by that slot.
LEMMA AttachGhostStep ==
    ASSUME GhostInv, NEW g \in Ghosts, AttachGhost(g)
    PROVE  GhostInv'
<1>1. TypeOK /\ SlotsMatchInfos /\ PendingAreAttached
  BY DEF GhostInv
<1>2. /\ ghostMap \in [GhostIds -> Ghosts \cup {Empty}]
      /\ info \in [Ghosts -> GhostInfos \cup {NoInfo}]
      /\ scopePriority \in [Ghosts -> Priorities]
      /\ pending \in SUBSET Ghosts /\ scopeQueue \in SUBSET Ghosts
  BY <1>1 DEF TypeOK, SlotTypeOK, QueryTypeOK, WriteTypeOK
<1>3. PICK i \in GhostIds : /\ ghostMap[i] = Empty
                            /\ ghostMap' = [ghostMap EXCEPT ![i] = g]
  BY DEF AttachGhost, FreeSlots
<1>4. /\ info[g] = NoInfo
      /\ info' = [info EXCEPT ![g] = [dirtyFlags |-> Fields,
                                      priority   |-> scopePriority[g],
                                      isGhosted  |-> FALSE,
                                      shouldKill |-> FALSE]]
      /\ attachedGhosts' = attachedGhosts + 1
      /\ scopeQueue' = scopeQueue \ {g}
  BY DEF AttachGhost
<1>5. [dirtyFlags |-> Fields, priority |-> scopePriority[g],
       isGhosted |-> FALSE, shouldKill |-> FALSE] \in GhostInfos
  BY <1>2 DEF GhostInfos
<1>6. info' \in [Ghosts -> GhostInfos \cup {NoInfo}] /\ info'[g] # NoInfo
      /\ \A h \in Ghosts \ {g} : info'[h] = info[h]
  BY <1>2, <1>4, <1>5, Constants
<1>7. ghostMap' \in [GhostIds -> Ghosts \cup {Empty}] /\ ghostMap'[i] = g
      /\ \A j \in GhostIds \ {i} : ghostMap'[j] = ghostMap[j]
  BY <1>2, <1>3
<1>8. g # Empty
  BY Constants
<1>9. Occupied' = Occupied \cup {i} /\ i \notin Occupied
  BY <1>3, <1>7, <1>8 DEF Occupied
<1>10. IsFiniteSet(Occupied)
  BY Constants, FS_Subset DEF Occupied
<1>11. Cardinality(Occupied') = Cardinality(Occupied) + 1
  BY <1>9, <1>10, FS_AddElement
<1>12. attachedGhosts = Cardinality(Occupied)
  BY <1>1 DEF SlotsMatchInfos, Occupied
<1>13. attachedGhosts' = Cardinality(Occupied')
  BY <1>4, <1>11, <1>12
<1>14. \A j \in GhostIds : ghostMap[j] # g
  BY <1>1, <1>4 DEF SlotsMatchInfos
<1>15. SlotsMatchInfos'
  <2>1. \A j, k \in GhostIds : ghostMap'[j] # Empty /\ ghostMap'[j] = ghostMap'[k]
                                  => j = k
    BY <1>1, <1>7, <1>14 DEF SlotsMatchInfos
  <2>2. \A h \in Ghosts : info'[h] # NoInfo <=> \E j \in GhostIds : ghostMap'[j] = h
    <3>1. info'[g] # NoInfo /\ \E j \in GhostIds : ghostMap'[j] = g
      BY <1>6, <1>7
    <3>2. ASSUME NEW h \in Ghosts \ {g}
          PROVE  (\E j \in GhostIds : ghostMap'[j] = h)
                    <=> \E j \in GhostIds : ghostMap[j] = h
      BY <1>3, <1>7, <1>8, Constants
    <3> QED BY <1>1, <1>6, <3>1, <3>2 DEF SlotsMatchInfos
  <2> QED BY <1>13, <2>1, <2>2 DEF SlotsMatchInfos, Occupied
<1>16. PendingAreAttached'
  BY <1>1, <1>2, <1>6 DEF PendingAreAttached, AttachGhost, writeVars
<1>17. SlotTypeOK'
  <2>1. attachedGhosts \in 0 .. MaxGhostCount
    BY <1>1 DEF TypeOK, SlotTypeOK
  <2>2. attachedGhosts < MaxGhostCount
    BY DEF AttachGhost, Attaching
  <2>3. attachedGhosts + 1 \in 0 .. MaxGhostCount
    BY <2>1, <2>2, Constants
  <2> QED BY <1>4, <1>6, <1>7, <2>3 DEF SlotTypeOK
<1>18. UNCHANGED <<gameVars, protocol>> /\ UNCHANGED clientVars
       /\ UNCHANGED <<writeVars, cache, wire, lost, polluted>>
       /\ UNCHANGED <<scopePriority, inScope>>
  BY DEF AttachGhost
<1>19. QueryTypeOK'
  BY <1>1, <1>2, <1>4, <1>18 DEF TypeOK, QueryTypeOK
<1>20. TypeOK'
  BY <1>1, <1>17, <1>18, <1>19, GameKept, WriteKept, ClientKept DEF TypeOK
<1> QED BY <1>15, <1>16, <1>18, <1>20 DEF GhostInv, clientVars

LEMMA RefreshPriorityStep ==
    ASSUME GhostInv, NEW g \in Ghosts, RefreshPriority(g)
    PROVE  GhostInv'
<1>1. TypeOK
  BY DEF GhostInv
<1>2. /\ info \in [Ghosts -> GhostInfos \cup {NoInfo}]
      /\ scopePriority \in [Ghosts -> Priorities]
      /\ scopeQueue \in SUBSET Ghosts
  BY <1>1 DEF TypeOK, SlotTypeOK, QueryTypeOK
<1>3. info[g] # NoInfo
      /\ info' = [info EXCEPT ![g] = [info[g] EXCEPT !.priority = scopePriority[g]]]
  BY DEF RefreshPriority
<1>4. [info[g] EXCEPT !.priority = scopePriority[g]] \in GhostInfos
  <2>1. info[g] \in GhostInfos /\ scopePriority[g] \in Priorities
    BY <1>2, <1>3
  <2> QED BY <2>1, InfoUpdates
<1>5. info' \in [Ghosts -> GhostInfos \cup {NoInfo}]
  BY <1>2, <1>3, <1>4
<1>6. \A h \in Ghosts : info'[h] = NoInfo <=> info[h] = NoInfo
  BY <1>2, <1>3, <1>4, Constants
<1>7. /\ UNCHANGED <<ghostMap, attachedGhosts, scopePriority, inScope>>
      /\ UNCHANGED <<writeVars, cache, wire, lost, polluted>>
      /\ UNCHANGED clientVars /\ UNCHANGED <<gameVars, protocol>>
  BY DEF RefreshPriority
<1>8. pending' \subseteq pending
  BY <1>7 DEF writeVars
<1>9. SlotTypeOK' /\ SlotsMatchInfos' /\ PendingAreAttached'
  BY <1>5, <1>6, <1>7, <1>8, InfoStep
<1>10. QueryTypeOK'
  <2>1. scopeQueue' = scopeQueue \ {g}
    BY DEF RefreshPriority
  <2> QED BY <1>1, <1>2, <1>7, <2>1 DEF TypeOK, QueryTypeOK
<1>11. TypeOK'
  BY <1>1, <1>7, <1>9, <1>10, GameKept, WriteKept, ClientKept DEF TypeOK
<1> QED BY <1>7, <1>9, <1>11 DEF GhostInv, clientVars

\* doScopeQuery lists only ghosts that sit in a slot, so they have a GhostInfo.
LEMMA BuildPendingUpdatesStep ==
    ASSUME GhostInv, BuildPendingUpdates
    PROVE  GhostInv'
<1>1. TypeOK /\ SlotsMatchInfos
  BY DEF GhostInv
<1>2. /\ UNCHANGED <<scopePriority, inScope, bits, out, cache, wire, lost, polluted>>
      /\ UNCHANGED <<gameVars, protocol>> /\ UNCHANGED slotVars /\ UNCHANGED clientVars
      /\ mode' = "writing" /\ scopeQueue' = {}
      /\ pending' = {g \in Ghosts : /\ \E i \in GhostIds : ghostMap[i] = g
                                    /\ NeedsUpdate(g)}
  BY DEF BuildPendingUpdates
<1>3. SlotsMatchInfos'
  BY <1>1, <1>2, SlotsKept DEF slotVars
<1>4. PendingAreAttached'
  BY <1>1, <1>2 DEF PendingAreAttached, SlotsMatchInfos, slotVars
<1>5. QueryTypeOK'
  BY <1>1, <1>2 DEF TypeOK, QueryTypeOK
<1>6. WriteTypeOK'
  <2>1. pending' \in SUBSET Ghosts
    BY <1>2
  <2> QED BY <1>1, <1>2, <2>1 DEF TypeOK, WriteTypeOK
<1>7. TypeOK'
  BY <1>1, <1>2, <1>5, <1>6, GameKept, SlotKept, ClientKept DEF TypeOK
<1> QED BY <1>2, <1>3, <1>4, <1>7 DEF GhostInv, clientVars

\* detachGhost: the ghost sat in one slot only, so that emptying it leaves the
\* ghost in none, and the count goes down by that slot.
LEMMA WriteKillStep ==
    ASSUME GhostInv, NEW g \in Ghosts, WriteKill(g)
    PROVE  GhostInv'
<1>1. TypeOK /\ SlotsMatchInfos /\ PendingAreAttached
  BY DEF GhostInv
<1>2. /\ ghostMap \in [GhostIds -> Ghosts \cup {Empty}]
      /\ info \in [Ghosts -> GhostInfos \cup {NoInfo}]
      /\ attachedGhosts \in 0 .. MaxGhostCount
      /\ pending \in SUBSET Ghosts /\ out \in Seq(Records) /\ bits \in Nat
  BY <1>1 DEF TypeOK, SlotTypeOK, WriteTypeOK
<1>3. g \in pending /\ info[g] # NoInfo
  BY <1>1 DEF WriteKill, Current, PendingAreAttached
<1> DEFINE i == SlotOf(g)
<1>4. i \in GhostIds /\ ghostMap[i] = g
  BY <1>1, <1>3, SlotFound
<1>5. /\ out' = Append(out, [kind |-> "kill", id |-> i, ghost |-> g])
      /\ ghostMap' = [ghostMap EXCEPT ![i] = Empty]
      /\ info' = [info EXCEPT ![g] = NoInfo]
      /\ attachedGhosts' = attachedGhosts - 1
      /\ bits' = bits - HeaderBits
      /\ pending' = pending \ {g}
  BY DEF WriteKill
<1>6. UNCHANGED <<gameVars, protocol>> /\ UNCHANGED queryVars /\ UNCHANGED clientVars
      /\ UNCHANGED <<mode, cache, wire, lost, polluted>>
  BY DEF WriteKill
<1> HIDE DEF i
<1>7. info' \in [Ghosts -> GhostInfos \cup {NoInfo}] /\ info'[g] = NoInfo
      /\ \A h \in Ghosts \ {g} : info'[h] = info[h]
  BY <1>2, <1>5
<1>8. ghostMap' \in [GhostIds -> Ghosts \cup {Empty}] /\ ghostMap'[i] = Empty
      /\ \A j \in GhostIds \ {i} : ghostMap'[j] = ghostMap[j]
  BY <1>2, <1>4, <1>5
<1>9. g # Empty
  BY Constants
<1>10. Occupied' = Occupied \ {i} /\ i \in Occupied
  BY <1>4, <1>8, <1>9 DEF Occupied
<1>11. IsFiniteSet(Occupied)
  BY Constants, FS_Subset DEF Occupied
<1>12. Cardinality(Occupied') = Cardinality(Occupied) - 1
  BY <1>10, <1>11, FS_RemoveElement
<1>13. attachedGhosts = Cardinality(Occupied)
  BY <1>1 DEF SlotsMatchInfos, Occupied
<1>14. attachedGhosts' = Cardinality(Occupied')
  BY <1>5, <1>12, <1>13
<1>15. \A j \in GhostIds \ {i} : ghostMap[j] # g
  BY <1>1, <1>4, <1>9 DEF SlotsMatchInfos
<1>16. SlotsMatchInfos'
  <2>1. \A j, k \in GhostIds : ghostMap'[j] # Empty /\ ghostMap'[j] = ghostMap'[k]
                                  => j = k
    BY <1>1, <1>8 DEF SlotsMatchInfos
  <2>2. \A h \in Ghosts : info'[h] # NoInfo <=> \E j \in GhostIds : ghostMap'[j] = h
    <3>1. info'[g] = NoInfo /\ \A j \in GhostIds : ghostMap'[j] # g
      BY <1>7, <1>8, <1>9, <1>15
    <3>2. ASSUME NEW h \in Ghosts \ {g}
          PROVE  (\E j \in GhostIds : ghostMap'[j] = h)
                    <=> \E j \in GhostIds : ghostMap[j] = h
      BY <1>4, <1>8, Constants
    <3> QED BY <1>1, <1>7, <3>1, <3>2 DEF SlotsMatchInfos
  <2> QED BY <1>14, <2>1, <2>2 DEF SlotsMatchInfos, Occupied
<1>17. PendingAreAttached'
  BY <1>1, <1>2, <1>5, <1>7 DEF PendingAreAttached
<1>18. SlotTypeOK'
  <2>1. Cardinality(Occupied') \in Nat
    BY <1>10, <1>11, FS_RemoveElement, FS_CardinalityType
  <2>2. attachedGhosts' \in 0 .. MaxGhostCount
    BY <1>2, <1>5, <1>14, <2>1, Constants
  <2> QED BY <1>7, <1>8, <2>2 DEF SlotTypeOK
<1>19. WriteTypeOK'
  <2>1. [kind |-> "kill", id |-> i, ghost |-> g] \in Records
    BY <1>4 DEF Records
  <2>2. out' \in Seq(Records)
    BY <1>2, <1>5, <2>1
  <2>3. bits > GhostIdBits + 5
    BY DEF WriteKill, Current, RoomForAnother
  <2>4. bits' \in Nat
    BY <1>2, <1>5, <2>3, Constants DEF HeaderBits
  <2> QED BY <1>1, <1>2, <1>5, <1>6, <2>2, <2>4 DEF TypeOK, WriteTypeOK
<1>20. TypeOK'
  BY <1>1, <1>6, <1>18, <1>19, GameKept, QueryKept, ClientKept DEF TypeOK
<1> QED BY <1>6, <1>16, <1>17, <1>20 DEF GhostInv, clientVars

\* An update is a record, and its length a number of bits.
LEMMA UpdateFacts ==
    ASSUME GhostInv, NEW g \in Ghosts, info[g] # NoInfo
    PROVE  /\ UpdateRecord(g) \in Records
           /\ UpdateBits(g) \in Nat
           /\ CacheAfterUpdate(g) \in Caches /\ WellLinked(CacheAfterUpdate(g))
<1>1. TypeOK /\ SlotsMatchInfos /\ WellLinked(cache)
  BY DEF GhostInv
<1>2. info[g] \in GhostInfos /\ cache \in Caches /\ protocol[g] \in States
  BY <1>1 DEF TypeOK, SlotTypeOK, WriteTypeOK, GameTypeOK
<1>3. info[g].dirtyFlags \in SUBSET Fields /\ info[g].isGhosted \in BOOLEAN
  BY <1>2 DEF GhostInfos
<1>4. SlotOf(g) \in GhostIds
  BY <1>1, SlotFound
<1>5. Prototype[g] \in Strings
  BY GhostAssumption
<1>6. Written(cache, Prototype[g]) \in CachedStrings
      /\ AfterWrite(cache, Prototype[g]) \in Caches
  BY <1>1, <1>2, <1>5, WriteType
<1>7. WellLinked(AfterWrite(cache, Prototype[g]))
  BY <1>1, <1>2, <1>5, WriteKeepsList
<1>8. UpdateRecord(g) \in Records
  <2>1. CASE info[g].isGhosted
    BY <1>2, <1>3, <1>4, <2>1 DEF UpdateRecord, Records
  <2>2. CASE ~info[g].isGhosted
    BY <1>2, <1>3, <1>4, <1>6, <2>2 DEF UpdateRecord, Records
  <2> QED BY <2>1, <2>2
<1>9. UpdateBits(g) \in Nat
  <2>1. IsFiniteSet(Fields) /\ IsFiniteSet(info[g].dirtyFlags)
    BY <1>3, GhostAssumption, FS_Subset
  <2>2. Cardinality(Fields) \in Nat /\ Cardinality(info[g].dirtyFlags) \in Nat
    BY <2>1, FS_CardinalityType
  <2>3. GhostIdBits \in Nat /\ FieldBits \in Nat /\ RefBits \in Nat /\ NameBits \in Nat
    BY GhostAssumption
  <2>4. FieldBits * Cardinality(info[g].dirtyFlags) \in Nat
    BY <2>2, <2>3
  <2> QED BY <2>2, <2>3, <2>4 DEF UpdateBits, StateBits, HeaderBits
<1>10. CacheAfterUpdate(g) \in Caches /\ WellLinked(CacheAfterUpdate(g))
  BY <1>1, <1>2, <1>6, <1>7 DEF CacheAfterUpdate
<1> QED BY <1>8, <1>9, <1>10

LEMMA WriteUpdateStep ==
    ASSUME GhostInv, NEW g \in Ghosts, WriteUpdate(g)
    PROVE  GhostInv'
<1>1. TypeOK /\ SlotsMatchInfos /\ PendingAreAttached
  BY DEF GhostInv
<1>2. /\ info \in [Ghosts -> GhostInfos \cup {NoInfo}]
      /\ pending \in SUBSET Ghosts /\ out \in Seq(Records) /\ bits \in Nat
  BY <1>1 DEF TypeOK, SlotTypeOK, WriteTypeOK
<1>3. info[g] # NoInfo
  BY <1>1 DEF WriteUpdate, Current, PendingAreAttached
<1>4. /\ UpdateBits(g) <= bits
      /\ out' = Append(out, UpdateRecord(g))
      /\ cache' = CacheAfterUpdate(g)
      /\ bits' = bits - UpdateBits(g)
      /\ pending' = pending \ {g}
  BY DEF WriteUpdate
<1>5. UNCHANGED <<gameVars, protocol>> /\ UNCHANGED queryVars /\ UNCHANGED clientVars
      /\ UNCHANGED <<ghostMap, attachedGhosts>> /\ UNCHANGED <<mode, wire, lost, polluted>>
  BY DEF WriteUpdate
<1> DEFINE gi == [info[g] EXCEPT !.isGhosted = TRUE, !.dirtyFlags = {}]
<1>6. info' = [info EXCEPT ![g] = gi]
  BY DEF WriteUpdate
<1>7. gi \in GhostInfos
  <2>1. info[g] \in GhostInfos
    BY <1>2, <1>3
  <2> QED BY <2>1 DEF GhostInfos
<1> HIDE DEF gi
<1>8. info' \in [Ghosts -> GhostInfos \cup {NoInfo}]
  BY <1>2, <1>6, <1>7
<1>9. \A h \in Ghosts : info'[h] = NoInfo <=> info[h] = NoInfo
  BY <1>2, <1>3, <1>6, <1>7, Constants
<1>10. pending' \subseteq pending
  BY <1>4
<1>11. SlotTypeOK' /\ SlotsMatchInfos' /\ PendingAreAttached'
  BY <1>5, <1>8, <1>9, <1>10, InfoStep
<1>12. UpdateRecord(g) \in Records /\ UpdateBits(g) \in Nat
       /\ cache' \in Caches /\ WellLinked(cache')
  BY <1>3, <1>4, UpdateFacts
<1>13. WriteTypeOK'
  <2>1. out' \in Seq(Records)
    BY <1>2, <1>4, <1>12
  <2>2. bits' \in Nat
    BY <1>2, <1>4, <1>12
  <2> QED BY <1>1, <1>2, <1>4, <1>5, <1>12, <2>1, <2>2 DEF TypeOK, WriteTypeOK
<1>14. TypeOK'
  BY <1>1, <1>5, <1>11, <1>13, GameKept, QueryKept, ClientKept DEF TypeOK
<1>15. WellLinked(clientCache')
  BY <1>5 DEF GhostInv, clientVars
<1> QED BY <1>11, <1>12, <1>14, <1>15 DEF GhostInv, WellLinked

\* Leaving writePacket, whether the packet is sent or not, leaves the slots
\* alone; what may differ is the wire, the string cache and the ghost flags.
LEMMA LeaveStep ==
    ASSUME GhostInv, Leave, UNCHANGED <<gameVars, protocol>>, UNCHANGED slotVars,
           UNCHANGED queryVars, UNCHANGED clientVars,
           wire' \in {wire, Append(wire, out)},
           lost' \in BOOLEAN, polluted' \in BOOLEAN,
           cache' \in Caches, WellLinked(cache')
    PROVE  GhostInv'
<1>1. TypeOK /\ SlotsMatchInfos
  BY DEF GhostInv
<1>2. SlotsMatchInfos'
  BY <1>1, SlotsKept DEF slotVars
<1>3. PendingAreAttached'
  BY DEF PendingAreAttached, Leave
<1>4. WriteTypeOK'
  <2>1. wire \in Seq(Seq(Records)) /\ out \in Seq(Records)
    BY <1>1 DEF TypeOK, WriteTypeOK
  <2>2. wire' \in Seq(Seq(Records))
    BY <2>1
  <2>3. out' \in Seq(Records) /\ mode' = "idle" /\ pending' = {} /\ bits' = 0
    BY DEF Leave
  <2> QED BY <2>2, <2>3 DEF WriteTypeOK
<1>5. TypeOK'
  BY <1>1, <1>4, GameKept, SlotKept, QueryKept, ClientKept DEF TypeOK
<1>6. WellLinked(clientCache')
  BY DEF GhostInv, clientVars
<1> QED BY <1>2, <1>3, <1>5, <1>6 DEF GhostInv, WellLinked

LEMMA LeavingSteps ==
    ASSUME GhostInv,
           (\E g \in Ghosts : RunOutOfRoom(g)) \/ SendPacket \/ FinalFlagThrows
    PROVE  GhostInv'
<1>1. /\ cache \in Caches /\ WellLinked(cache)
      /\ lost \in BOOLEAN /\ polluted \in BOOLEAN
  BY DEF GhostInv, TypeOK, WriteTypeOK
<1>2. ASSUME NEW g \in Ghosts, RunOutOfRoom(g)
      PROVE  GhostInv'
  <2>1. info[g] # NoInfo
    BY <1>2 DEF GhostInv, PendingAreAttached, RunOutOfRoom, Current
  <2>2. cache' \in Caches /\ WellLinked(cache')
    BY <1>2, <2>1, UpdateFacts DEF RunOutOfRoom
  <2>3. polluted' \in BOOLEAN /\ lost' \in BOOLEAN
    BY <1>1, <1>2 DEF RunOutOfRoom
  <2>4. /\ Leave /\ UNCHANGED <<gameVars, protocol>> /\ UNCHANGED slotVars
        /\ UNCHANGED queryVars /\ UNCHANGED clientVars /\ wire' = Append(wire, out)
    BY <1>2 DEF RunOutOfRoom
  <2> QED BY <2>2, <2>3, <2>4, LeaveStep
<1>3. ASSUME SendPacket
      PROVE  GhostInv'
  <2>1. /\ Leave /\ UNCHANGED <<gameVars, protocol>> /\ UNCHANGED slotVars
        /\ UNCHANGED queryVars /\ UNCHANGED clientVars /\ wire' = Append(wire, out)
        /\ cache' = cache /\ lost' = lost /\ polluted' = polluted
    BY <1>3 DEF SendPacket
  <2> QED BY <1>1, <2>1, LeaveStep
<1>4. ASSUME FinalFlagThrows
      PROVE  GhostInv'
  <2>1. /\ Leave /\ UNCHANGED <<gameVars, protocol>> /\ UNCHANGED slotVars
        /\ UNCHANGED queryVars /\ UNCHANGED clientVars /\ wire' = wire
        /\ cache' = cache /\ lost' = (lost \/ out # <<>>) /\ polluted' = polluted
    BY <1>4 DEF FinalFlagThrows
  <2> QED BY <1>1, <2>1, LeaveStep
<1> QED BY <1>2, <1>3, <1>4

\* The client's steps touch nothing of the server's but the wire.
LEMMA ClientStep ==
    ASSUME GhostInv, ClientTypeOK', WellLinked(clientCache'),
           wire' \in Seq(Seq(Records)),
           UNCHANGED <<gameVars, protocol>>, UNCHANGED slotVars, UNCHANGED queryVars,
           UNCHANGED <<writeVars, cache, lost, polluted>>
    PROVE  GhostInv'
<1>1. TypeOK /\ SlotsMatchInfos /\ PendingAreAttached /\ WellLinked(cache)
  BY DEF GhostInv
<1>2. WriteTypeOK'
  BY <1>1 DEF TypeOK, WriteTypeOK, writeVars
<1>3. TypeOK'
  BY <1>1, <1>2, GameKept, SlotKept, QueryKept DEF TypeOK
<1>4. SlotsMatchInfos'
  BY <1>1, SlotsKept DEF slotVars
<1>5. PendingAreAttached' /\ WellLinked(cache')
  BY <1>1 DEF PendingAreAttached, slotVars, writeVars
<1> QED BY <1>3, <1>4, <1>5 DEF GhostInv, WellLinked

LEMMA BeginReadStep ==
    ASSUME GhostInv, BeginRead
    PROVE  GhostInv'
<1>1. /\ wire \in Seq(Seq(Records)) /\ ClientTypeOK /\ WellLinked(clientCache)
      /\ wire # <<>>
  BY DEF GhostInv, TypeOK, WriteTypeOK, BeginRead
<1>2. Head(wire) \in Seq(Records) /\ Tail(wire) \in Seq(Seq(Records))
  BY <1>1
<1>3. ClientTypeOK' /\ WellLinked(clientCache') /\ wire' \in Seq(Seq(Records))
  BY <1>1, <1>2 DEF BeginRead, ClientTypeOK
<1>4. /\ UNCHANGED <<gameVars, protocol>> /\ UNCHANGED slotVars /\ UNCHANGED queryVars
      /\ UNCHANGED <<writeVars, cache, lost, polluted>>
  BY DEF BeginRead
<1> QED BY <1>3, <1>4, ClientStep

\* The record being read is a record, whatever the client takes it for.
LEMMA RecordFacts ==
    ASSUME GhostInv, Reading
    PROVE  /\ Record \in Records /\ Tail(inbox) \in Seq(Records)
           /\ Record.id \in GhostIds /\ Record.ghost \in Ghosts
           /\ Record.kind \in {"update", "new"} =>
                 Record.fields \in SUBSET Fields /\ Record.state \in States
           /\ Record.kind = "new" => Record.name \in CachedStrings
<1>1. inbox \in Seq(Records) /\ inbox # <<>>
  BY DEF GhostInv, TypeOK, ClientTypeOK, Reading
<1>2. Head(inbox) \in Records /\ Tail(inbox) \in Seq(Records)
  BY <1>1
<1> QED BY <1>2 DEF Record, Records

\* deserialize sets some fields of a state and leaves the others.
LEMMA UpdatedType ==
    ASSUME NEW old \in States, NEW new \in States, NEW fields
    PROVE  Updated(old, fields, new) \in States
BY DEF Updated, States

LEMMA ReadStep ==
    ASSUME GhostInv, ReadPacket
    PROVE  GhostInv'
<1>1. /\ inbox \in Seq(Records) /\ copies \in [GhostIds -> Copies \cup {Empty}]
      /\ clientCache \in Caches /\ confused \in BOOLEAN
      /\ wire \in Seq(Seq(Records)) /\ WellLinked(clientCache)
  BY DEF GhostInv, TypeOK, WriteTypeOK, ClientTypeOK
<1>2. ASSUME UNCHANGED serverVars, inbox' \in Seq(Records),
             copies' \in [GhostIds -> Copies \cup {Empty}], clientCache' \in Caches,
             confused' \in BOOLEAN, WellLinked(clientCache')
      PROVE  GhostInv'
  <2>1. ClientTypeOK'
    BY <1>2 DEF ClientTypeOK
  <2>2. wire' \in Seq(Seq(Records))
    BY <1>1, <1>2 DEF serverVars
  <2>3. /\ UNCHANGED <<gameVars, protocol>> /\ UNCHANGED slotVars
        /\ UNCHANGED queryVars /\ UNCHANGED <<writeVars, cache, lost, polluted>>
    BY <1>2 DEF serverVars
  <2> QED BY <1>2, <2>1, <2>2, <2>3, ClientStep
<1>3. CASE BeginRead
  BY <1>3, BeginReadStep
<1>4. ASSUME ReadKill
      PROVE  GhostInv'
  <2>1. Reading /\ UNCHANGED serverVars /\ inbox' = Tail(inbox)
        /\ clientCache' = clientCache /\ confused' = confused
        /\ copies' = [copies EXCEPT ![Record.id] = Empty]
    BY <1>4 DEF ReadKill
  <2>2. Record.id \in GhostIds /\ Tail(inbox) \in Seq(Records)
    BY <2>1, RecordFacts
  <2>3. copies' \in [GhostIds -> Copies \cup {Empty}]
    BY <1>1, <2>1
  <2> QED BY <1>1, <1>2, <2>1, <2>2, <2>3
<1>5. ASSUME ReadUpdate
      PROVE  GhostInv'
  <2> DEFINE old == copies[Record.id]
             new == Updated(old.state, Record.fields \ InitialFields, Record.state)
  <2>1. Reading /\ UNCHANGED serverVars /\ inbox' = Tail(inbox)
        /\ clientCache' = clientCache /\ confused' = confused
        /\ copies' = [copies EXCEPT ![Record.id] = [old EXCEPT !.state = new]]
        /\ old # Empty /\ Record.kind = "update"
    BY <1>5 DEF ReadUpdate, SlotInUse
  <2>2. Record.id \in GhostIds /\ Tail(inbox) \in Seq(Records)
        /\ Record.state \in States
    BY <2>1, RecordFacts
  <2>3. old \in Copies
    BY <1>1, <2>1, <2>2
  <2>4. old.state \in States
    BY <2>3 DEF Copies
  <2>5. new \in States
    BY <2>2, <2>4, UpdatedType
  <2> HIDE DEF new, old
  <2>6. [old EXCEPT !.state = new] \in Copies
    BY <2>3, <2>5 DEF Copies
  <2>7. copies' \in [GhostIds -> Copies \cup {Empty}]
    BY <1>1, <2>1, <2>6
  <2> QED BY <1>1, <1>2, <2>1, <2>2, <2>7
<1>6. ASSUME ReadNew
      PROVE  GhostInv'
  <2> DEFINE copy == [ghost |-> Record.ghost,
                      state |-> Updated(Blank, Record.fields, Record.state)]
  <2>1. Reading /\ UNCHANGED serverVars /\ inbox' = Tail(inbox)
        /\ clientCache' = AfterRead(clientCache, Record.name)
        /\ confused' = confused /\ Record.kind = "new"
        /\ copies' = [copies EXCEPT ![Record.id] = copy]
    BY <1>6 DEF ReadNew
  <2>2. Tail(inbox) \in Seq(Records) /\ Record.ghost \in Ghosts
        /\ Record.state \in States /\ Record.name \in CachedStrings
    BY <2>1, RecordFacts
  <2>3. Blank \in States
    BY DEF States, Blank
  <2>4. copy \in Copies
    <3>1. Updated(Blank, Record.fields, Record.state) \in States
      BY <2>2, <2>3, UpdatedType
    <3> QED BY <2>2, <3>1 DEF Copies
  <2> HIDE DEF copy
  <2>5. copies' \in [GhostIds -> Copies \cup {Empty}]
    BY <1>1, <2>1, <2>4
  <2>6. clientCache' \in Caches /\ WellLinked(clientCache')
    BY <1>1, <2>1, <2>2, ReadType
  <2> QED BY <1>1, <1>2, <2>1, <2>2, <2>5, <2>6
<1>7. ASSUME ReadThrows
      PROVE  GhostInv'
  <2>1. Reading /\ UNCHANGED serverVars /\ inbox' = <<>>
        /\ copies' = copies /\ confused' = confused
        /\ \/ clientCache' = clientCache
           \/ /\ Record.kind = "new"
              /\ clientCache' = AfterRead(clientCache, Record.name)
    BY <1>7 DEF ReadThrows
  <2>2. clientCache' \in Caches /\ WellLinked(clientCache')
    <3>1. Record.kind = "new" => Record.name \in CachedStrings
      BY <2>1, RecordFacts
    <3> QED BY <1>1, <2>1, <3>1, ReadType
  <2>3. inbox' \in Seq(Records)
    BY <2>1
  <2> QED BY <1>1, <1>2, <2>1, <2>2, <2>3
<1>8. ASSUME Misread
      PROVE  GhostInv'
  <2>1. UNCHANGED serverVars /\ inbox' = inbox /\ copies' = copies
        /\ clientCache' = clientCache /\ confused' \in BOOLEAN
    BY <1>8 DEF Misread
  <2> QED BY <1>1, <1>2, <2>1
<1> QED BY <1>3, <1>4, <1>5, <1>6, <1>7, <1>8 DEF ReadPacket

LEMMA Stuttering ==
    ASSUME GhostInv, UNCHANGED vars
    PROVE  GhostInv'
<1>1. /\ UNCHANGED gameVars /\ protocol' = protocol /\ UNCHANGED slotVars
      /\ UNCHANGED queryVars /\ UNCHANGED writeVars /\ cache' = cache /\ wire' = wire
      /\ UNCHANGED clientVars /\ lost' = lost /\ polluted' = polluted
  BY DEF vars
<1>2. GameTypeOK'
  BY <1>1, GameKept DEF GhostInv, TypeOK
<1> QED BY <1>1, <1>2, GameStep

LEMMA GhostNext == GhostInv /\ [Next]_vars => GhostInv'
<1> SUFFICES ASSUME GhostInv, [Next]_vars PROVE GhostInv'
  OBVIOUS
<1>1. CASE Game
  BY <1>1, ChangePropertyStep, ChangeScopeStep DEF Game
<1>2. CASE \E g \in Ghosts : CheckTrackedProperties(g)
  BY <1>2, CheckTrackedPropertiesStep
<1>3. CASE WritePacket
  <2>1. CASE \E room \in Rooms : BeginPacket(room)
    <3>1. Rooms \subseteq Nat
      BY GhostAssumption
    <3> QED BY <2>1, <3>1, BeginPacketStep
  <2>2. CASE \E g \in Ghosts : AttachGhost(g) \/ RefreshPriority(g)
    BY <2>2, AttachGhostStep, RefreshPriorityStep
  <2>3. CASE BuildPendingUpdates
    BY <2>3, BuildPendingUpdatesStep
  <2>4. CASE \E g \in Ghosts : WriteKill(g) \/ WriteUpdate(g) \/ RunOutOfRoom(g)
    BY <2>4, WriteKillStep, WriteUpdateStep, LeavingSteps
  <2>5. CASE SendPacket \/ FinalFlagThrows
    BY <2>5, LeavingSteps
  <2> QED BY <1>3, <2>1, <2>2, <2>3, <2>4, <2>5 DEF WritePacket
<1>4. CASE ReadPacket
  BY <1>4, ReadStep
<1>5. CASE UNCHANGED vars
  BY <1>5, Stuttering
<1> QED BY <1>1, <1>2, <1>3, <1>4, <1>5 DEF Next

LEMMA GhostInvariant == Spec => []GhostInv
<1> QED BY GhostInit, GhostNext, PTL DEF Spec

\* Every table of the two GhostManagers, of the packets between them and of
\* the string caches keeps its type, whatever the game, the scoper, the room
\* in the packets and the damage do (GhostManager.as).
THEOREM GhostTypeCorrect == Spec => []TypeOK
<1>1. GhostInv => TypeOK
  BY DEF GhostInv
<1> QED BY <1>1, GhostInvariant, PTL

\* A ghost has a GhostInfo iff it sits in a slot, it sits in one slot only,
\* and _attachedGhosts counts the slots in use: findGhostId and
\* registerGhostInfo never find anything else (GhostManager.as:213-296).
THEOREM SlotsAlwaysMatch == Spec => []SlotsMatchInfos
<1>1. GhostInv => SlotsMatchInfos
  BY DEF GhostInv
<1> QED BY <1>1, GhostInvariant, PTL

-----------------------------------------------------------------------------
(* The client in step.  What is under way leads the client from the copies *)
(* it has to copies that agree with what the server has recorded as sent,  *)
(* and its string cache to the server's.                                   *)

Slots == [GhostIds -> Copies \cup {Empty}]

\* The client, with these copies, takes the record for what it is ...
Understood(cs, r) ==
    IF r.kind = "new" THEN cs[r.id] = Empty
    ELSE cs[r.id] # Empty /\ cs[r.id].ghost = r.ghost

\* ... and has these copies afterwards.
Applied(cs, r) ==
    [cs EXCEPT ![r.id] =
        IF r.kind = "kill" THEN Empty
        ELSE IF r.kind = "update"
        THEN [cs[r.id] EXCEPT !.state =
                Updated(cs[r.id].state, r.fields \ InitialFields, r.state)]
        ELSE [ghost |-> r.ghost, state |-> Updated(Blank, r.fields, r.state)]]

\* What the record leaves out, the client has already: it shows the whole state
\* that the server wrote the record of.
Whole(cs, r) == r.kind # "kill" => Applied(cs, r)[r.id].state = r.state

CopySteps == {t \in Slots \X Records \X Slots :
                 /\ Understood(t[1], t[2]) /\ Whole(t[1], t[2])
                 /\ t[3] = Applied(t[1], t[2])}

\* What the records do to the string cache of a client that decodes their names.
NameSteps == {t \in Caches \X Records \X Caches :
                 IF t[2].kind = "new"
                 THEN /\ ReadString(t[1], t[2].name) = Prototype[t[2].ghost]
                      /\ t[3] = AfterRead(t[1], t[2].name)
                 ELSE t[3] = t[1]}

\* The ghosted ones sit in their slots, with what is not marked dirty.
Agrees(cs) ==
    \A i \in GhostIds :
        LET g == ghostMap[i]
        IN  IF g # Empty /\ info[g].isGhosted
            THEN /\ cs[i] # Empty /\ cs[i].ghost = g
                 /\ \A f \in Fields \ info[g].dirtyFlags :
                       cs[i].state[f] = protocol[g][f]
            ELSE cs[i] = Empty

CopiesFollow ==
    \E cs \in Slots :
        /\ Journey(Slots, Records, CopySteps, copies, inbox, wire, out, cs)
        /\ Agrees(cs)

NamesFollow ==
    /\ KnownHeld(cache)
    /\ Journey(Caches, Records, NameSteps, clientCache, inbox, wire, out, cache)

\* A ghost the client does not have is all dirty; one it has is not dirty in
\* what is sent only once; and only what the client has is marked for death.
FlagsMeanWell ==
    \A g \in Ghosts : info[g] # NoInfo =>
        /\ ~info[g].isGhosted => info[g].dirtyFlags = Fields
        /\ info[g].isGhosted => info[g].dirtyFlags \cap InitialFields = {}
        /\ info[g].shouldKill => info[g].isGhosted

NothingHalfWritten == mode = "idle" => out = <<>>

LEMMA AppliedType ==
    ASSUME NEW cs \in Slots, NEW r \in Records, Understood(cs, r)
    PROVE  Applied(cs, r) \in Slots
<1>1. r.id \in GhostIds /\ r.ghost \in Ghosts /\ r.kind \in {"kill", "update", "new"}
  BY DEF Records
<1>2. r.kind # "kill" => r.state \in States
  BY DEF Records
<1>3. CASE r.kind = "kill"
  BY <1>1, <1>3 DEF Applied, Slots
<1>4. CASE r.kind = "update"
  <2> DEFINE old == cs[r.id]
             new == Updated(old.state, r.fields \ InitialFields, r.state)
  <2>1. old \in Copies
    BY <1>1, <1>4 DEF Understood, Slots
  <2>2. old.state \in States
    BY <2>1 DEF Copies
  <2>3. new \in States
    BY <1>2, <1>4, <2>2, UpdatedType
  <2>4. Applied(cs, r) = [cs EXCEPT ![r.id] = [old EXCEPT !.state = new]]
    BY <1>4 DEF Applied
  <2> HIDE DEF old, new
  <2>5. [old EXCEPT !.state = new] \in Copies
    BY <2>1, <2>3 DEF Copies
  <2> QED BY <2>4, <2>5 DEF Slots
<1>5. CASE r.kind = "new"
  <2> DEFINE new == Updated(Blank, r.fields, r.state)
  <2>1. Blank \in States
    BY DEF Blank, States
  <2>2. new \in States
    BY <1>2, <1>5, <2>1, UpdatedType
  <2>3. Applied(cs, r) = [cs EXCEPT ![r.id] = [ghost |-> r.ghost, state |-> new]]
    BY <1>5 DEF Applied
  <2> HIDE DEF new
  <2>4. [ghost |-> r.ghost, state |-> new] \in Copies
    BY <1>1, <2>2 DEF Copies
  <2> QED BY <2>3, <2>4 DEF Slots
<1> QED BY <1>1, <1>3, <1>4, <1>5

\* The types that the lemmas on streams ask for.
LEMMA StreamTypes ==
    ASSUME GhostInv
    PROVE  /\ inbox \in Seq(Records) /\ wire \in Seq(Seq(Records)) /\ out \in Seq(Records)
           /\ copies \in Slots /\ cache \in Caches /\ clientCache \in Caches
BY DEF GhostInv, TypeOK, WriteTypeOK, ClientTypeOK, Slots

LEMMA FollowInit ==
    Init => CopiesFollow /\ NamesFollow /\ FlagsMeanWell /\ NothingHalfWritten
<1> SUFFICES ASSUME Init
             PROVE  CopiesFollow /\ NamesFollow /\ FlagsMeanWell /\ NothingHalfWritten
  OBVIOUS
<1>1. GhostInv
  BY GhostInit
<1>2. Agrees(copies)
  BY DEF Init, Agrees
<1>3. Journey(Slots, Records, CopySteps, copies, <<>>, <<>>, <<>>, copies)
  BY <1>1, StreamTypes, JourneyStart
<1>4. CopiesFollow
  BY <1>1, <1>2, <1>3, StreamTypes DEF Init, CopiesFollow
<1>5. Journey(Caches, Records, NameSteps, clientCache, <<>>, <<>>, <<>>, clientCache)
  BY <1>1, StreamTypes, JourneyStart
<1>6. NamesFollow
  BY <1>5, NewCacheIsSound DEF Init, NamesFollow
<1> QED BY <1>4, <1>6 DEF Init, FlagsMeanWell, NothingHalfWritten

\* A step that leaves the stream alone and keeps the agreement.
LEMMA CopiesKept ==
    ASSUME CopiesFollow, UNCHANGED <<copies, inbox, wire, out>>,
           ASSUME NEW cs \in Slots, Agrees(cs) PROVE Agrees(cs)'
    PROVE  CopiesFollow'
<1>1. PICK cs \in Slots :
          /\ Journey(Slots, Records, CopySteps, copies, inbox, wire, out, cs)
          /\ Agrees(cs)
  BY DEF CopiesFollow
<1>2. Agrees(cs)'
  BY <1>1
<1> QED BY <1>1, <1>2 DEF CopiesFollow

LEMMA NamesKept ==
    ASSUME NamesFollow, UNCHANGED <<clientCache, inbox, wire, out, cache>>
    PROVE  NamesFollow'
BY DEF NamesFollow

\* What markDirty and markShouldKill do to the flags of a GhostInfo.
LEMMA MarkedFacts ==
    ASSUME GhostInv, NEW g \in Ghosts, NEW gs, info[g] # NoInfo
    PROVE  /\ MarkedDirty(g, gs).dirtyFlags =
                 IF g \in gs THEN info[g].dirtyFlags \cup Changed(g) ELSE info[g].dirtyFlags
           /\ MarkedDirty(g, gs).isGhosted = info[g].isGhosted
           /\ MarkedDirty(g, gs).shouldKill = info[g].shouldKill
           /\ MarkedForDeath(MarkedDirty(g, gs)).dirtyFlags = MarkedDirty(g, gs).dirtyFlags
           /\ MarkedForDeath(MarkedDirty(g, gs)).isGhosted = MarkedDirty(g, gs).isGhosted
<1>1. info[g] \in GhostInfos
  BY DEF GhostInv, TypeOK, SlotTypeOK
<1>2. MarkedDirty(g, gs) \in GhostInfos
  BY MarkedDirtyType DEF GhostInv
<1>3. \A gi \in GhostInfos : /\ MarkedForDeath(gi).dirtyFlags = gi.dirtyFlags
                             /\ MarkedForDeath(gi).isGhosted = gi.isGhosted
  BY DEF MarkedForDeath, GhostInfos
<1> QED BY <1>1, <1>2, <1>3 DEF MarkedDirty, GhostInfos

\* checkTrackedProperties marks what it copies: what was in agreement and is
\* not marked still is.
LEMMA CheckKeepsAgreement ==
    ASSUME GhostInv, NEW gs, Check(gs), ghostMap' = ghostMap,
           \A g \in Ghosts : info[g] # NoInfo =>
               /\ info'[g].isGhosted = info[g].isGhosted
               /\ info'[g].dirtyFlags = MarkedDirty(g, gs).dirtyFlags,
           NEW cs \in Slots, Agrees(cs)
    PROVE  Agrees(cs)'
<1>1. ghostMap \in [GhostIds -> Ghosts \cup {Empty}]
  BY DEF GhostInv, TypeOK, SlotTypeOK
<1> SUFFICES ASSUME NEW i \in GhostIds
             PROVE  LET g == ghostMap[i]
                    IN  IF g # Empty /\ info'[g].isGhosted
                        THEN /\ cs[i] # Empty /\ cs[i].ghost = g
                             /\ \A f \in Fields \ info'[g].dirtyFlags :
                                   cs[i].state[f] = protocol'[g][f]
                        ELSE cs[i] = Empty
  BY DEF Agrees
<1> DEFINE g == ghostMap[i]
<1>2. CASE g = Empty
  BY <1>2 DEF Agrees
<1>3. CASE g # Empty
  <2>1. g \in Ghosts /\ info[g] # NoInfo
    BY <1>1, <1>3 DEF GhostInv, SlotsMatchInfos
  <2>2. info'[g].isGhosted = info[g].isGhosted
    BY <2>1
  <2>3. CASE ~info[g].isGhosted
    BY <1>3, <2>2, <2>3 DEF Agrees
  <2>4. CASE info[g].isGhosted
    <3>1. /\ cs[i] # Empty /\ cs[i].ghost = g
          /\ \A f \in Fields \ info[g].dirtyFlags : cs[i].state[f] = protocol[g][f]
      BY <1>3, <2>4 DEF Agrees
    <3>2. info'[g].dirtyFlags = IF g \in gs THEN info[g].dirtyFlags \cup Changed(g)
                                ELSE info[g].dirtyFlags
      <4> HIDE DEF g
      <4>1. info'[g].dirtyFlags = MarkedDirty(g, gs).dirtyFlags
        BY <2>1
      <4>2. MarkedDirty(g, gs).dirtyFlags =
               IF g \in gs THEN info[g].dirtyFlags \cup Changed(g) ELSE info[g].dirtyFlags
        BY <2>1, MarkedFacts
      <4> QED BY <4>1, <4>2
    <3>3. \A f \in Fields : protocol'[g][f] = IF g \in gs /\ f \in Changed(g)
                                              THEN object[g][f] ELSE protocol[g][f]
      BY <2>1 DEF Check
    <3>4. \A f \in Fields \ info'[g].dirtyFlags : cs[i].state[f] = protocol'[g][f]
      <4> HIDE DEF g
      <4> QED BY <3>1, <3>2, <3>3
    <3> QED BY <1>3, <2>2, <2>4, <3>1, <3>4
  <2> QED BY <2>3, <2>4
<1> QED BY <1>2, <1>3

\* The same, of the flags themselves.
LEMMA CheckKeepsFlags ==
    ASSUME GhostInv, FlagsMeanWell, NEW gs,
           \A g \in Ghosts : info[g] = NoInfo => info'[g] = NoInfo,
           \A g \in Ghosts : info[g] # NoInfo =>
               /\ info'[g].isGhosted = info[g].isGhosted
               /\ info'[g].dirtyFlags = MarkedDirty(g, gs).dirtyFlags
               /\ info'[g].shouldKill => info[g].shouldKill \/ info[g].isGhosted
    PROVE  FlagsMeanWell'
<1> SUFFICES ASSUME NEW g \in Ghosts, info'[g] # NoInfo
             PROVE  /\ ~info'[g].isGhosted => info'[g].dirtyFlags = Fields
                    /\ info'[g].isGhosted => info'[g].dirtyFlags \cap InitialFields = {}
                    /\ info'[g].shouldKill => info'[g].isGhosted
  BY DEF FlagsMeanWell
<1>1. info[g] # NoInfo
  OBVIOUS
<1>2. info'[g].dirtyFlags = IF g \in gs THEN info[g].dirtyFlags \cup Changed(g)
                            ELSE info[g].dirtyFlags
  <2>1. info'[g].dirtyFlags = MarkedDirty(g, gs).dirtyFlags
    BY <1>1
  <2>2. MarkedDirty(g, gs).dirtyFlags =
           IF g \in gs THEN info[g].dirtyFlags \cup Changed(g) ELSE info[g].dirtyFlags
    BY <1>1, MarkedFacts
  <2> QED BY <2>1, <2>2
<1>3. Changed(g) \subseteq Fields \ InitialFields
  BY DEF Changed
<1>4. /\ ~info[g].isGhosted => info[g].dirtyFlags = Fields
      /\ info[g].isGhosted => info[g].dirtyFlags \cap InitialFields = {}
      /\ info[g].shouldKill => info[g].isGhosted
  BY <1>1 DEF FlagsMeanWell
<1>5. info'[g].isGhosted = info[g].isGhosted
  BY <1>1
<1>6. ~info[g].isGhosted => info'[g].dirtyFlags = Fields
  BY <1>2, <1>3, <1>4
<1>7. info[g].isGhosted => info'[g].dirtyFlags \cap InitialFields = {}
  BY <1>2, <1>3, <1>4
<1>8. info'[g].shouldKill => info[g].isGhosted
  BY <1>1, <1>4
<1> QED BY <1>5, <1>6, <1>7, <1>8

\* What the steps of the server before it writes have in common.
Followed == CopiesFollow /\ NamesFollow
Flagged == FlagsMeanWell /\ NothingHalfWritten

LEMMA GameFollows ==
    ASSUME GhostInv, Flagged, Game
    PROVE  Flagged' /\ (CopiesFollow => CopiesFollow')
<1>1. /\ UNCHANGED <<protocol, ghostMap, info, copies, inbox, wire, out, mode>>
  BY DEF Game, ChangeProperty, ChangeScope, slotVars, writeVars, clientVars
<1>2. Flagged'
  BY <1>1 DEF Flagged, FlagsMeanWell, NothingHalfWritten
<1>3. ASSUME NEW cs \in Slots, Agrees(cs) PROVE Agrees(cs)'
  BY <1>1, <1>3 DEF Agrees
<1> QED BY <1>1, <1>2, <1>3, CopiesKept

LEMMA CheckFollows ==
    ASSUME GhostInv, Flagged, NEW g \in Ghosts, CheckTrackedProperties(g)
    PROVE  Flagged' /\ (CopiesFollow => CopiesFollow')
<1>1. /\ Check({g}) /\ UNCHANGED <<ghostMap, copies, inbox, wire, out, mode>>
      /\ info' = [h \in Ghosts |-> IF info[h] = NoInfo THEN NoInfo
                                   ELSE MarkedDirty(h, {g})]
  BY DEF CheckTrackedProperties, writeVars, clientVars
<1>2. \A h \in Ghosts : info[h] # NoInfo =>
          /\ info'[h].isGhosted = info[h].isGhosted
          /\ info'[h].dirtyFlags = MarkedDirty(h, {g}).dirtyFlags
          /\ info'[h].shouldKill => info[h].shouldKill \/ info[h].isGhosted
  <2> SUFFICES ASSUME NEW h \in Ghosts, info[h] # NoInfo
               PROVE  /\ info'[h].isGhosted = info[h].isGhosted
                      /\ info'[h].dirtyFlags = MarkedDirty(h, {g}).dirtyFlags
                      /\ info'[h].shouldKill => info[h].shouldKill \/ info[h].isGhosted
    OBVIOUS
  <2>1. PICK gs : gs = {g}
    OBVIOUS
  <2>2. /\ MarkedDirty(h, gs).isGhosted = info[h].isGhosted
        /\ MarkedDirty(h, gs).shouldKill = info[h].shouldKill
    BY MarkedFacts, Zenon
  <2>3. info'[h] = MarkedDirty(h, gs)
    BY <1>1, <2>1
  <2> QED BY <2>1, <2>2, <2>3, Zenon
<1>3. FlagsMeanWell'
  <2>1. \A h \in Ghosts : info[h] = NoInfo => info'[h] = NoInfo
    BY <1>1
  <2> QED BY <1>2, <2>1, CheckKeepsFlags DEF Flagged
<1>4. Flagged'
  BY <1>1, <1>3 DEF Flagged, NothingHalfWritten
<1>5. ASSUME NEW cs \in Slots, Agrees(cs) PROVE Agrees(cs)'
  BY <1>1, <1>2, <1>5, CheckKeepsAgreement
<1> QED BY <1>1, <1>4, <1>5, CopiesKept

LEMMA BeginPacketFollows ==
    ASSUME GhostInv, Flagged, NEW room \in Nat, BeginPacket(room)
    PROVE  Flagged' /\ (CopiesFollow => CopiesFollow')
<1>1. /\ Check(Scoped) /\ UNCHANGED <<ghostMap, copies, inbox, wire, out>>
      /\ mode' = "scoping"
  BY DEF BeginPacket, clientVars
<1>2. PICK sel \in Selections :
          info' = [g \in Ghosts |->
                IF info[g] = NoInfo THEN NoInfo
                ELSE IF g \notin sel /\ info[g].isGhosted
                THEN MarkedForDeath(MarkedDirty(g, Scoped))
                ELSE MarkedDirty(g, Scoped)]
  BY DEF BeginPacket
<1>3. \A h \in Ghosts : info[h] # NoInfo =>
          /\ info'[h].isGhosted = info[h].isGhosted
          /\ info'[h].dirtyFlags = MarkedDirty(h, Scoped).dirtyFlags
          /\ info'[h].shouldKill => info[h].shouldKill \/ info[h].isGhosted
  <2> SUFFICES ASSUME NEW h \in Ghosts, info[h] # NoInfo
               PROVE  /\ info'[h].isGhosted = info[h].isGhosted
                      /\ info'[h].dirtyFlags = MarkedDirty(h, Scoped).dirtyFlags
                      /\ info'[h].shouldKill => info[h].shouldKill \/ info[h].isGhosted
    OBVIOUS
  <2> DEFINE md == MarkedDirty(h, Scoped)
  <2>1. /\ md.isGhosted = info[h].isGhosted /\ md.shouldKill = info[h].shouldKill
        /\ MarkedForDeath(md).dirtyFlags = md.dirtyFlags
        /\ MarkedForDeath(md).isGhosted = md.isGhosted
    <3>1. PICK gs : gs = Scoped
      OBVIOUS
    <3>2. /\ MarkedDirty(h, gs).isGhosted = info[h].isGhosted
          /\ MarkedDirty(h, gs).shouldKill = info[h].shouldKill
      BY MarkedFacts, ZenonT(60)
    <3>3. /\ MarkedForDeath(MarkedDirty(h, gs)).dirtyFlags = MarkedDirty(h, gs).dirtyFlags
          /\ MarkedForDeath(MarkedDirty(h, gs)).isGhosted = MarkedDirty(h, gs).isGhosted
      BY MarkedFacts, ZenonT(60)
    <3> QED BY <3>1, <3>2, <3>3
  <2>2. info'[h] = IF h \notin sel /\ info[h].isGhosted THEN MarkedForDeath(md) ELSE md
    BY <1>2
  <2> HIDE DEF md
  <2>3. /\ info'[h].isGhosted = info[h].isGhosted
        /\ info'[h].dirtyFlags = md.dirtyFlags
        /\ info'[h].shouldKill => info[h].shouldKill \/ info[h].isGhosted
    BY <2>1, <2>2
  <2> QED BY <2>3 DEF md
<1>4. FlagsMeanWell'
  <2>1. \A h \in Ghosts : info[h] = NoInfo => info'[h] = NoInfo
    BY <1>2
  <2> QED BY <1>3, <2>1, CheckKeepsFlags DEF Flagged
<1>5. Flagged'
  BY <1>1, <1>4 DEF Flagged, NothingHalfWritten
<1>6. ASSUME NEW cs \in Slots, Agrees(cs) PROVE Agrees(cs)'
  BY <1>1, <1>3, <1>6, CheckKeepsAgreement
<1> QED BY <1>1, <1>5, <1>6, CopiesKept

\* A ghost that gets a slot is not ghosted yet, and the slot was empty at both
\* ends, so the client still owes it nothing.
LEMMA AttachGhostFollows ==
    ASSUME GhostInv, Flagged, NEW g \in Ghosts, AttachGhost(g)
    PROVE  Flagged' /\ (CopiesFollow => CopiesFollow')
<1>1. /\ UNCHANGED <<protocol, copies, inbox, wire, out, mode>> /\ info[g] = NoInfo
  BY DEF AttachGhost, writeVars, clientVars
<1> DEFINE gi == [dirtyFlags |-> Fields, priority |-> scopePriority[g],
                  isGhosted |-> FALSE, shouldKill |-> FALSE]
<1>2. info' = [info EXCEPT ![g] = gi]
  BY DEF AttachGhost
<1>3. ~gi.isGhosted /\ gi.dirtyFlags = Fields /\ ~gi.shouldKill
  OBVIOUS
<1> HIDE DEF gi
<1>4. PICK i \in GhostIds : ghostMap[i] = Empty /\ ghostMap' = [ghostMap EXCEPT ![i] = g]
  BY DEF AttachGhost, FreeSlots
<1>5. /\ info \in [Ghosts -> GhostInfos \cup {NoInfo}]
      /\ ghostMap \in [GhostIds -> Ghosts \cup {Empty}] /\ SlotsMatchInfos
  BY DEF GhostInv, TypeOK, SlotTypeOK
<1>6. FlagsMeanWell'
  BY <1>2, <1>3, <1>5 DEF Flagged, FlagsMeanWell
<1>7. Flagged'
  BY <1>1, <1>6 DEF Flagged, NothingHalfWritten
<1>8. ASSUME NEW cs \in Slots, Agrees(cs) PROVE Agrees(cs)'
  <2>1. ghostMap'[i] = g /\ \A j \in GhostIds \ {i} : ghostMap'[j] = ghostMap[j]
    BY <1>4, <1>5
  <2>2. info'[g] = gi /\ \A h \in Ghosts \ {g} : info'[h] = info[h]
    BY <1>2, <1>5
  <2>3. cs[i] = Empty
    BY <1>4, <1>8 DEF Agrees
  <2>4. \A j \in GhostIds : ghostMap[j] # g
    BY <1>1, <1>5 DEF SlotsMatchInfos
  <2>5. \A j \in GhostIds \ {i} : /\ ghostMap'[j] = ghostMap[j]
                                  /\ ghostMap[j] # Empty =>
                                        info'[ghostMap[j]] = info[ghostMap[j]]
    BY <1>5, <2>1, <2>2, <2>4
  <2> QED BY <1>1, <1>3, <1>8, <2>1, <2>2, <2>3, <2>5 DEF Agrees
<1> QED BY <1>1, <1>7, <1>8, CopiesKept

LEMMA RefreshPriorityFollows ==
    ASSUME GhostInv, Flagged, NEW g \in Ghosts, RefreshPriority(g)
    PROVE  Flagged' /\ (CopiesFollow => CopiesFollow')
<1>1. /\ UNCHANGED <<protocol, ghostMap, copies, inbox, wire, out, mode>>
      /\ info[g] # NoInfo
  BY DEF RefreshPriority, writeVars, clientVars
<1> DEFINE gi == [info[g] EXCEPT !.priority = scopePriority[g]]
<1>2. info' = [info EXCEPT ![g] = gi]
  BY DEF RefreshPriority
<1>3. info \in [Ghosts -> GhostInfos \cup {NoInfo}] /\ SlotsMatchInfos
      /\ ghostMap \in [GhostIds -> Ghosts \cup {Empty}]
  BY DEF GhostInv, TypeOK, SlotTypeOK
<1>4. /\ gi.isGhosted = info[g].isGhosted /\ gi.dirtyFlags = info[g].dirtyFlags
      /\ gi.shouldKill = info[g].shouldKill
  <2>1. info[g] \in GhostInfos
    BY <1>1, <1>3
  <2> QED BY <2>1 DEF GhostInfos
<1> HIDE DEF gi
<1>5. \A h \in Ghosts : /\ info'[h] = NoInfo \/ info[h] # NoInfo
                        /\ info'[h].isGhosted = info[h].isGhosted
                        /\ info'[h].dirtyFlags = info[h].dirtyFlags
                        /\ info'[h].shouldKill = info[h].shouldKill
  BY <1>1, <1>2, <1>3, <1>4
<1>6. Flagged'
  BY <1>1, <1>5 DEF Flagged, FlagsMeanWell, NothingHalfWritten
<1>7. ASSUME NEW cs \in Slots, Agrees(cs) PROVE Agrees(cs)'
  <2>1. \A j \in GhostIds : ghostMap[j] # Empty =>
            /\ info'[ghostMap[j]].isGhosted = info[ghostMap[j]].isGhosted
            /\ info'[ghostMap[j]].dirtyFlags = info[ghostMap[j]].dirtyFlags
    BY <1>3, <1>5
  <2> QED BY <1>1, <1>7, <2>1 DEF Agrees
<1> QED BY <1>1, <1>6, <1>7, CopiesKept

LEMMA BuildPendingFollows ==
    ASSUME GhostInv, Flagged, BuildPendingUpdates
    PROVE  Flagged' /\ (CopiesFollow => CopiesFollow')
<1>1. /\ UNCHANGED <<protocol, ghostMap, info, copies, inbox, wire, out>>
      /\ mode' = "writing"
  BY DEF BuildPendingUpdates, slotVars, clientVars
<1>2. Flagged'
  BY <1>1 DEF Flagged, FlagsMeanWell, NothingHalfWritten
<1>3. ASSUME NEW cs \in Slots, Agrees(cs) PROVE Agrees(cs)'
  BY <1>1, <1>3 DEF Agrees
<1> QED BY <1>1, <1>2, <1>3, CopiesKept

\* The steps of writePacket that put a record in the packet, or send it.
LEMMA WriteKillFollows ==
    ASSUME GhostInv, Flagged, NEW g \in Ghosts, WriteKill(g)
    PROVE  Flagged' /\ (CopiesFollow => CopiesFollow') /\ (NamesFollow => NamesFollow')
<1>1. info[g] # NoInfo /\ info[g].shouldKill /\ mode = "writing"
  BY DEF GhostInv, WriteKill, Current, PendingAreAttached
<1> DEFINE i == SlotOf(g)
           r == [kind |-> "kill", id |-> i, ghost |-> g]
<1>2. i \in GhostIds /\ ghostMap[i] = g /\ g # Empty
  BY <1>1, SlotFound, Constants DEF GhostInv
<1>3. /\ out' = Append(out, r)
      /\ ghostMap' = [ghostMap EXCEPT ![i] = Empty]
      /\ info' = [info EXCEPT ![g] = NoInfo]
      /\ UNCHANGED <<protocol, copies, clientCache, inbox, wire, cache, mode>>
  BY DEF WriteKill, clientVars
<1>4. r \in Records /\ r.kind = "kill" /\ r.id = i /\ r.ghost = g
  BY <1>2 DEF Records
<1> HIDE DEF i, r
<1>5. /\ info \in [Ghosts -> GhostInfos \cup {NoInfo}] /\ SlotsMatchInfos
      /\ ghostMap \in [GhostIds -> Ghosts \cup {Empty}]
  BY DEF GhostInv, TypeOK, SlotTypeOK
<1>6. Flagged'
  BY <1>1, <1>3, <1>5 DEF Flagged, FlagsMeanWell, NothingHalfWritten
<1>7. out \in Seq(Records) /\ cache \in Caches
  BY StreamTypes
<1>8. ASSUME CopiesFollow PROVE CopiesFollow'
  <2>1. PICK cs \in Slots :
            /\ Journey(Slots, Records, CopySteps, copies, inbox, wire, out, cs)
            /\ Agrees(cs)
    BY <1>8 DEF CopiesFollow
  <2>2. cs[i] # Empty /\ cs[i].ghost = g
    BY <1>1, <1>2, <2>1 DEF Agrees, Flagged, FlagsMeanWell
  <2>3. Understood(cs, r)
    BY <1>4, <2>2 DEF Understood
  <2>4. Applied(cs, r) \in Slots /\ Applied(cs, r) = [cs EXCEPT ![i] = Empty]
    BY <1>4, <2>3, AppliedType DEF Applied
  <2>5. <<cs, r, Applied(cs, r)>> \in CopySteps
    <3>1. Whole(cs, r)
      BY <1>4 DEF Whole
    <3> QED BY <1>4, <2>3, <2>4, <3>1 DEF CopySteps
  <2>6. PICK next \in Slots : next = Applied(cs, r)
    BY <2>4
  <2>7. Journey(Slots, Records, CopySteps, copies, inbox, wire, Append(out, r), next)
    BY <1>4, <1>7, <2>1, <2>5, <2>6, JourneyWrite
  <2>8. Agrees(next)'
    <3>1. next[i] = Empty /\ \A j \in GhostIds \ {i} : next[j] = cs[j]
      BY <2>4, <2>6 DEF Slots
    <3>2. ghostMap'[i] = Empty /\ \A j \in GhostIds \ {i} : ghostMap'[j] = ghostMap[j]
      BY <1>2, <1>3, <1>5
    <3>3. \A j \in GhostIds \ {i} : ghostMap[j] # g
      BY <1>2, <1>5 DEF SlotsMatchInfos
    <3>4. \A j \in GhostIds \ {i} :
              ghostMap[j] # Empty => info'[ghostMap[j]] = info[ghostMap[j]]
      BY <1>3, <1>5, <3>3
    <3>5. \A j \in GhostIds :
              LET h == ghostMap'[j]
              IN  IF h # Empty /\ info'[h].isGhosted
                  THEN /\ next[j] # Empty /\ next[j].ghost = h
                       /\ \A f \in Fields \ info'[h].dirtyFlags :
                             next[j].state[f] = protocol'[h][f]
                  ELSE next[j] = Empty
      BY <1>3, <2>1, <3>1, <3>2, <3>4 DEF Agrees
    <3> QED BY <3>5 DEF Agrees
  <2> QED BY <1>3, <2>7, <2>8 DEF CopiesFollow
<1>9. ASSUME NamesFollow PROVE NamesFollow'
  <2>1. <<cache, r, cache>> \in NameSteps
    BY <1>4, <1>7 DEF NameSteps
  <2>2. Journey(Caches, Records, NameSteps, clientCache, inbox, wire, Append(out, r), cache)
    BY <1>4, <1>7, <1>9, <2>1, JourneyWrite DEF NamesFollow
  <2> QED BY <1>3, <1>9, <2>2 DEF NamesFollow
<1> QED BY <1>6, <1>8, <1>9

\* What an update says, of a ghost the client has and of one it does not have.
LEMMA UpdateSays ==
    ASSUME GhostInv, NEW g \in Ghosts, info[g] # NoInfo
    PROVE  LET r == UpdateRecord(g)
           IN  /\ r.id = SlotOf(g) /\ r.ghost = g
               /\ r.kind = IF info[g].isGhosted THEN "update" ELSE "new"
               /\ r.fields = info[g].dirtyFlags /\ r.state = protocol[g]
               /\ ~info[g].isGhosted => r.name = Written(cache, Prototype[g])
BY DEF UpdateRecord

LEMMA UpdateIsUnderstood ==
    ASSUME GhostInv, Flagged, NEW g \in Ghosts, info[g] # NoInfo,
           NEW cs \in Slots, Agrees(cs)
    PROVE  /\ Understood(cs, UpdateRecord(g))
           /\ Applied(cs, UpdateRecord(g)) \in Slots
           /\ \A j \in GhostIds \ {SlotOf(g)} : Applied(cs, UpdateRecord(g))[j] = cs[j]
           /\ Whole(cs, UpdateRecord(g))
           /\ Applied(cs, UpdateRecord(g))[SlotOf(g)] # Empty
           /\ Applied(cs, UpdateRecord(g))[SlotOf(g)].ghost = g
           /\ \A f \in Fields :
                 Applied(cs, UpdateRecord(g))[SlotOf(g)].state[f] = protocol[g][f]
<1> DEFINE r == UpdateRecord(g)
           i == SlotOf(g)
           next == Applied(cs, r)
<1>1. /\ r.id = i /\ r.ghost = g /\ r.kind = IF info[g].isGhosted THEN "update" ELSE "new"
      /\ r.fields = info[g].dirtyFlags /\ r.state = protocol[g] /\ r \in Records
  BY UpdateSays, UpdateFacts
<1>2. i \in GhostIds /\ ghostMap[i] = g /\ g # Empty
  BY SlotFound, Constants DEF GhostInv
<1>3. info[g] \in GhostInfos
  BY DEF GhostInv, TypeOK, SlotTypeOK
<1>4. /\ ~info[g].isGhosted => info[g].dirtyFlags = Fields
      /\ info[g].isGhosted => info[g].dirtyFlags \cap InitialFields = {}
  BY DEF Flagged, FlagsMeanWell
<1> HIDE DEF r, i
<1>5. Understood(cs, r)
  <2>1. CASE info[g].isGhosted
    BY <1>1, <1>2, <2>1 DEF Understood, Agrees
  <2>2. CASE ~info[g].isGhosted
    BY <1>1, <1>2, <2>2 DEF Understood, Agrees
  <2> QED BY <2>1, <2>2
<1>6. next \in Slots
  BY <1>1, <1>5, AppliedType
<1>7. next = [cs EXCEPT ![i] =
                 IF info[g].isGhosted
                 THEN [cs[i] EXCEPT !.state =
                          Updated(cs[i].state, info[g].dirtyFlags \ InitialFields, protocol[g])]
                 ELSE [ghost |-> g, state |-> Updated(Blank, info[g].dirtyFlags, protocol[g])]]
  <2>1. CASE info[g].isGhosted
    BY <1>1, <2>1 DEF Applied
  <2>2. CASE ~info[g].isGhosted
    BY <1>1, <2>2 DEF Applied
  <2> QED BY <2>1, <2>2
<1>8. \A j \in GhostIds \ {i} : next[j] = cs[j]
  BY <1>2, <1>7 DEF Slots
<1>9. /\ next[i] # Empty /\ next[i].ghost = g
      /\ \A f \in Fields : next[i].state[f] = protocol[g][f]
  <2>1. CASE info[g].isGhosted
    <3> DEFINE new == Updated(cs[i].state, info[g].dirtyFlags \ InitialFields, protocol[g])
    <3>1. /\ cs[i] # Empty /\ cs[i].ghost = g
          /\ \A f \in Fields \ info[g].dirtyFlags : cs[i].state[f] = protocol[g][f]
      BY <1>2, <2>1 DEF Agrees
    <3>2. cs[i] \in Copies
      BY <1>2, <3>1 DEF Slots
    <3>3. next[i] = [cs[i] EXCEPT !.state = new]
      BY <1>2, <1>7, <2>1 DEF Slots
    <3>4. \A f \in Fields : new[f] = protocol[g][f]
      <4> SUFFICES ASSUME NEW f \in Fields PROVE new[f] = protocol[g][f]
        OBVIOUS
      <4>1. new[f] = IF f \in info[g].dirtyFlags \ InitialFields
                     THEN protocol[g][f] ELSE cs[i].state[f]
        BY DEF Updated
      <4> QED BY <1>4, <2>1, <3>1, <4>1
    <3> HIDE DEF new, next
    <3>5. next[i].ghost = g /\ next[i].state = new
      BY <3>1, <3>2, <3>3 DEF Copies
    <3>6. next[i] # Empty
      <4>1. next[i] \in Copies \cup {Empty} /\ Empty \notin Copies
        BY <1>2, <1>6, EmptyAssumption DEF Slots
      <4>2. new \in States
        BY <1>3, <3>2, UpdatedType DEF Copies, GhostInv, TypeOK, GameTypeOK, new
      <4>3. [cs[i] EXCEPT !.state = new] \in Copies
        BY <3>2, <4>2 DEF Copies
      <4> QED BY <3>3, <4>1, <4>3
    <3> QED BY <3>4, <3>5, <3>6
  <2>2. CASE ~info[g].isGhosted
    <3> DEFINE new == Updated(Blank, info[g].dirtyFlags, protocol[g])
    <3>1. next[i] = [ghost |-> g, state |-> new]
      BY <1>2, <1>7, <2>2 DEF Slots
    <3>2. \A f \in Fields : new[f] = protocol[g][f]
      BY <1>4, <2>2 DEF Updated
    <3>3. new \in States
      <4>1. Blank \in States /\ protocol[g] \in States
        BY DEF Blank, States, GhostInv, TypeOK, GameTypeOK
      <4> QED BY <4>1, UpdatedType
    <3> HIDE DEF new, next
    <3>4. next[i] \in Copies
      BY <3>1, <3>3 DEF Copies
    <3> QED BY <3>1, <3>2, <3>4, EmptyAssumption
  <2> QED BY <2>1, <2>2
<1>10. Whole(cs, r)
  <2>1. next[i].state \in States /\ protocol[g] \in States
    <3>1. next[i] \in Copies
      BY <1>2, <1>6, <1>9 DEF Slots
    <3> QED BY <3>1 DEF Copies, GhostInv, TypeOK, GameTypeOK
  <2>2. next[i].state = protocol[g]
    BY <1>9, <2>1 DEF States
  <2> QED BY <1>1, <2>2 DEF Whole
<1> QED BY <1>5, <1>6, <1>8, <1>9, <1>10 DEF r, i

\* A reader that has the writer's cache decodes the name of a new ghost, and
\* has the writer's cache again.
LEMMA UpdateIsDecoded ==
    ASSUME GhostInv, NEW g \in Ghosts, info[g] # NoInfo, KnownHeld(cache)
    PROVE  /\ <<cache, UpdateRecord(g), CacheAfterUpdate(g)>> \in NameSteps
           /\ KnownHeld(CacheAfterUpdate(g))
<1> DEFINE r == UpdateRecord(g)
<1>1. /\ r.ghost = g /\ r.kind = IF info[g].isGhosted THEN "update" ELSE "new"
      /\ ~info[g].isGhosted => r.name = Written(cache, Prototype[g])
      /\ r \in Records /\ CacheAfterUpdate(g) \in Caches
  BY UpdateSays, UpdateFacts
<1>2. cache \in Caches /\ WellLinked(cache) /\ Prototype[g] \in Strings
  BY StreamTypes, GhostAssumption DEF GhostInv
<1> HIDE DEF r
<1>3. CASE info[g].isGhosted
  BY <1>1, <1>2, <1>3 DEF NameSteps, CacheAfterUpdate, r
<1>4. CASE ~info[g].isGhosted
  <2>1. CacheAfterUpdate(g) = AfterWrite(cache, Prototype[g])
    BY <1>4 DEF CacheAfterUpdate
  <2>2. /\ ReadString(cache, r.name) = Prototype[r.ghost]
        /\ AfterRead(cache, r.name) = CacheAfterUpdate(g)
    BY <1>1, <1>2, <1>4, <2>1, ReadUndoesWrite
  <2>3. r.kind = "new"
    BY <1>1, <1>4
  <2>4. <<cache, r, CacheAfterUpdate(g)>> \in NameSteps
    BY <1>1, <1>2, <2>2, <2>3 DEF NameSteps
  <2>5. KnownHeld(CacheAfterUpdate(g))
    BY <1>2, <2>1, WriteKeepsKnownHeld
  <2> QED BY <2>4, <2>5 DEF r
<1> QED BY <1>3, <1>4

LEMMA WriteUpdateFollows ==
    ASSUME GhostInv, Flagged, NEW g \in Ghosts, WriteUpdate(g)
    PROVE  Flagged' /\ (CopiesFollow => CopiesFollow') /\ (NamesFollow => NamesFollow')
<1>1. info[g] # NoInfo /\ ~info[g].shouldKill /\ mode = "writing"
  BY DEF GhostInv, WriteUpdate, Current, PendingAreAttached
<1> DEFINE i == SlotOf(g)
           r == UpdateRecord(g)
           gi == [info[g] EXCEPT !.isGhosted = TRUE, !.dirtyFlags = {}]
<1>2. i \in GhostIds /\ ghostMap[i] = g /\ g # Empty
  BY <1>1, SlotFound, Constants DEF GhostInv
<1>3. /\ out' = Append(out, r) /\ info' = [info EXCEPT ![g] = gi]
      /\ cache' = CacheAfterUpdate(g)
      /\ UNCHANGED <<ghostMap, protocol, copies, clientCache, inbox, wire, mode>>
  BY DEF WriteUpdate, clientVars
<1>4. /\ info \in [Ghosts -> GhostInfos \cup {NoInfo}] /\ SlotsMatchInfos
      /\ ghostMap \in [GhostIds -> Ghosts \cup {Empty}]
  BY DEF GhostInv, TypeOK, SlotTypeOK
<1>5. gi.isGhosted /\ gi.dirtyFlags = {} /\ ~gi.shouldKill
  <2>1. info[g] \in GhostInfos
    BY <1>1, <1>4
  <2> QED BY <1>1, <2>1 DEF GhostInfos
<1> HIDE DEF gi
<1>6. info'[g] = gi /\ \A h \in Ghosts \ {g} : info'[h] = info[h]
  BY <1>3, <1>4
<1>7. Flagged'
  BY <1>1, <1>3, <1>5, <1>6 DEF Flagged, FlagsMeanWell, NothingHalfWritten
<1>8. r \in Records /\ out \in Seq(Records) /\ cache \in Caches
      /\ CacheAfterUpdate(g) \in Caches
  BY <1>1, UpdateFacts, StreamTypes
<1>9. ASSUME CopiesFollow PROVE CopiesFollow'
  <2>1. PICK cs \in Slots :
            /\ Journey(Slots, Records, CopySteps, copies, inbox, wire, out, cs)
            /\ Agrees(cs)
    BY <1>9 DEF CopiesFollow
  <2>2. PICK next \in Slots : next = Applied(cs, r)
    BY <1>1, <2>1, UpdateIsUnderstood
  <2>3. /\ Understood(cs, r) /\ Whole(cs, r)
        /\ \A j \in GhostIds \ {i} : next[j] = cs[j]
        /\ next[i] # Empty /\ next[i].ghost = g
        /\ \A f \in Fields : next[i].state[f] = protocol[g][f]
    BY <1>1, <2>1, <2>2, UpdateIsUnderstood
  <2> HIDE DEF i, r
  <2>4. <<cs, r, next>> \in CopySteps
    BY <1>8, <2>3, <2>2 DEF CopySteps
  <2>5. Journey(Slots, Records, CopySteps, copies, inbox, wire, Append(out, r), next)
    BY <1>8, <2>1, <2>3, <2>4, JourneyWrite
  <2>6. \A j \in GhostIds \ {i} : ghostMap[j] # g
    BY <1>2, <1>4 DEF SlotsMatchInfos
  <2>7. \A j \in GhostIds \ {i} :
            ghostMap[j] # Empty => info'[ghostMap[j]] = info[ghostMap[j]]
    BY <1>4, <1>6, <2>6
  <2>8. \A j \in GhostIds :
            LET h == ghostMap'[j]
            IN  IF h # Empty /\ info'[h].isGhosted
                THEN /\ next[j] # Empty /\ next[j].ghost = h
                     /\ \A f \in Fields \ info'[h].dirtyFlags :
                           next[j].state[f] = protocol'[h][f]
                ELSE next[j] = Empty
    <3> SUFFICES ASSUME NEW j \in GhostIds
                 PROVE  LET h == ghostMap[j]
                        IN  IF h # Empty /\ info'[h].isGhosted
                            THEN /\ next[j] # Empty /\ next[j].ghost = h
                                 /\ \A f \in Fields \ info'[h].dirtyFlags :
                                       next[j].state[f] = protocol[h][f]
                            ELSE next[j] = Empty
      BY <1>3
    <3>1. CASE j = i
      BY <1>2, <1>5, <1>6, <2>3, <3>1
    <3>2. CASE j # i
      BY <2>1, <2>3, <2>7, <3>2 DEF Agrees
    <3> QED BY <3>1, <3>2
  <2>9. Agrees(next)'
    BY <2>8 DEF Agrees
  <2> QED BY <1>3, <2>5, <2>9 DEF CopiesFollow, r
<1>10. ASSUME NamesFollow PROVE NamesFollow'
  <2>1. <<cache, r, CacheAfterUpdate(g)>> \in NameSteps /\ KnownHeld(CacheAfterUpdate(g))
    BY <1>1, <1>10, UpdateIsDecoded DEF NamesFollow
  <2> HIDE DEF r
  <2>2. Journey(Caches, Records, NameSteps, clientCache, inbox, wire, Append(out, r),
                CacheAfterUpdate(g))
    BY <1>8, <1>10, <2>1, JourneyWrite DEF NamesFollow
  <2> QED BY <1>3, <2>1, <2>2 DEF NamesFollow, r
<1> QED BY <1>7, <1>9, <1>10

\* The packet is sent: it is the last one on the wire.
LEMMA SentFollows ==
    ASSUME GhostInv, Flagged, Leave, wire' = Append(wire, out),
           UNCHANGED <<protocol, ghostMap, info, copies, clientCache, inbox, cache>>
    PROVE  Flagged' /\ (CopiesFollow => CopiesFollow') /\ (NamesFollow => NamesFollow')
<1>1. out' = <<>> /\ mode' = "idle"
  BY DEF Leave
<1>2. Flagged'
  BY <1>1 DEF Flagged, FlagsMeanWell, NothingHalfWritten
<1>3. wire \in Seq(Seq(Records)) /\ out \in Seq(Records)
  BY StreamTypes
<1>4. ASSUME CopiesFollow PROVE CopiesFollow'
  <2>1. PICK cs \in Slots :
            /\ Journey(Slots, Records, CopySteps, copies, inbox, wire, out, cs)
            /\ Agrees(cs)
    BY <1>4 DEF CopiesFollow
  <2>2. Journey(Slots, Records, CopySteps, copies, inbox, Append(wire, out), <<>>, cs)
    BY <1>3, <2>1, JourneySend
  <2>3. Agrees(cs)'
    BY <2>1 DEF Agrees
  <2> QED BY <1>1, <2>2, <2>3 DEF CopiesFollow
<1>5. ASSUME NamesFollow PROVE NamesFollow'
  <2>1. Journey(Caches, Records, NameSteps, clientCache, inbox, Append(wire, out), <<>>, cache)
    BY <1>3, <1>5, JourneySend DEF NamesFollow
  <2> QED BY <1>1, <1>5, <2>1 DEF NamesFollow
<1> QED BY <1>2, <1>4, <1>5

LEMMA SendPacketFollows ==
    ASSUME GhostInv, Flagged, SendPacket
    PROVE  Flagged' /\ (CopiesFollow => CopiesFollow') /\ (NamesFollow => NamesFollow')
BY SentFollows DEF SendPacket, slotVars, clientVars

\* A rollback that did not define a name for nothing leaves the cache as it was.
LEMMA RunOutOfRoomFollows ==
    ASSUME GhostInv, Flagged, NEW g \in Ghosts, RunOutOfRoom(g), ~polluted'
    PROVE  Flagged' /\ (CopiesFollow => CopiesFollow') /\ (NamesFollow => NamesFollow')
<1>1. cache' = cache
  BY DEF RunOutOfRoom
<1> QED BY <1>1, SentFollows DEF RunOutOfRoom, slotVars, clientVars

\* Only an empty packet may be abandoned.
LEMMA FinalFlagFollows ==
    ASSUME GhostInv, Flagged, FinalFlagThrows, ~lost'
    PROVE  Flagged' /\ (CopiesFollow => CopiesFollow') /\ (NamesFollow => NamesFollow')
<1>1. /\ out = <<>> /\ out' = <<>>
      /\ UNCHANGED <<protocol, ghostMap, info, copies, clientCache, inbox, wire, cache>>
  BY DEF FinalFlagThrows, Leave, slotVars, clientVars
<1>2. Flagged'
  BY <1>1 DEF Flagged, FlagsMeanWell, NothingHalfWritten
<1>3. ASSUME NEW cs \in Slots, Agrees(cs) PROVE Agrees(cs)'
  BY <1>1, <1>3 DEF Agrees
<1> QED BY <1>1, <1>2, <1>3, CopiesKept, NamesKept

-----------------------------------------------------------------------------
\* The client's steps.  The record at the head of the packet is understood, and
\* what is left leads on from the copies as they are then.
LEMMA NextIsUnderstood ==
    ASSUME GhostInv, CopiesFollow, inbox # <<>>
    PROVE  /\ Understood(copies, Record) /\ Whole(copies, Record)
           /\ \E cs \in Slots :
                 /\ Journey(Slots, Records, CopySteps, Applied(copies, Record),
                            Tail(inbox), wire, out, cs)
                 /\ Agrees(cs)
<1>1. PICK cs \in Slots :
          /\ Journey(Slots, Records, CopySteps, copies, inbox, wire, out, cs)
          /\ Agrees(cs)
  BY DEF CopiesFollow
<1>2. PICK next \in Slots :
          /\ <<copies, Head(inbox), next>> \in CopySteps
          /\ Journey(Slots, Records, CopySteps, next, Tail(inbox), wire, out, cs)
  BY <1>1, StreamTypes, JourneyRead
<1>3. /\ Understood(copies, Record) /\ Whole(copies, Record)
      /\ next = Applied(copies, Record)
  BY <1>2 DEF CopySteps, Record
<1> QED BY <1>1, <1>2, <1>3

LEMMA NextIsDecoded ==
    ASSUME GhostInv, NamesFollow, inbox # <<>>
    PROVE  /\ Record.kind = "new" =>
                 /\ DecodedName = Prototype[Record.ghost]
                 /\ Journey(Caches, Records, NameSteps, AfterRead(clientCache, Record.name),
                            Tail(inbox), wire, out, cache)
           /\ Record.kind # "new" =>
                 Journey(Caches, Records, NameSteps, clientCache, Tail(inbox), wire, out, cache)
<1>1. PICK next \in Caches :
          /\ <<clientCache, Head(inbox), next>> \in NameSteps
          /\ Journey(Caches, Records, NameSteps, next, Tail(inbox), wire, out, cache)
  BY StreamTypes, JourneyRead DEF NamesFollow
<1>2. IF Record.kind = "new"
      THEN DecodedName = Prototype[Record.ghost] /\ next = AfterRead(clientCache, Record.name)
      ELSE next = clientCache
  BY <1>1 DEF NameSteps, Record, DecodedName
<1> QED BY <1>1, <1>2

\* A record that is understood and decoded is neither misread nor thrown at.
LEMMA NoneIsMistaken ==
    ASSUME GhostInv, CopiesFollow,
           Reading => (Record.kind = "new" => DecodedName = Prototype[Record.ghost])
    PROVE  ~ReadThrows /\ ~Misread
<1> SUFFICES ASSUME Reading PROVE ~ReadThrows /\ ~Misread
  BY DEF ReadThrows, Misread
<1>1. Understood(copies, Record)
  BY NextIsUnderstood DEF Reading
<1>2. Record \in Records
  BY RecordFacts
<1>3. Record.kind \in {"kill", "update", "new"} /\ Record.ghost \in Ghosts
  BY <1>2 DEF Records
<1>4. IF Record.kind = "new" THEN ~SlotInUse ELSE SlotInUse
  BY <1>1 DEF Understood, SlotInUse
<1>5. Prototype[Record.ghost] # NoString
  BY <1>3, GhostAssumption, CacheAssumption
<1> QED BY <1>3, <1>4, <1>5 DEF ReadThrows, Misread

\* Reading a record does to the copies what it says.
LEMMA ReadApplies ==
    ASSUME GhostInv, ReadKill \/ ReadUpdate \/ ReadNew
    PROVE  copies' = Applied(copies, Record)
<1>1. CASE ReadKill
  BY <1>1 DEF ReadKill, Applied
<1>2. CASE ReadUpdate
  BY <1>2 DEF ReadUpdate, Applied
<1>3. CASE ReadNew
  BY <1>3 DEF ReadNew, Applied
<1> QED BY <1>1, <1>2, <1>3

\* What every step of the client leaves alone.
LEMMA ClientLeaves ==
    ASSUME UNCHANGED <<gameVars, protocol, slotVars, queryVars, writeVars, cache>>,
           Flagged
    PROVE  /\ UNCHANGED <<protocol, ghostMap, info, out, cache>> /\ Flagged'
           /\ \A cs : Agrees(cs) => Agrees(cs)'
<1>1. UNCHANGED <<protocol, ghostMap, info, out, cache, mode>>
  BY DEF slotVars, writeVars
<1>2. Flagged'
  BY <1>1 DEF Flagged, FlagsMeanWell, NothingHalfWritten
<1>3. ASSUME NEW cs, Agrees(cs) PROVE Agrees(cs)'
  BY <1>1, <1>3 DEF Agrees
<1> QED BY <1>1, <1>2, <1>3

LEMMA BeginReadFollows ==
    ASSUME GhostInv, Flagged, BeginRead
    PROVE  Flagged' /\ (CopiesFollow => CopiesFollow') /\ (NamesFollow => NamesFollow')
<1>1. /\ inbox = <<>> /\ wire # <<>> /\ inbox' = Head(wire) /\ wire' = Tail(wire)
      /\ UNCHANGED <<copies, clientCache>>
      /\ UNCHANGED <<gameVars, protocol, slotVars, queryVars, writeVars, cache>>
  BY DEF BeginRead
<1>2. /\ UNCHANGED <<out, cache>> /\ Flagged'
      /\ \A cs : Agrees(cs) => Agrees(cs)'
  BY <1>1, ClientLeaves
<1>3. wire \in Seq(Seq(Records)) /\ copies \in Slots /\ clientCache \in Caches
  BY StreamTypes
<1>4. ASSUME CopiesFollow PROVE CopiesFollow'
  <2>1. PICK cs \in Slots :
            /\ Journey(Slots, Records, CopySteps, copies, inbox, wire, out, cs)
            /\ Agrees(cs)
    BY <1>4 DEF CopiesFollow
  <2>2. Journey(Slots, Records, CopySteps, copies, Head(wire), Tail(wire), out, cs)
    BY <1>1, <1>3, <2>1, JourneyTake
  <2>3. Agrees(cs)'
    BY <1>2, <2>1
  <2> QED BY <1>1, <1>2, <2>2, <2>3 DEF CopiesFollow
<1>5. ASSUME NamesFollow PROVE NamesFollow'
  <2>1. Journey(Caches, Records, NameSteps, clientCache, Head(wire), Tail(wire), out, cache)
    BY <1>1, <1>3, <1>5, JourneyTake DEF NamesFollow
  <2> QED BY <1>1, <1>2, <1>5, <2>1 DEF NamesFollow
<1> QED BY <1>2, <1>4, <1>5

LEMMA ReadFollows ==
    ASSUME GhostInv, Flagged, CopiesFollow, ReadKill \/ ReadUpdate \/ ReadNew
    PROVE  Flagged' /\ CopiesFollow' /\ (NamesFollow => NamesFollow')
<1>1. /\ inbox # <<>> /\ inbox' = Tail(inbox) /\ UNCHANGED serverVars
      /\ IF Record.kind = "new" THEN clientCache' = AfterRead(clientCache, Record.name)
         ELSE clientCache' = clientCache
  BY DEF ReadKill, ReadUpdate, ReadNew, Reading
<1>2. UNCHANGED <<gameVars, protocol, slotVars, queryVars, writeVars, cache, wire>>
  BY <1>1 DEF serverVars
<1>3. /\ UNCHANGED <<out, cache>> /\ Flagged' /\ wire' = wire
      /\ \A cs : Agrees(cs) => Agrees(cs)'
  BY <1>2, ClientLeaves
<1>4. copies' = Applied(copies, Record)
  BY ReadApplies
<1>5. CopiesFollow'
  <2>1. PICK cs \in Slots :
            /\ Journey(Slots, Records, CopySteps, Applied(copies, Record),
                       Tail(inbox), wire, out, cs)
            /\ Agrees(cs)
    BY <1>1, NextIsUnderstood
  <2>2. Agrees(cs)'
    BY <1>3, <2>1
  <2> QED BY <1>1, <1>3, <1>4, <2>1, <2>2 DEF CopiesFollow
<1>6. ASSUME NamesFollow PROVE NamesFollow'
  BY <1>1, <1>3, <1>6, NextIsDecoded DEF NamesFollow
<1> QED BY <1>3, <1>5, <1>6

-----------------------------------------------------------------------------
\* Unless a packet with side effects was abandoned or a name rolled back, the
\* client is being led to where the server reckons it is.
StepInv ==
    /\ GhostInv /\ Flagged
    /\ Undamaged => ~confused /\ CopiesFollow /\ NamesFollow

LEMMA StepInit == Init => StepInv
<1>1. Init => GhostInv
  BY GhostInit
<1>2. Init => CopiesFollow /\ NamesFollow /\ Flagged
  BY FollowInit DEF Flagged
<1> QED BY <1>1, <1>2 DEF Init, StepInv

LEMMA StepNext == StepInv /\ [Next]_vars => StepInv'
<1> SUFFICES ASSUME StepInv, [Next]_vars PROVE StepInv'
  OBVIOUS
<1>1. GhostInv /\ Flagged /\ GhostInv'
  BY GhostNext DEF StepInv
<1> SUFFICES Flagged' /\ (Undamaged' => ~confused' /\ CopiesFollow' /\ NamesFollow')
  BY <1>1 DEF StepInv
<1>2. CASE Game
  <2>1. UNCHANGED <<clientCache, inbox, wire, out, cache, confused, lost, polluted>>
    BY <1>2 DEF Game, ChangeProperty, ChangeScope, writeVars, clientVars
  <2> QED BY <1>1, <1>2, <2>1, GameFollows, NamesKept DEF StepInv, Undamaged
<1>3. ASSUME NEW g \in Ghosts, CheckTrackedProperties(g)
      PROVE  Flagged' /\ (Undamaged' => ~confused' /\ CopiesFollow' /\ NamesFollow')
  <2>1. UNCHANGED <<clientCache, inbox, wire, out, cache, confused, lost, polluted>>
    BY <1>3 DEF CheckTrackedProperties, writeVars, clientVars
  <2> QED BY <1>1, <1>3, <2>1, CheckFollows, NamesKept DEF StepInv, Undamaged
<1>4. ASSUME NEW room \in Rooms, BeginPacket(room)
      PROVE  Flagged' /\ (Undamaged' => ~confused' /\ CopiesFollow' /\ NamesFollow')
  <2>1. UNCHANGED <<clientCache, inbox, wire, out, cache, confused, lost, polluted>>
    BY <1>4 DEF BeginPacket, clientVars
  <2>2. room \in Nat
    BY GhostAssumption
  <2> QED BY <1>1, <1>4, <2>1, <2>2, BeginPacketFollows, NamesKept DEF StepInv, Undamaged
<1>5. ASSUME NEW g \in Ghosts, AttachGhost(g) \/ RefreshPriority(g)
      PROVE  Flagged' /\ (Undamaged' => ~confused' /\ CopiesFollow' /\ NamesFollow')
  <2>1. UNCHANGED <<clientCache, inbox, wire, out, cache, confused, lost, polluted>>
    BY <1>5 DEF AttachGhost, RefreshPriority, writeVars, clientVars
  <2> QED BY <1>1, <1>5, <2>1, AttachGhostFollows, RefreshPriorityFollows, NamesKept
          DEF StepInv, Undamaged
<1>6. CASE BuildPendingUpdates
  <2>1. UNCHANGED <<clientCache, inbox, wire, out, cache, confused, lost, polluted>>
    BY <1>6 DEF BuildPendingUpdates, clientVars
  <2> QED BY <1>1, <1>6, <2>1, BuildPendingFollows, NamesKept DEF StepInv, Undamaged
<1>7. ASSUME NEW g \in Ghosts, WriteKill(g) \/ WriteUpdate(g)
      PROVE  Flagged' /\ (Undamaged' => ~confused' /\ CopiesFollow' /\ NamesFollow')
  <2>1. UNCHANGED <<confused, lost, polluted>>
    BY <1>7 DEF WriteKill, WriteUpdate, clientVars
  <2> QED BY <1>1, <1>7, <2>1, WriteKillFollows, WriteUpdateFollows DEF StepInv, Undamaged
<1>8. ASSUME NEW g \in Ghosts, RunOutOfRoom(g)
      PROVE  Flagged' /\ (Undamaged' => ~confused' /\ CopiesFollow' /\ NamesFollow')
  <2>1. Undamaged' => Undamaged /\ ~polluted'
    BY <1>8 DEF RunOutOfRoom, Undamaged
  <2>2. confused' = confused
    BY <1>8 DEF RunOutOfRoom, clientVars
  <2>3. Flagged'
    BY <1>1, <1>8 DEF RunOutOfRoom, Leave, slotVars, Flagged, FlagsMeanWell,
                      NothingHalfWritten
  <2> QED BY <1>1, <1>8, <2>1, <2>2, <2>3, RunOutOfRoomFollows DEF StepInv
<1>9. CASE SendPacket
  <2>1. UNCHANGED <<confused, lost, polluted>>
    BY <1>9 DEF SendPacket, clientVars
  <2> QED BY <1>1, <1>9, <2>1, SendPacketFollows DEF StepInv, Undamaged
<1>10. CASE FinalFlagThrows
  <2>1. Undamaged' => Undamaged /\ ~lost'
    BY <1>10 DEF FinalFlagThrows, Undamaged
  <2>2. confused' = confused
    BY <1>10 DEF FinalFlagThrows, clientVars
  <2>3. Flagged'
    BY <1>1, <1>10 DEF FinalFlagThrows, Leave, slotVars, Flagged, FlagsMeanWell,
                      NothingHalfWritten
  <2> QED BY <1>1, <1>10, <2>1, <2>2, <2>3, FinalFlagFollows DEF StepInv
<1>11. CASE BeginRead
  <2>1. UNCHANGED <<confused, lost, polluted>>
    BY <1>11 DEF BeginRead
  <2> QED BY <1>1, <1>11, <2>1, BeginReadFollows DEF StepInv, Undamaged
<1>12. CASE ReadKill \/ ReadUpdate \/ ReadNew
  <2>1. UNCHANGED <<confused, lost, polluted>> /\ UNCHANGED serverVars
    BY <1>12 DEF ReadKill, ReadUpdate, ReadNew, serverVars
  <2>2. Flagged'
    BY <1>1, <2>1, ClientLeaves DEF serverVars
  <2> QED BY <1>1, <1>12, <2>1, <2>2, ReadFollows DEF StepInv, Undamaged
<1>13. CASE ReadThrows \/ Misread
  <2>1. UNCHANGED <<lost, polluted>> /\ UNCHANGED serverVars
    BY <1>13 DEF ReadThrows, Misread, serverVars
  <2>2. Flagged'
    BY <1>1, <2>1, ClientLeaves DEF serverVars
  <2>3. ASSUME Undamaged PROVE FALSE
    <3>1. CopiesFollow /\ NamesFollow
      BY <2>3 DEF StepInv
    <3>2. Reading => (Record.kind = "new" => DecodedName = Prototype[Record.ghost])
      BY <1>1, <3>1, NextIsDecoded DEF Reading
    <3> QED BY <1>1, <1>13, <3>1, <3>2, NoneIsMistaken
  <2> QED BY <2>1, <2>2, <2>3 DEF Undamaged
<1>14. CASE UNCHANGED vars
  <2>1. /\ UNCHANGED <<protocol, ghostMap, info, copies, inbox, wire, out, mode,
                       clientCache, cache, confused, lost, polluted>>
    BY <1>14 DEF vars, slotVars, writeVars, clientVars
  <2>2. Flagged'
    BY <1>1, <2>1 DEF Flagged, FlagsMeanWell, NothingHalfWritten
  <2>3. ASSUME NEW cs \in Slots, Agrees(cs) PROVE Agrees(cs)'
    BY <2>1, <2>3 DEF Agrees
  <2>4. CopiesFollow => CopiesFollow'
    BY <2>1, <2>3, CopiesKept
  <2>5. NamesFollow => NamesFollow'
    BY <2>1, NamesKept
  <2> QED BY <2>1, <2>2, <2>4, <2>5 DEF StepInv, Undamaged
<1> QED BY <1>2, <1>3, <1>4, <1>5, <1>6, <1>7, <1>8, <1>9, <1>10, <1>11, <1>12, <1>13,
           <1>14 DEF Next, WritePacket, ReadPacket

LEMMA StepInvariant == Spec => []StepInv
<1> QED BY StepInit, StepNext, PTL DEF Spec

\* The client that follows takes the next record for what it is.
LEMMA FollowingIsInStep ==
    ASSUME GhostInv, CopiesFollow,
           inbox # <<>> => (Record.kind = "new" => DecodedName = Prototype[Record.ghost])
    PROVE  ClientInStep
<1> SUFFICES ASSUME inbox # <<>>
             PROVE  IF Record.kind = "new"
                    THEN ~SlotInUse /\ DecodedName = Prototype[Record.ghost]
                    ELSE SlotInUse /\ copies[Record.id].ghost = Record.ghost
  BY DEF ClientInStep
<1>1. Understood(copies, Record)
  BY NextIsUnderstood
<1> QED BY <1>1 DEF Understood, SlotInUse

\* With nothing under way, the client has the copies the server reckons with.
LEMMA SettledIsInAgreement ==
    ASSUME GhostInv, Flagged, CopiesFollow
    PROVE  DirtyFlagsTellTheTruth
<1> SUFFICES ASSUME Settled
             PROVE  Agrees(copies)
  BY DEF DirtyFlagsTellTheTruth, Agrees
<1>1. inbox = <<>> /\ wire = <<>> /\ out = <<>>
  BY DEF Settled, Flagged, NothingHalfWritten
<1>2. PICK cs \in Slots :
          /\ Journey(Slots, Records, CopySteps, copies, inbox, wire, out, cs)
          /\ Agrees(cs)
  BY DEF CopiesFollow
<1>3. copies = cs
  BY <1>1, <1>2, StreamTypes, JourneyEnd
<1> QED BY <1>2, <1>3

\* The client takes every record for what it is, for every number of ghosts,
\* slots, fields, strings and packets in flight, although a packet does not say
\* what it is about and slots are reused (GhostManager.as:103-120, 165-206).
THEOREM ClientAlwaysInStep == Spec => []ClientInStep
<1>1. StepInv => ClientInStep
  <2> SUFFICES ASSUME StepInv, Undamaged PROVE ClientInStep
    BY DEF ClientInStep
  <2> QED BY FollowingIsInStep, NextIsDecoded DEF StepInv
<1> QED BY <1>1, StepInvariant, PTL

\* Once everything sent is read, the client has exactly the ghosts the server
\* thinks it has, and differs from it only in fields marked dirty
\* (GhostManager.as:135-138, Ghost.as:167-204, GhostInfo.as:56-68).
THEOREM DirtyFlagsAlwaysTrue == Spec => []DirtyFlagsTellTheTruth
<1>1. StepInv => DirtyFlagsTellTheTruth
  <2> SUFFICES ASSUME StepInv, Undamaged PROVE DirtyFlagsTellTheTruth
    BY DEF DirtyFlagsTellTheTruth
  <2> QED BY SettledIsInAgreement DEF StepInv
<1> QED BY <1>1, StepInvariant, PTL

-----------------------------------------------------------------------------
(* The mirror.  Every step tells the client nothing, to hide a ghost, or   *)
(* to show the state that a ghost has now; or the client does what it was  *)
(* told the longest time ago.  A record of a few fields tells a whole      *)
(* state because the copies that it leads to are whole (Whole).            *)

Tidings == [slot : GhostIds, copy : Copies \cup {Empty}]

TellsNothing ==
    UNCHANGED <<Given, Coming, copies>> /\ protocol' \in [Ghosts -> States]

TellsToHide ==
    /\ \E i \in GhostIds :
          /\ Given[i] # Empty
          /\ Given' = [Given EXCEPT ![i] = Empty]
          /\ Coming' = Append(Coming, [slot |-> i, copy |-> Empty])
    /\ UNCHANGED <<protocol, copies>>

TellsToShow ==
    /\ \E i \in GhostIds, g \in Ghosts :
          /\ Given[i] \in {Empty, g} /\ \A j \in GhostIds \ {i} : Given[j] # g
          /\ Given' = [Given EXCEPT ![i] = g]
          /\ Coming' = Append(Coming, [slot |-> i,
                                       copy |-> [ghost |-> g, state |-> protocol[g]]])
    /\ UNCHANGED <<protocol, copies>>

DoesAsTold ==
    /\ Coming # <<>>
    /\ copies' = [copies EXCEPT ![Head(Coming).slot] = Head(Coming).copy]
    /\ Coming' = Tail(Coming)
    /\ UNCHANGED <<protocol, Given>>

Mirrors == TellsNothing \/ TellsToHide \/ TellsToShow \/ DoesAsTold

\* A sequence of records is a sequence of things to show, one for each.
LEMMA TellingsType ==
    ASSUME NEW s \in Seq(Records)
    PROVE  Tellings(s) \in Seq(Tidings) /\ Len(Tellings(s)) = Len(s)
<1>1. \A r \in Records : Told(r) \in Tidings
  <2> SUFFICES ASSUME NEW r \in Records PROVE Told(r) \in Tidings
    OBVIOUS
  <2>1. /\ r.id \in GhostIds /\ r.ghost \in Ghosts
        /\ r.kind # "kill" => r.state \in States
    BY DEF Records
  <2>2. r.kind # "kill" => [ghost |-> r.ghost, state |-> r.state] \in Copies
    BY <2>1 DEF Copies
  <2> QED BY <2>1, <2>2 DEF Told, Tidings
<1>2. \A k \in 1 .. Len(s) : Told(s[k]) \in Tidings
  <2>1. \A k \in 1 .. Len(s) : s[k] \in Records
    OBVIOUS
  <2> QED BY <1>1, <2>1
<1>3. Len(s) \in Nat
  OBVIOUS
<1> QED BY <1>2, <1>3 DEF Tellings

LEMMA TellingsMore ==
    ASSUME NEW s \in Seq(Records), NEW r \in Records
    PROVE  Tellings(Append(s, r)) = Append(Tellings(s), Told(r))
<1>1. /\ Append(s, r) \in Seq(Records) /\ Len(Append(s, r)) = Len(s) + 1
      /\ Len(s) \in Nat /\ Append(s, r)[Len(s) + 1] = r
      /\ \A k \in 1 .. Len(s) : Append(s, r)[k] = s[k]
  OBVIOUS
<1>2. /\ Tellings(s) \in Seq(Tidings) /\ Len(Tellings(s)) = Len(s)
      /\ \A k \in 1 .. Len(s) : Tellings(s)[k] = Told(s[k])
  BY TellingsType DEF Tellings
<1>3. /\ Tellings(Append(s, r)) \in Seq(Tidings)
      /\ Len(Tellings(Append(s, r))) = Len(s) + 1
      /\ \A k \in 1 .. Len(s) + 1 : Tellings(Append(s, r))[k] = Told(Append(s, r)[k])
  BY <1>1, TellingsType DEF Tellings
<1>4. Told(r) \in Tidings
  <2>1. Tellings(Append(s, r))[Len(s) + 1] = Told(r)
    BY <1>1, <1>3
  <2> QED BY <1>1, <1>3, <2>1, ElementOfSeq
<1>5. PICK t, u, d : /\ t = Tellings(s) /\ u = Tellings(Append(s, r)) /\ d = Told(r)
  OBVIOUS
<1>6. /\ Append(t, d) \in Seq(Tidings) /\ Len(Append(t, d)) = Len(s) + 1
      /\ \A k \in 1 .. Len(s) : Append(t, d)[k] = t[k]
      /\ Append(t, d)[Len(s) + 1] = d
  BY <1>2, <1>4, <1>5
<1>7. \A k \in 1 .. Len(s) + 1 : u[k] = Append(t, d)[k]
  <2> SUFFICES ASSUME NEW k \in 1 .. Len(s) + 1 PROVE u[k] = Append(t, d)[k]
    OBVIOUS
  <2>1. CASE k = Len(s) + 1
    BY <1>1, <1>3, <1>5, <1>6, <2>1
  <2>2. CASE k # Len(s) + 1
    <3>1. k \in 1 .. Len(s)
      BY <1>1, <2>2
    <3> QED BY <1>1, <1>2, <1>3, <1>5, <1>6, <3>1
  <2> QED BY <2>1, <2>2
<1> QED BY <1>3, <1>5, <1>6, <1>7, SeqEqual

LEMMA TellingsLess ==
    ASSUME NEW s \in Seq(Records), s # <<>>
    PROVE  /\ Tellings(s) # <<>> /\ Head(Tellings(s)) = Told(Head(s))
           /\ Tail(Tellings(s)) = Tellings(Tail(s))
<1>1. Len(s) \in Nat \ {0} /\ Len(Tail(s)) = Len(s) - 1
      /\ \A k \in 1 .. Len(s) - 1 : Tail(s)[k] = s[k + 1]
  OBVIOUS
<1> QED BY <1>1 DEF Tellings

\* What comes first in a join is what comes first in its first part.
LEMMA JoinFirst ==
    ASSUME NEW I, NEW u \in Seq(I), NEW v \in Seq(I), u # <<>>
    PROVE  /\ u \o v \in Seq(I) /\ u \o v # <<>> /\ Tail(u) \in Seq(I)
           /\ Head(u \o v) = Head(u) /\ Tail(u \o v) = Tail(u) \o v
<1>1. PICK m, n \in Nat : m = Len(u) /\ n = Len(v) /\ m # 0
  OBVIOUS
<1>2. /\ u \o v \in Seq(I) /\ Len(u \o v) = m + n
      /\ \A k \in 1 .. m + n : (u \o v)[k] = IF k <= m THEN u[k] ELSE v[k - m]
  BY <1>1, ConcatProperties
<1>3. /\ u \o v # <<>>
      /\ Head(u \o v) = (u \o v)[1] /\ Tail(u \o v) \in Seq(I)
      /\ Len(Tail(u \o v)) = (m + n) - 1
      /\ \A k \in 1 .. (m + n) - 1 : Tail(u \o v)[k] = (u \o v)[k + 1]
  <2>1. u \o v # <<>>
    BY <1>1, <1>2
  <2> QED BY <1>2, <2>1, HeadTailProperties
<1>4. /\ Head(u) = u[1] /\ Tail(u) \in Seq(I) /\ Len(Tail(u)) = m - 1
      /\ \A k \in 1 .. m - 1 : Tail(u)[k] = u[k + 1]
  BY <1>1, HeadTailProperties
<1>5. /\ Tail(u) \o v \in Seq(I) /\ Len(Tail(u) \o v) = (m - 1) + n
      /\ \A k \in 1 .. (m - 1) + n :
            (Tail(u) \o v)[k] = IF k <= m - 1 THEN Tail(u)[k] ELSE v[k - (m - 1)]
  BY <1>1, <1>4, ConcatProperties
<1>6. Head(u \o v) = Head(u)
  BY <1>1, <1>2, <1>3, <1>4
<1>7. ASSUME NEW k \in 1 .. (m + n) - 1
      PROVE  Tail(u \o v)[k] = (Tail(u) \o v)[k]
  <2>1. k + 1 \in 1 .. m + n /\ k \in 1 .. (m - 1) + n
    BY <1>1
  <2>2. Tail(u \o v)[k] = (u \o v)[k + 1]
    BY <1>3
  <2>3. CASE k <= m - 1
    <3>1. k + 1 <= m /\ k \in 1 .. m - 1
      BY <1>1, <2>3
    <3>2. (u \o v)[k + 1] = u[k + 1]
      BY <1>2, <2>1, <3>1
    <3>3. (Tail(u) \o v)[k] = Tail(u)[k]
      BY <1>5, <2>1, <2>3
    <3> QED BY <1>4, <2>2, <3>1, <3>2, <3>3
  <2>4. CASE ~(k <= m - 1)
    <3>1. ~(k + 1 <= m) /\ (k + 1) - m = k - (m - 1)
      BY <1>1, <2>4
    <3>2. (u \o v)[k + 1] = v[(k + 1) - m]
      BY <1>2, <2>1, <3>1
    <3>3. (Tail(u) \o v)[k] = v[k - (m - 1)]
      BY <1>5, <2>1, <2>4
    <3> QED BY <2>2, <3>1, <3>2, <3>3, Zenon
  <2> QED BY <2>3, <2>4
<1>8. (m - 1) + n = (m + n) - 1
  BY <1>1
<1>9. Tail(u \o v) = Tail(u) \o v
  BY <1>3, <1>5, <1>7, <1>8, SeqEqual
<1> QED BY <1>2, <1>3, <1>4, <1>6, <1>9

\* What is under way, as the steps of the stream change it.
LEMMA RecordedType ==
    ASSUME GhostInv
    PROVE  /\ FlattenSeq(wire) \in Seq(Records) /\ Recorded \in Seq(Records)
           /\ inbox \in Seq(Records) /\ out \in Seq(Records) /\ wire \in Seq(Seq(Records))
<1>1. FlattenSeq(wire) \in Seq(Records)
  BY StreamTypes, FlattenType
<1> QED BY <1>1, StreamTypes DEF Recorded

LEMMA RecordedMore ==
    ASSUME GhostInv, NEW r \in Records, out' = Append(out, r), UNCHANGED <<inbox, wire>>
    PROVE  Coming' = Append(Coming, Told(r))
<1>1. PICK a, b, c : a = inbox /\ b = FlattenSeq(wire) /\ c = out
  OBVIOUS
<1>2. a \in Seq(Records) /\ b \in Seq(Records) /\ c \in Seq(Records)
  BY <1>1, RecordedType
<1>3. Recorded = (a \o b) \o c /\ Recorded' = (a \o b) \o Append(c, r)
  BY <1>1, <1>2 DEF Recorded
<1>4. a \o b \in Seq(Records)
  BY <1>2
<1>5. \A x, y \in Seq(Records) : x \o Append(y, r) = Append(x \o y, r)
  OBVIOUS
<1>6. Recorded' = Append(Recorded, r)
  BY <1>2, <1>3, <1>4, <1>5, Zenon
<1> QED BY <1>6, RecordedType, TellingsMore DEF Coming

LEMMA RecordedLess ==
    ASSUME GhostInv, inbox # <<>>, inbox' = Tail(inbox), UNCHANGED <<wire, out>>
    PROVE  /\ Coming # <<>> /\ Head(Coming) = Told(Record)
           /\ Coming' = Tail(Coming)
<1>1. PICK a, b, c : a = inbox /\ b = FlattenSeq(wire) /\ c = out
  OBVIOUS
<1>2. a \in Seq(Records) /\ b \in Seq(Records) /\ c \in Seq(Records) /\ a # <<>>
  BY <1>1, RecordedType
<1>3. PICK d \in Seq(Records) : d = b \o c
  <2>1. b \o c \in Seq(Records)
    BY <1>2, ConcatProperties
  <2> QED BY <2>1
<1>4. PICK t \in Seq(Records) : t = Tail(a)
  BY <1>2, HeadTailProperties
<1>5. Recorded = a \o d /\ Recorded' = t \o d
  <2>1. a \in Seq(Records) /\ b \in Seq(Records) /\ c \in Seq(Records)
    BY <1>2
  <2>2. t \in Seq(Records) /\ b \in Seq(Records) /\ c \in Seq(Records)
    BY <1>2, <1>4
  <2>3. (a \o b) \o c = a \o (b \o c)
    BY ONLY <2>1, JoinAssociates
  <2>4. (t \o b) \o c = t \o (b \o c)
    BY ONLY <2>2, JoinAssociates
  <2> QED BY <1>1, <1>3, <1>4, <2>3, <2>4 DEF Recorded
<1>6. /\ a \o d \in Seq(Records) /\ a \o d # <<>> /\ Head(a \o d) = Head(a)
      /\ Tail(a \o d) = t \o d
  BY ONLY <1>2, <1>3, <1>4, JoinFirst
<1>7. /\ Tellings(a \o d) # <<>> /\ Head(Tellings(a \o d)) = Told(Head(a))
      /\ Tail(Tellings(a \o d)) = Tellings(t \o d)
  BY <1>6, TellingsLess
<1> QED BY <1>1, <1>5, <1>7 DEF Coming, Record

LEMMA RecordedSent ==
    ASSUME GhostInv, wire' = Append(wire, out), out' = <<>>, inbox' = inbox
    PROVE  Coming' = Coming
<1>1. FlattenSeq(Append(wire, out)) = FlattenSeq(wire) \o out
  BY RecordedType, FlattenAppend
<1>2. PICK a, b, c : a = inbox /\ b = FlattenSeq(wire) /\ c = out
  OBVIOUS
<1>3. a \in Seq(Records) /\ b \in Seq(Records) /\ c \in Seq(Records)
  BY <1>2, RecordedType
<1>4. (a \o b) \o c = a \o (b \o c) /\ a \o (b \o c) \o <<>> = a \o (b \o c)
  <2>1. b \o c \in Seq(Records)
    BY <1>3, ConcatProperties, Zenon
  <2>2. a \o (b \o c) \in Seq(Records)
    BY <1>3, <2>1, ConcatProperties, Zenon
  <2>3. (a \o b) \o c = a \o (b \o c)
    BY ONLY <1>3, JoinAssociates
  <2>4. (a \o (b \o c)) \o <<>> = a \o (b \o c)
    BY <2>2, ConcatEmptySeq, Zenon
  <2> QED BY <2>3, <2>4
<1> QED BY <1>1, <1>2, <1>4 DEF Coming, Recorded

LEMMA RecordedTaken ==
    ASSUME GhostInv, inbox = <<>>, wire # <<>>, inbox' = Head(wire), wire' = Tail(wire),
           out' = out
    PROVE  Coming' = Coming
<1>1. /\ FlattenSeq(wire) = Head(wire) \o FlattenSeq(Tail(wire))
      /\ FlattenSeq(wire) \in Seq(Records)
  BY RecordedType, FlattenFirst
<1>2. <<>> \o FlattenSeq(wire) = FlattenSeq(wire)
  BY <1>1
<1> QED BY <1>1, <1>2 DEF Coming, Recorded

\* A slot that is given holds a ghost with a GhostInfo, and no two the same.
LEMMA GivenGhosts ==
    ASSUME GhostInv
    PROVE  /\ Given \in [GhostIds -> Ghosts \cup {Empty}] /\ Empty \notin Ghosts
           /\ \A i \in GhostIds : ghostMap[i] # Empty =>
                 /\ ghostMap[i] \in Ghosts /\ info[ghostMap[i]] # NoInfo
                 /\ \A j \in GhostIds \ {i} : ghostMap[j] # ghostMap[i]
<1>1. ghostMap \in [GhostIds -> Ghosts \cup {Empty}] /\ SlotsMatchInfos
  BY DEF GhostInv, TypeOK, SlotTypeOK
<1>2. Empty \notin Ghosts
  BY GhostAssumption
<1> QED BY <1>1, <1>2 DEF Given, SlotsMatchInfos

\* A step that keeps the slots and the ghosted flags, and puts nothing into
\* the stream.
LEMMA QuietTells ==
    ASSUME GhostInv, GhostInv', UNCHANGED <<ghostMap, copies, inbox, wire, out>>,
           \A g \in Ghosts : info[g] # NoInfo => info'[g].isGhosted = info[g].isGhosted
    PROVE  TellsNothing
<1>1. protocol' \in [Ghosts -> States]
  BY DEF GhostInv, TypeOK, GameTypeOK
<1>2. Given' = Given
  BY GivenGhosts DEF Given
<1>3. Coming' = Coming
  BY DEF Coming, Recorded
<1> QED BY <1>1, <1>2, <1>3 DEF TellsNothing

\* The game, and the query for what is in scope, tell the client nothing.
LEMMA GameTells ==
    ASSUME GhostInv, GhostInv', Game \/ \E g \in Ghosts : CheckTrackedProperties(g)
    PROVE  TellsNothing
<1>1. UNCHANGED <<ghostMap, copies, inbox, wire, out>>
  BY DEF Game, ChangeProperty, ChangeScope, CheckTrackedProperties, slotVars,
         writeVars, clientVars
<1>2. \A h \in Ghosts : info[h] # NoInfo => info'[h].isGhosted = info[h].isGhosted
  <2>1. CASE Game
    <3>1. info' = info
      BY <2>1 DEF Game, ChangeProperty, ChangeScope, slotVars
    <3> QED BY <3>1
  <2>2. ASSUME NEW g \in Ghosts, CheckTrackedProperties(g)
        PROVE  \A h \in Ghosts : info[h] # NoInfo => info'[h].isGhosted = info[h].isGhosted
    <3>1. \A h \in Ghosts : info[h] # NoInfo => info'[h] = MarkedDirty(h, {g})
      BY <2>2 DEF CheckTrackedProperties
    <3>2. \A h \in Ghosts : info[h] # NoInfo =>
              MarkedDirty(h, {g}).isGhosted = info[h].isGhosted
      BY MarkedFacts
    <3> QED BY <3>1, <3>2
  <2> QED BY <2>1, <2>2
<1> QED BY <1>1, <1>2, QuietTells

LEMMA BeginPacketTells ==
    ASSUME GhostInv, GhostInv', NEW room, BeginPacket(room)
    PROVE  TellsNothing
<1>1. UNCHANGED <<ghostMap, copies, inbox, wire, out>>
  BY DEF BeginPacket, clientVars
<1>2. ASSUME NEW h \in Ghosts, info[h] # NoInfo
      PROVE  info'[h].isGhosted = info[h].isGhosted
  <2>1. PICK gs : gs = Scoped
    OBVIOUS
  <2>2. info'[h] \in {MarkedDirty(h, gs), MarkedForDeath(MarkedDirty(h, gs))}
    BY <1>2, <2>1 DEF BeginPacket
  <2>3. /\ MarkedDirty(h, gs).isGhosted = info[h].isGhosted
        /\ MarkedForDeath(MarkedDirty(h, gs)).isGhosted = MarkedDirty(h, gs).isGhosted
    BY <1>2, MarkedFacts, ZenonT(60)
  <2> QED BY <2>2, <2>3
<1> QED BY <1>1, <1>2, QuietTells

LEMMA RefreshTells ==
    ASSUME GhostInv, GhostInv', NEW g \in Ghosts, RefreshPriority(g)
    PROVE  TellsNothing
<1>1. UNCHANGED <<ghostMap, copies, inbox, wire, out>> /\ info[g] # NoInfo
      /\ info' = [info EXCEPT ![g].priority = scopePriority[g]]
  BY DEF RefreshPriority, writeVars, clientVars
<1>2. info \in [Ghosts -> GhostInfos \cup {NoInfo}]
  BY DEF GhostInv, TypeOK, SlotTypeOK
<1>3. info'[g].isGhosted = info[g].isGhosted
  <2>1. info[g] \in GhostInfos
    BY <1>1, <1>2
  <2>2. info'[g] = [info[g] EXCEPT !.priority = scopePriority[g]]
    BY <1>1, <1>2
  <2> QED BY <2>1, <2>2 DEF GhostInfos
<1>4. \A h \in Ghosts \ {g} : info'[h] = info[h]
  BY <1>1, <1>2
<1> QED BY <1>1, <1>3, <1>4, QuietTells

LEMMA BuildPendingTells ==
    ASSUME GhostInv, GhostInv', BuildPendingUpdates
    PROVE  TellsNothing
<1>1. UNCHANGED <<ghostMap, info, copies, inbox, wire, out>>
  BY DEF BuildPendingUpdates, slotVars, clientVars
<1> QED BY <1>1, QuietTells

\* A ghost that has just got its slot is not given to the client yet.
LEMMA AttachTells ==
    ASSUME GhostInv, GhostInv', NEW g \in Ghosts, AttachGhost(g)
    PROVE  TellsNothing
<1>1. UNCHANGED <<copies, inbox, wire, out>> /\ info[g] = NoInfo
  BY DEF AttachGhost, writeVars, clientVars
<1>2. PICK i \in GhostIds : ghostMap[i] = Empty /\ ghostMap' = [ghostMap EXCEPT ![i] = g]
  BY DEF AttachGhost, FreeSlots
<1>3. /\ info \in [Ghosts -> GhostInfos \cup {NoInfo}]
      /\ ghostMap \in [GhostIds -> Ghosts \cup {Empty}]
  BY DEF GhostInv, TypeOK, SlotTypeOK
<1>4. ~info'[g].isGhosted /\ \A h \in Ghosts \ {g} : info'[h] = info[h]
  BY <1>3 DEF AttachGhost
<1>5. \A j \in GhostIds : ghostMap[j] # g
  BY <1>1, GivenGhosts
<1>6. Given' = Given
  <2>1. ghostMap'[i] = g /\ \A j \in GhostIds \ {i} : ghostMap'[j] = ghostMap[j]
    BY <1>2, <1>3
  <2>2. \A j \in GhostIds :
            (IF ghostMap'[j] # Empty /\ info'[ghostMap'[j]].isGhosted
             THEN ghostMap'[j] ELSE Empty)
            = (IF ghostMap[j] # Empty /\ info[ghostMap[j]].isGhosted
               THEN ghostMap[j] ELSE Empty)
    BY <1>2, <1>4, <1>5, <2>1, GivenGhosts
  <2> QED BY <2>2 DEF Given
<1>7. Coming' = Coming
  BY <1>1 DEF Coming, Recorded
<1>8. protocol' \in [Ghosts -> States]
  BY DEF GhostInv, TypeOK, GameTypeOK
<1> QED BY <1>1, <1>6, <1>7, <1>8 DEF TellsNothing

\* A kill: what is marked for death has been given.
LEMMA KillTells ==
    ASSUME GhostInv, Flagged, NEW g \in Ghosts, WriteKill(g)
    PROVE  TellsToHide
<1>1. info[g] # NoInfo /\ info[g].shouldKill
  BY DEF GhostInv, WriteKill, Current, PendingAreAttached
<1> DEFINE i == SlotOf(g)
           r == [kind |-> "kill", id |-> i, ghost |-> g]
<1>2. i \in GhostIds /\ ghostMap[i] = g /\ g # Empty
  BY <1>1, SlotFound, Constants DEF GhostInv
<1>3. /\ out' = Append(out, r) /\ ghostMap' = [ghostMap EXCEPT ![i] = Empty]
      /\ info' = [info EXCEPT ![g] = NoInfo]
      /\ UNCHANGED <<protocol, copies, inbox, wire>>
  BY DEF WriteKill, clientVars
<1>4. r \in Records /\ Told(r) = [slot |-> i, copy |-> Empty]
  BY <1>2 DEF Records, Told
<1> HIDE DEF i, r
<1>5. /\ info \in [Ghosts -> GhostInfos \cup {NoInfo}]
      /\ ghostMap \in [GhostIds -> Ghosts \cup {Empty}]
  BY DEF GhostInv, TypeOK, SlotTypeOK
<1>6. Coming' = Append(Coming, [slot |-> i, copy |-> Empty])
  BY <1>3, <1>4, RecordedMore
<1>7. Given[i] = g
  BY <1>1, <1>2 DEF Given, Flagged, FlagsMeanWell
<1>8. Given' = [Given EXCEPT ![i] = Empty]
  <2>1. ghostMap'[i] = Empty /\ \A j \in GhostIds \ {i} : ghostMap'[j] = ghostMap[j]
    BY <1>2, <1>3, <1>5
  <2>2. \A j \in GhostIds \ {i} :
            ghostMap[j] # Empty => info'[ghostMap[j]] = info[ghostMap[j]]
    BY <1>2, <1>3, <1>5, GivenGhosts
  <2>3. \A j \in GhostIds :
            (IF ghostMap'[j] # Empty /\ info'[ghostMap'[j]].isGhosted
             THEN ghostMap'[j] ELSE Empty)
            = IF j = i THEN Empty
              ELSE IF ghostMap[j] # Empty /\ info[ghostMap[j]].isGhosted
                   THEN ghostMap[j] ELSE Empty
    BY <2>1, <2>2
  <2> QED BY <1>2, <2>3 DEF Given
<1> QED BY <1>2, <1>3, <1>6, <1>7, <1>8 DEF TellsToHide

\* An update, or a new ghost: the slot was empty or the ghost's, no other is.
LEMMA UpdateTells ==
    ASSUME GhostInv, NEW g \in Ghosts, WriteUpdate(g)
    PROVE  TellsToShow
<1>1. info[g] # NoInfo
  BY DEF GhostInv, WriteUpdate, Current, PendingAreAttached
<1> DEFINE i == SlotOf(g)
           r == UpdateRecord(g)
<1>2. i \in GhostIds /\ ghostMap[i] = g /\ g # Empty
  BY <1>1, SlotFound, Constants DEF GhostInv
<1>3. /\ out' = Append(out, r)
      /\ info' = [info EXCEPT ![g].isGhosted = TRUE, ![g].dirtyFlags = {}]
      /\ UNCHANGED <<ghostMap, protocol, copies, inbox, wire>>
  BY DEF WriteUpdate, clientVars
<1>4. r \in Records /\ r.kind # "kill" /\ r.id = i /\ r.ghost = g /\ r.state = protocol[g]
  BY <1>1, UpdateSays, UpdateFacts
<1> HIDE DEF i, r
<1>5. info \in [Ghosts -> GhostInfos \cup {NoInfo}]
  BY DEF GhostInv, TypeOK, SlotTypeOK
<1>6. Coming' = Append(Coming, [slot |-> i, copy |-> [ghost |-> g, state |-> protocol[g]]])
  BY <1>3, <1>4, RecordedMore DEF Told
<1>7. info'[g].isGhosted /\ \A h \in Ghosts \ {g} : info'[h] = info[h]
  <2>1. info[g] \in GhostInfos
    BY <1>1, <1>5
  <2>2. info'[g] = [info[g] EXCEPT !.isGhosted = TRUE, !.dirtyFlags = {}]
    BY <1>3, <1>5
  <2>3. info'[g].isGhosted
    BY <2>1, <2>2 DEF GhostInfos
  <2> QED BY <1>3, <1>5, <2>3
<1>8. \A j \in GhostIds \ {i} : ghostMap[j] # g
  BY <1>2, GivenGhosts
<1>9. Given[i] \in {Empty, g} /\ \A j \in GhostIds \ {i} : Given[j] # g
  BY <1>2, <1>8 DEF Given
<1>10. Given' = [Given EXCEPT ![i] = g]
  <2>1. \A j \in GhostIds \ {i} :
            ghostMap[j] # Empty => info'[ghostMap[j]] = info[ghostMap[j]]
    BY <1>7, <1>8, GivenGhosts
  <2>2. \A j \in GhostIds :
            (IF ghostMap'[j] # Empty /\ info'[ghostMap'[j]].isGhosted
             THEN ghostMap'[j] ELSE Empty)
            = IF j = i THEN g
              ELSE IF ghostMap[j] # Empty /\ info[ghostMap[j]].isGhosted
                   THEN ghostMap[j] ELSE Empty
    BY <1>2, <1>3, <1>7, <2>1
  <2> QED BY <1>2, <2>2 DEF Given
<1> QED BY <1>2, <1>3, <1>6, <1>9, <1>10 DEF TellsToShow

\* Sending the packet, and taking it off the wire, move what is under way.
LEMMA SendTells ==
    ASSUME GhostInv, GhostInv', SendPacket \/ \E g \in Ghosts : RunOutOfRoom(g)
    PROVE  TellsNothing
<1>1. /\ UNCHANGED <<ghostMap, info, copies, inbox>>
      /\ wire' = Append(wire, out) /\ out' = <<>>
  BY DEF SendPacket, RunOutOfRoom, Leave, slotVars, clientVars
<1>2. Coming' = Coming
  BY <1>1, RecordedSent
<1>3. protocol' \in [Ghosts -> States]
  BY DEF GhostInv, TypeOK, GameTypeOK
<1> QED BY <1>1, <1>2, <1>3 DEF TellsNothing, Given

LEMMA TakingTells ==
    ASSUME GhostInv, GhostInv', BeginRead
    PROVE  TellsNothing
<1>1. /\ UNCHANGED <<ghostMap, info, copies, out>> /\ inbox = <<>> /\ wire # <<>>
      /\ inbox' = Head(wire) /\ wire' = Tail(wire)
  BY DEF BeginRead, slotVars, writeVars
<1>2. Coming' = Coming
  BY <1>1, RecordedTaken
<1>3. protocol' \in [Ghosts -> States]
  BY DEF GhostInv, TypeOK, GameTypeOK
<1> QED BY <1>1, <1>2, <1>3 DEF TellsNothing, Given

\* Only an empty packet is abandoned without damage.
LEMMA FinalFlagTells ==
    ASSUME GhostInv, GhostInv', FinalFlagThrows, ~lost'
    PROVE  TellsNothing
<1>1. /\ UNCHANGED <<ghostMap, info, copies, inbox, wire>> /\ out = <<>> /\ out' = <<>>
  BY DEF FinalFlagThrows, Leave, slotVars, clientVars
<1> QED BY <1>1, QuietTells

\* The slot of an update or of a new ghost holds the ghost afterwards.
LEMMA AppliedGhost ==
    ASSUME NEW cs \in Slots, NEW r \in Records, Understood(cs, r), r.kind # "kill"
    PROVE  Applied(cs, r)[r.id] # Empty /\ Applied(cs, r)[r.id].ghost = r.ghost
<1>1. r.id \in GhostIds /\ r.ghost \in Ghosts /\ r.kind \in {"update", "new"}
      /\ r.state \in States
  BY DEF Records
<1>2. CASE r.kind = "update"
  <2> DEFINE old == cs[r.id]
             new == Updated(old.state, r.fields \ InitialFields, r.state)
  <2>1. old \in Copies /\ old.ghost = r.ghost
    BY <1>1, <1>2 DEF Understood, Slots
  <2>2. new \in States
    BY <1>1, <2>1, UpdatedType DEF Copies
  <2>3. Applied(cs, r)[r.id] = [old EXCEPT !.state = new]
    BY <1>1, <1>2 DEF Applied, Slots
  <2> HIDE DEF old, new
  <2>4. [old EXCEPT !.state = new] \in Copies /\ [old EXCEPT !.state = new].ghost = r.ghost
    BY <2>1, <2>2 DEF Copies
  <2> QED BY <2>3, <2>4, EmptyAssumption
<1>3. CASE r.kind = "new"
  <2> DEFINE new == Updated(Blank, r.fields, r.state)
  <2>1. new \in States
    <3>1. Blank \in States
      BY DEF Blank, States
    <3> QED BY <1>1, <3>1, UpdatedType
  <2>2. Applied(cs, r)[r.id] = [ghost |-> r.ghost, state |-> new]
    BY <1>1, <1>3 DEF Applied, Slots
  <2> HIDE DEF new
  <2>3. [ghost |-> r.ghost, state |-> new] \in Copies
    BY <1>1, <2>1 DEF Copies
  <2> QED BY <2>2, <2>3, EmptyAssumption
<1> QED BY <1>1, <1>2, <1>3

\* The client does what the oldest record tells: after it, the copy has the
\* whole state that the record was written of.
LEMMA ReadDoesAsTold ==
    ASSUME GhostInv, CopiesFollow, ReadKill \/ ReadUpdate \/ ReadNew
    PROVE  DoesAsTold
<1>1. /\ inbox # <<>> /\ inbox' = Tail(inbox) /\ Reading
      /\ UNCHANGED <<wire, out, protocol, ghostMap, info>>
  BY DEF ReadKill, ReadUpdate, ReadNew, Reading, serverVars, slotVars, writeVars
<1>2. Coming # <<>> /\ Head(Coming) = Told(Record) /\ Coming' = Tail(Coming)
  BY <1>1, RecordedLess
<1>3. Record \in Records /\ Record.id \in GhostIds
  BY <1>1, RecordFacts
<1>4. Understood(copies, Record) /\ Whole(copies, Record)
  BY <1>1, NextIsUnderstood
<1>5. copies \in Slots /\ Applied(copies, Record) \in Slots
  BY <1>3, <1>4, StreamTypes, AppliedType
<1>6. copies' = Applied(copies, Record)
  BY ReadApplies
<1> DEFINE c == Applied(copies, Record)[Record.id]
<1>7. Applied(copies, Record) = [copies EXCEPT ![Record.id] = c]
  BY <1>3, <1>5 DEF Applied, Slots
<1>8. c = Told(Record).copy
  <2>1. CASE Record.kind = "kill"
    BY <1>3, <1>5, <2>1 DEF Applied, Told, Slots
  <2>2. CASE Record.kind # "kill"
    <3>1. c.state = Record.state
      BY <1>4, <2>2 DEF Whole
    <3>2. c # Empty /\ c.ghost = Record.ghost
      BY <1>3, <1>4, <1>5, <2>2, AppliedGhost
    <3>3. c \in Copies
      BY <1>3, <1>5, <3>2 DEF Slots
    <3>4. c = [ghost |-> Record.ghost, state |-> Record.state]
      BY <3>1, <3>2, <3>3 DEF Copies
    <3> QED BY <2>2, <3>4 DEF Told
  <2> QED BY <2>1, <2>2
<1>9. Told(Record).slot = Record.id
  BY DEF Told
<1> HIDE DEF c
<1>10. copies' = [copies EXCEPT ![Head(Coming).slot] = Head(Coming).copy]
  BY <1>2, <1>6, <1>7, <1>8, <1>9
<1>11. Given' = Given /\ protocol' = protocol
  BY <1>1 DEF Given
<1> QED BY <1>2, <1>10, <1>11 DEF DoesAsTold

LEMMA GhostStepMirrors ==
    ASSUME StepInv, [Next]_vars, Undamaged'
    PROVE  Undamaged /\ Mirrors
<1>1. GhostInv /\ Flagged /\ GhostInv'
  BY GhostNext DEF StepInv
<1>2. Undamaged
  <2>1. /\ lost' = lost \/ lost' = (lost \/ out # <<>>)
        /\ polluted' = polluted \/ \E g \in Ghosts :
              polluted' = (polluted \/ CacheAfterUpdate(g) # cache)
    <3>1. CASE UNCHANGED vars
      BY <3>1 DEF vars
    <3>2. CASE Game
      BY <3>2 DEF Game, ChangeProperty, ChangeScope
    <3>3. CASE \E g \in Ghosts : CheckTrackedProperties(g)
      BY <3>3 DEF CheckTrackedProperties
    <3>4. CASE WritePacket
      <4>1. CASE \E room \in Rooms : BeginPacket(room)
        BY <4>1 DEF BeginPacket
      <4>2. CASE \E g \in Ghosts : AttachGhost(g) \/ RefreshPriority(g)
        BY <4>2 DEF AttachGhost, RefreshPriority
      <4>3. CASE BuildPendingUpdates
        BY <4>3 DEF BuildPendingUpdates
      <4>4. CASE \E g \in Ghosts : WriteKill(g) \/ WriteUpdate(g)
        BY <4>4 DEF WriteKill, WriteUpdate
      <4>5. CASE \E g \in Ghosts : RunOutOfRoom(g)
        BY <4>5 DEF RunOutOfRoom
      <4>6. CASE SendPacket \/ FinalFlagThrows
        BY <4>6 DEF SendPacket, FinalFlagThrows
      <4> QED BY <3>4, <4>1, <4>2, <4>3, <4>4, <4>5, <4>6 DEF WritePacket
    <3>5. CASE ReadPacket
      BY <3>5 DEF ReadPacket, BeginRead, ReadKill, ReadUpdate, ReadNew, ReadThrows,
                  Misread, serverVars
    <3> QED BY <3>1, <3>2, <3>3, <3>4, <3>5 DEF Next
  <2>2. lost \in BOOLEAN /\ polluted \in BOOLEAN
    BY <1>1 DEF GhostInv, TypeOK, WriteTypeOK
  <2> QED BY <2>1, <2>2 DEF Undamaged
<1>3. CopiesFollow /\ NamesFollow
  BY <1>2 DEF StepInv
<1> SUFFICES Mirrors
  BY <1>2
<1>4. CASE Game \/ \E g \in Ghosts : CheckTrackedProperties(g)
  BY <1>1, <1>4, GameTells DEF Mirrors
<1>5. CASE WritePacket
  <2>1. CASE \E room \in Rooms : BeginPacket(room)
    BY <1>1, <2>1, BeginPacketTells DEF Mirrors
  <2>2. CASE \E g \in Ghosts : AttachGhost(g) \/ RefreshPriority(g)
    BY <1>1, <2>2, AttachTells, RefreshTells DEF Mirrors
  <2>3. CASE BuildPendingUpdates
    BY <1>1, <2>3, BuildPendingTells DEF Mirrors
  <2>4. CASE \E g \in Ghosts : WriteKill(g) \/ WriteUpdate(g)
    BY <1>1, <2>4, KillTells, UpdateTells DEF Mirrors
  <2>5. CASE SendPacket \/ \E g \in Ghosts : RunOutOfRoom(g)
    BY <1>1, <2>5, SendTells DEF Mirrors
  <2>6. CASE FinalFlagThrows
    <3>1. ~lost'
      BY DEF Undamaged
    <3> QED BY <1>1, <2>6, <3>1, FinalFlagTells DEF Mirrors
  <2> QED BY <1>5, <2>1, <2>2, <2>3, <2>4, <2>5, <2>6 DEF WritePacket
<1>6. CASE ReadPacket
  <2>1. CASE BeginRead
    BY <1>1, <2>1, TakingTells DEF Mirrors
  <2>2. CASE ReadKill \/ ReadUpdate \/ ReadNew
    BY <1>1, <1>3, <2>2, ReadDoesAsTold DEF Mirrors
  <2>3. ~ReadThrows /\ ~Misread
    <3>1. Reading => (Record.kind = "new" => DecodedName = Prototype[Record.ghost])
      BY <1>1, <1>3, NextIsDecoded DEF Reading
    <3> QED BY <1>1, <1>3, <3>1, NoneIsMistaken
  <2> QED BY <1>6, <2>1, <2>2, <2>3 DEF ReadPacket
<1>7. CASE UNCHANGED vars
  <2>1. UNCHANGED <<ghostMap, info, copies, inbox, wire, out>>
    BY <1>7 DEF vars, slotVars, writeVars, clientVars
  <2> QED BY <1>1, <2>1, QuietTells DEF Mirrors
<1> QED BY <1>4, <1>5, <1>6, <1>7 DEF Next

LEMMA MirrorStart ==
    Init => /\ protocol \in [Ghosts -> States] /\ Coming = <<>>
            /\ Given = [i \in GhostIds |-> Empty] /\ copies = [i \in GhostIds |-> Empty]
            /\ Undamaged
<1> SUFFICES ASSUME Init
             PROVE  /\ protocol \in [Ghosts -> States] /\ Coming = <<>>
                    /\ Given = [i \in GhostIds |-> Empty]
                    /\ copies = [i \in GhostIds |-> Empty] /\ Undamaged
  OBVIOUS
<1>1. protocol \in [Ghosts -> States]
  BY GhostInit DEF GhostInv, TypeOK, GameTypeOK
<1>2. Coming = <<>>
  <2>1. Recorded = <<>>
    <3>1. inbox = <<>> /\ wire = <<>> /\ out = <<>>
      BY DEF Init
    <3>2. <<>> \o <<>> = <<>>
      OBVIOUS
    <3> QED BY <3>1, <3>2, FlattenEmpty DEF Recorded
  <2> QED BY <2>1 DEF Coming, Tellings
<1>3. Given = [i \in GhostIds |-> Empty]
  BY DEF Init, Given
<1> QED BY <1>1, <1>2, <1>3 DEF Init, Undamaged

\* Ghosting implements GhostMirror, for all ghosts, fields, slots and packets:
\* until a packet with side effects is abandoned or a name rolled back, every
\* step is invisible to the game on the client, or a whole state of one ghost
\* on its way to a slot, or the next such state shown: the safety part of
\* ImplementsMirror (its fairness stays with the model checker)
\* (GhostManager.as:103-142, 165-206; Ghost.as:167-204).
THEOREM GhostsAreMirrored ==
    Spec => /\ Mirror!Init
            /\ [][Mirror!Next]_<<protocol, Given, Coming, copies, ~Undamaged>>
<1>1. Init => Mirror!Init
  BY MirrorStart DEF Mirror!Init
<1>2. StepInv /\ [Next]_vars
        => [Mirror!Next]_<<protocol, Given, Coming, copies, ~Undamaged>>
  <2> SUFFICES ASSUME StepInv, [Next]_vars
               PROVE  [Mirror!Next]_<<protocol, Given, Coming, copies, ~Undamaged>>
    OBVIOUS
  <2>1. CASE ~Undamaged'
    BY <2>1 DEF Mirror!Next
  <2>2. CASE Undamaged'
    <3>1. Undamaged /\ Mirrors /\ (~Undamaged)' = (~Undamaged)
      BY <2>2, GhostStepMirrors
    <3>2. CASE TellsNothing
      BY <3>1, <3>2 DEF TellsNothing, Mirror!Next, Mirror!Change
    <3>3. CASE TellsToHide
      BY <3>1, <3>3 DEF TellsToHide, Mirror!Next, Mirror!Hide
    <3>4. CASE TellsToShow
      BY <3>1, <3>4 DEF TellsToShow, Mirror!Next, Mirror!Show
    <3>5. CASE DoesAsTold
      BY <3>1, <3>5 DEF DoesAsTold, Mirror!Next, Mirror!Receive
    <3> QED BY <3>1, <3>2, <3>3, <3>4, <3>5 DEF Mirrors
  <2> QED BY <2>1, <2>2
<1> QED BY <1>1, <1>2, StepInit, StepNext, PTL DEF Spec

-----------------------------------------------------------------------------
(* GhostConnection.                                                         *)

ConnectionTypes ==
    /\ posted \in Nat /\ queue \in Seq(Nat) /\ processed \in Seq(Nat)
    /\ carried \in Seq(Letters) /\ letters \in Seq(Letters)
    /\ mail \in Seq(Seq(Letters)) /\ Len(mail) = Len(wire)
    /\ begun \in BOOLEAN /\ abandoned \in BOOLEAN

\* Between two packets nothing is half written, and a client that has lost its
\* way has no events left to read.
Tidy == /\ ~begun => mode = "idle" /\ carried = <<>>
        /\ confused => letters = <<>>

ConnectionInv == GhostInv /\ Flagged /\ KnownHeld(cache) /\ ConnectionTypes /\ Tidy

LEMMA ConnectionConstants ==
    /\ EventName \in Strings /\ EventName # NoString
    /\ PacketBits \in Nat
    /\ \A n \in Nat : EventBits(n) \in Nat
<1>1. /\ EventName \in Strings /\ EventName # NoString /\ PacketBits \in Nat
      /\ RefBits \in Nat /\ NameBits \in Nat /\ PayloadBits \in Nat
  BY ConnectionAssumption, GhostAssumption, CacheAssumption
<1> DEFINE each == 1 + RefBits + PayloadBits
<1>2. each \in Nat
  BY <1>1
<1> HIDE DEF each
<1>3. ASSUME NEW n \in Nat PROVE EventBits(n) \in Nat
  <2>1. n * each \in Nat
    BY <1>2
  <2>2. \A a, b \in Nat : a + b \in Nat
    OBVIOUS
  <2>3. (IF n = 0 \/ Knows(cache, EventName) THEN 0 ELSE NameBits) \in Nat
    BY <1>1
  <2> QED BY <2>1, <2>2, <2>3, Zenon DEF EventBits, each
<1> QED BY <1>1, <1>3

LEMMA LettersType ==
    ASSUME NEW l \in Letters
    PROVE  l.name \in CachedStrings /\ l.event \in Nat
BY DEF Letters

-----------------------------------------------------------------------------
\* The events of a packet: how many there are, and what is said of them.
LEMMA WriteEventsFacts ==
    ASSUME ConnectionInv, WriteEvents
    PROVE  \E n \in 0 .. Len(queue) :
               /\ carried' = [k \in 1 .. n |-> [name |-> NameInPacket(k), event |-> queue[k]]]
               /\ queue' = SubSeq(queue, n + 1, Len(queue))
               /\ bits' = PacketBits - EventBits(n) - 1 /\ bits' \in Nat
               /\ cache' = IF n = 0 THEN cache ELSE AfterWrite(cache, EventName)
               /\ carried' \in Seq(Letters) /\ Len(carried') = n
               /\ queue' \in Seq(Nat)
<1>1. PICK n \in EventsThatFit :
          /\ carried' = [k \in 1..n |-> [name |-> NameInPacket(k), event |-> queue[k]]]
          /\ queue' = SubSeq(queue, n + 1, Len(queue))
          /\ bits' = PacketBits - EventBits(n) - 1
          /\ cache' = IF n = 0 THEN cache ELSE AfterWrite(cache, EventName)
  BY DEF WriteEvents
<1>2. queue \in Seq(Nat) /\ cache \in Caches /\ WellLinked(cache)
  BY StreamTypes DEF ConnectionInv, ConnectionTypes, GhostInv
<1>3. n \in 0 .. Len(queue) /\ n \in Nat /\ EventBits(n) < PacketBits
  BY <1>2 DEF EventsThatFit
<1>4. bits' \in Nat
  <2>1. EventBits(n) \in Nat /\ PacketBits \in Nat
    BY <1>3, ConnectionConstants
  <2>2. \A a, b \in Nat : a < b => b - a - 1 \in Nat
    OBVIOUS
  <2> QED BY <1>1, <1>3, <2>1, <2>2, Zenon
<1>5. \A k \in Nat : NameInPacket(k) \in CachedStrings
  <2>1. AfterWrite(cache, EventName) \in Caches /\ WellLinked(AfterWrite(cache, EventName))
    BY <1>2, ConnectionConstants, WriteType, WriteKeepsList
  <2> QED BY <1>2, <2>1, ConnectionConstants, WriteType DEF NameInPacket
<1>6. \A k \in 1 .. n : [name |-> NameInPacket(k), event |-> queue[k]] \in Letters
  BY <1>2, <1>3, <1>5 DEF Letters
<1>7. carried' \in Seq(Letters) /\ Len(carried') = n
  <2> DEFINE l(k) == [name |-> NameInPacket(k), event |-> queue[k]]
  <2>1. carried' = [k \in 1 .. n |-> l(k)] /\ \A k \in 1 .. n : l(k) \in Letters
    BY <1>1, <1>6
  <2> HIDE DEF l
  <2> QED BY <1>3, <2>1
<1>8. queue' \in Seq(Nat)
  <2>1. \A q \in Seq(Nat), k \in Nat : SubSeq(q, k + 1, Len(q)) \in Seq(Nat)
    <3> SUFFICES ASSUME NEW q \in Seq(Nat), NEW k \in Nat
                 PROVE  SubSeq(q, k + 1, Len(q)) \in Seq(Nat)
      OBVIOUS
    <3> QED OBVIOUS
  <2> QED BY <1>1, <1>2, <1>3, <2>1, Zenon
<1> QED BY <1>1, <1>3, <1>4, <1>7, <1>8

LEMMA CacheAfterEvents ==
    ASSUME ConnectionInv, WriteEvents
    PROVE  cache' \in Caches /\ WellLinked(cache') /\ KnownHeld(cache')
<1>1. cache \in Caches /\ WellLinked(cache) /\ KnownHeld(cache)
  BY StreamTypes DEF ConnectionInv, GhostInv
<1>2. cache' \in {cache, AfterWrite(cache, EventName)}
  BY WriteEventsFacts
<1>3. /\ AfterWrite(cache, EventName) \in Caches
      /\ WellLinked(AfterWrite(cache, EventName))
      /\ KnownHeld(AfterWrite(cache, EventName))
  BY <1>1, ConnectionConstants, WriteType, WriteKeepsList, WriteKeepsKnownHeld
<1> QED BY <1>1, <1>2, <1>3

LEMMA WriteEventsStep ==
    ASSUME ConnectionInv, WriteEvents
    PROVE  ConnectionInv'
<1>1. /\ ~begun /\ mode = "idle" /\ begun' = TRUE
      /\ UNCHANGED <<gameVars, protocol>> /\ UNCHANGED slotVars /\ UNCHANGED queryVars
      /\ UNCHANGED <<mode, pending, out, wire, lost, polluted>> /\ UNCHANGED clientVars
      /\ UNCHANGED <<posted, mail, letters, processed, abandoned>>
  BY DEF WriteEvents
<1>2. /\ bits' \in Nat /\ carried' \in Seq(Letters) /\ queue' \in Seq(Nat)
  BY WriteEventsFacts
<1>3. cache' \in Caches /\ WellLinked(cache') /\ KnownHeld(cache')
  BY CacheAfterEvents
<1>4. TypeOK /\ SlotsMatchInfos /\ PendingAreAttached /\ WellLinked(clientCache)
  BY DEF ConnectionInv, GhostInv
<1>5. WriteTypeOK'
  BY <1>1, <1>2, <1>3, <1>4 DEF TypeOK, WriteTypeOK
<1>6. TypeOK'
  BY <1>1, <1>4, <1>5, GameKept, SlotKept, QueryKept, ClientKept DEF TypeOK
<1>7. SlotsMatchInfos'
  BY <1>1, <1>4, SlotsKept DEF slotVars
<1>8. PendingAreAttached' /\ WellLinked(clientCache')
  BY <1>1, <1>4 DEF PendingAreAttached, slotVars, clientVars
<1>9. GhostInv'
  BY <1>3, <1>6, <1>7, <1>8 DEF GhostInv
<1>10. Flagged'
  BY <1>1 DEF ConnectionInv, Flagged, FlagsMeanWell, NothingHalfWritten, slotVars
<1>11. ConnectionTypes' /\ Tidy'
  BY <1>1, <1>2 DEF ConnectionInv, ConnectionTypes, Tidy, clientVars
<1> QED BY <1>3, <1>9, <1>10, <1>11 DEF ConnectionInv

-----------------------------------------------------------------------------
\* The steps of GhostManager, in the room that the events have left.
GhostPart ==
    \/ Game \/ \E g \in Ghosts : CheckTrackedProperties(g)
    \/ \E room \in Nat : BeginPacket(room)
    \/ \E g \in Ghosts : AttachGhost(g) \/ RefreshPriority(g)
    \/ BuildPendingUpdates
    \/ \E g \in Ghosts : WriteKill(g) \/ WriteUpdate(g) \/ RunOutOfRoom(g)
    \/ SendPacket \/ FinalFlagThrows
    \/ ReadPacket

LEMMA GhostPartStep ==
    ASSUME GhostInv, GhostPart
    PROVE  GhostInv'
<1>1. CASE \E room \in Nat : BeginPacket(room)
  BY <1>1, BeginPacketStep
<1>2. CASE ~ \E room \in Nat : BeginPacket(room)
  BY <1>2, GhostNext DEF GhostPart, Next, WritePacket
<1> QED BY <1>1, <1>2

LEMMA GhostPartKeepsFlags ==
    ASSUME GhostInv, Flagged, GhostPart
    PROVE  Flagged'
<1>1. CASE Game \/ \E g \in Ghosts : CheckTrackedProperties(g)
  BY <1>1, GameFollows, CheckFollows
<1>2. CASE \E room \in Nat : BeginPacket(room)
  BY <1>2, BeginPacketFollows
<1>3. CASE \E g \in Ghosts : AttachGhost(g) \/ RefreshPriority(g)
  BY <1>3, AttachGhostFollows, RefreshPriorityFollows
<1>4. CASE BuildPendingUpdates
  BY <1>4, BuildPendingFollows
<1>5. CASE \E g \in Ghosts : WriteKill(g) \/ WriteUpdate(g)
  BY <1>5, WriteKillFollows, WriteUpdateFollows
<1>6. CASE (\E g \in Ghosts : RunOutOfRoom(g)) \/ SendPacket \/ FinalFlagThrows
  BY <1>6 DEF RunOutOfRoom, SendPacket, FinalFlagThrows, Leave, slotVars, Flagged,
              FlagsMeanWell, NothingHalfWritten
<1>7. CASE ReadPacket
  <2>1. UNCHANGED <<gameVars, protocol, slotVars, queryVars, writeVars, cache>>
    BY <1>7 DEF ReadPacket, BeginRead, ReadKill, ReadUpdate, ReadNew, ReadThrows, Misread,
                serverVars
  <2> QED BY <2>1, ClientLeaves
<1> QED BY <1>1, <1>2, <1>3, <1>4, <1>5, <1>6, <1>7 DEF GhostPart

\* The cache is written by updates, sent or rolled back, and by nothing else.
LEMMA GhostPartCache ==
    ASSUME GhostInv, GhostPart
    PROVE  \/ cache' = cache
           \/ \E g \in Ghosts : /\ info[g] # NoInfo /\ cache' = CacheAfterUpdate(g)
                                /\ WriteUpdate(g) \/ RunOutOfRoom(g)
<1>1. CASE \E g \in Ghosts : WriteUpdate(g) \/ RunOutOfRoom(g)
  <2>1. PICK g \in Ghosts : WriteUpdate(g) \/ RunOutOfRoom(g)
    BY <1>1
  <2>2. cache' = CacheAfterUpdate(g) /\ Current(g)
    BY <2>1 DEF WriteUpdate, RunOutOfRoom
  <2>3. info[g] # NoInfo
    BY <2>2 DEF Current, GhostInv, PendingAreAttached
  <2> QED BY <2>1, <2>2, <2>3
<1>2. CASE ~ \E g \in Ghosts : WriteUpdate(g) \/ RunOutOfRoom(g)
  BY <1>2 DEF GhostPart, Game, ChangeProperty, ChangeScope, CheckTrackedProperties,
              BeginPacket, AttachGhost, RefreshPriority, BuildPendingUpdates, WriteKill,
              SendPacket, FinalFlagThrows, ReadPacket, BeginRead, ReadKill, ReadUpdate,
              ReadNew, ReadThrows, Misread, serverVars, writeVars
<1> QED BY <1>1, <1>2

LEMMA GhostPartKeepsKnownHeld ==
    ASSUME GhostInv, GhostPart, KnownHeld(cache)
    PROVE  KnownHeld(cache')
<1>1. ASSUME NEW g \in Ghosts, info[g] # NoInfo PROVE KnownHeld(CacheAfterUpdate(g))
  BY <1>1, UpdateIsDecoded
<1>2. cache' = cache \/ \E g \in Ghosts : info[g] # NoInfo /\ cache' = CacheAfterUpdate(g)
  BY GhostPartCache
<1>3. CASE cache' = cache
  BY <1>3
<1>4. CASE \E g \in Ghosts : info[g] # NoInfo /\ cache' = CacheAfterUpdate(g)
  BY <1>1, <1>4
<1> QED BY <1>2, <1>3, <1>4

LEMMA GhostPartKeeps ==
    ASSUME ConnectionInv, GhostPart, ConnectionTypes', Tidy'
    PROVE  ConnectionInv'
BY GhostPartStep, GhostPartKeepsFlags, GhostPartKeepsKnownHeld DEF ConnectionInv

-----------------------------------------------------------------------------
\* The steps of the connection.
LEMMA ConnectionInitial == ConnectionInit => ConnectionInv
<1> SUFFICES ASSUME ConnectionInit PROVE ConnectionInv
  OBVIOUS
<1>1. GhostInv /\ Flagged /\ KnownHeld(cache)
  BY GhostInit, FollowInit DEF ConnectionInit, Flagged, NamesFollow
<1>2. /\ posted = 0 /\ queue = <<>> /\ begun = FALSE /\ carried = <<>> /\ mail = <<>>
      /\ letters = <<>> /\ processed = <<>> /\ abandoned = FALSE
      /\ mode = "idle" /\ wire = <<>>
  BY DEF ConnectionInit, Init
<1>3. /\ <<>> \in Seq(Nat) /\ <<>> \in Seq(Letters) /\ <<>> \in Seq(Seq(Letters))
  OBVIOUS
<1>4. ConnectionTypes /\ Tidy
  BY <1>2, <1>3 DEF ConnectionTypes, Tidy
<1> QED BY <1>1, <1>4 DEF ConnectionInv

LEMMA PostEventStep ==
    ASSUME ConnectionInv, PostEvent
    PROVE  ConnectionInv'
<1>1. /\ UNCHANGED vars /\ posted' = posted + 1 /\ queue' = Append(queue, posted + 1)
      /\ UNCHANGED <<begun, carried, mail, letters, processed, abandoned>>
  BY DEF PostEvent
<1>2. GhostInv'
  BY <1>1, Stuttering DEF ConnectionInv
<1>3. UNCHANGED <<mode, info, out, cache, wire, confused>>
  BY <1>1 DEF vars, slotVars, writeVars, clientVars
<1>4. Flagged' /\ KnownHeld(cache')
  BY <1>3 DEF ConnectionInv, Flagged, FlagsMeanWell, NothingHalfWritten
<1>5. ConnectionTypes' /\ Tidy'
  BY <1>1, <1>3 DEF ConnectionInv, ConnectionTypes, Tidy
<1> QED BY <1>2, <1>4, <1>5 DEF ConnectionInv

LEMMA PlayStep ==
    ASSUME ConnectionInv, Play
    PROVE  ConnectionInv'
<1>1. UNCHANGED <<mode, wire, confused>> /\ UNCHANGED eventVars
  BY DEF Play, Game, ChangeProperty, ChangeScope, CheckTrackedProperties, writeVars, clientVars
<1>2. ConnectionTypes' /\ Tidy'
  BY <1>1 DEF ConnectionInv, ConnectionTypes, Tidy, eventVars
<1> QED BY <1>2, GhostPartKeeps DEF Play, GhostPart

LEMMA WriteGhostsStep ==
    ASSUME ConnectionInv, WriteGhosts
    PROVE  ConnectionInv'
<1>1. begun /\ UNCHANGED eventVars /\ UNCHANGED <<wire, confused>>
  BY DEF WriteGhosts, BeginPacket, AttachGhost, RefreshPriority, BuildPendingUpdates,
         WriteKill, WriteUpdate, clientVars
<1>2. ConnectionTypes' /\ Tidy'
  BY <1>1 DEF ConnectionInv, ConnectionTypes, Tidy, eventVars
<1>3. bits \in Nat
  BY DEF ConnectionInv, GhostInv, TypeOK, WriteTypeOK
<1>4. GhostPart
  BY <1>3 DEF WriteGhosts, GhostPart
<1> QED BY <1>2, <1>4, GhostPartKeeps

LEMMA TransmitStep ==
    ASSUME ConnectionInv, Transmit
    PROVE  ConnectionInv'
<1>1. /\ wire' = Append(wire, out) /\ mode' = "idle" /\ confused' = confused
      /\ mail' = Append(mail, carried) /\ carried' = <<>> /\ begun' = FALSE
      /\ UNCHANGED <<posted, queue, letters, processed, abandoned>>
  BY DEF Transmit, SendPacket, RunOutOfRoom, Leave, clientVars
<1>2. /\ mail \in Seq(Seq(Letters)) /\ carried \in Seq(Letters)
      /\ wire \in Seq(Seq(Records)) /\ out \in Seq(Records) /\ Len(mail) = Len(wire)
  BY StreamTypes DEF ConnectionInv, ConnectionTypes
<1>3. mail' \in Seq(Seq(Letters)) /\ Len(mail') = Len(wire')
  BY <1>1, <1>2
<1>4. ConnectionTypes' /\ Tidy'
  <2>1. carried' \in Seq(Letters)
    BY <1>1
  <2>2. ConnectionTypes'
    BY <1>1, <1>3, <2>1 DEF ConnectionInv, ConnectionTypes
  <2>3. Tidy'
    BY <1>1 DEF ConnectionInv, Tidy
  <2> QED BY <2>2, <2>3
<1>5. GhostPart
  BY DEF Transmit, GhostPart
<1> QED BY <1>4, <1>5, GhostPartKeeps

LEMMA AbandonStep ==
    ASSUME ConnectionInv, Abandon
    PROVE  ConnectionInv'
<1>1. /\ UNCHANGED <<wire, confused>> /\ mode' = "idle"
      /\ abandoned' = (abandoned \/ carried # <<>>) /\ carried' = <<>> /\ begun' = FALSE
      /\ UNCHANGED <<posted, queue, mail, letters, processed>>
  BY DEF Abandon, FinalFlagThrows, Leave, clientVars
<1>2. abandoned' \in BOOLEAN /\ carried' \in Seq(Letters) /\ begun' \in BOOLEAN
  <2>1. <<>> \in Seq(Letters)
    OBVIOUS
  <2> QED BY <1>1, <2>1
<1>3. ConnectionTypes'
  BY <1>1, <1>2 DEF ConnectionInv, ConnectionTypes
<1>4. Tidy'
  BY <1>1 DEF ConnectionInv, Tidy
<1> QED BY <1>3, <1>4, GhostPartKeeps DEF Abandon, GhostPart

LEMMA BeginToReadStep ==
    ASSUME ConnectionInv, BeginToRead
    PROVE  ConnectionInv'
<1>1. /\ wire # <<>> /\ ~confused /\ wire' = Tail(wire)
      /\ UNCHANGED <<mode, confused>>
      /\ letters' = Head(mail) /\ mail' = Tail(mail)
      /\ UNCHANGED <<posted, queue, begun, carried, processed, abandoned>>
  BY DEF BeginToRead, BeginRead, writeVars
<1>2. /\ mail \in Seq(Seq(Letters)) /\ wire \in Seq(Seq(Records)) /\ Len(mail) = Len(wire)
  BY StreamTypes DEF ConnectionInv, ConnectionTypes
<1>3. mail # <<>>
  BY <1>1, <1>2
<1>4. letters' \in Seq(Letters) /\ mail' \in Seq(Seq(Letters)) /\ Len(mail') = Len(wire')
  BY <1>1, <1>2, <1>3
<1>5. ConnectionTypes'
  BY <1>1, <1>4 DEF ConnectionInv, ConnectionTypes
<1>6. Tidy'
  BY <1>1 DEF ConnectionInv, Tidy
<1> QED BY <1>5, <1>6, GhostPartKeeps DEF BeginToRead, GhostPart, ReadPacket

\* The reader of an event changes its cache, and drops the packet if need be.
LEMMA EventReadStep ==
    ASSUME ConnectionInv, ReadEvent \/ ReadEventThrows
    PROVE  ConnectionInv'
<1>1. /\ letters # <<>> /\ letters' \in {Tail(letters), <<>>}
      /\ inbox' \in {inbox, <<>>} /\ UNCHANGED serverVars /\ UNCHANGED <<copies, confused>>
      /\ clientCache' = AfterRead(clientCache, Head(letters).name)
      /\ processed' \in {processed, Append(processed, Head(letters).event)}
      /\ UNCHANGED <<posted, queue, begun, carried, mail, abandoned>>
  BY DEF ReadEvent, ReadEventThrows
<1>2. /\ letters \in Seq(Letters) /\ inbox \in Seq(Records) /\ clientCache \in Caches
      /\ WellLinked(clientCache) /\ processed \in Seq(Nat)
  BY StreamTypes DEF ConnectionInv, ConnectionTypes, GhostInv
<1>3. Head(letters) \in Letters /\ Tail(letters) \in Seq(Letters)
  BY <1>1, <1>2
<1>4. Head(letters).name \in CachedStrings /\ Head(letters).event \in Nat
  BY <1>3, LettersType
<1>5. clientCache' \in Caches /\ WellLinked(clientCache')
  BY <1>1, <1>2, <1>4, ReadType
<1>6. /\ UNCHANGED <<gameVars, protocol>> /\ UNCHANGED slotVars /\ UNCHANGED queryVars
      /\ UNCHANGED <<writeVars, cache, lost, polluted>> /\ wire' = wire
  BY <1>1 DEF serverVars
<1>7. ClientTypeOK'
  <2>1. <<>> \in Seq(Records)
    OBVIOUS
  <2>2. ClientTypeOK
    BY DEF ConnectionInv, GhostInv, TypeOK
  <2>3. inbox' \in Seq(Records)
    BY <1>1, <1>2, <2>1, Zenon
  <2> QED BY <1>1, <1>5, <2>2, <2>3 DEF ClientTypeOK
<1>8. wire' \in Seq(Seq(Records))
  BY <1>6, StreamTypes DEF ConnectionInv
<1>9. GhostInv'
  BY <1>5, <1>6, <1>7, <1>8, ClientStep DEF ConnectionInv
<1>10. Flagged' /\ KnownHeld(cache')
  BY <1>6, ClientLeaves DEF ConnectionInv
<1>11. letters' \in Seq(Letters) /\ processed' \in Seq(Nat)
  <2>1. Append(processed, Head(letters).event) \in Seq(Nat)
    BY <1>2, <1>4
  <2>2. <<>> \in Seq(Letters)
    OBVIOUS
  <2> QED BY <1>1, <1>2, <1>3, <2>1, <2>2, Zenon
<1>12. ConnectionTypes' /\ Tidy'
  BY <1>1, <1>6, <1>11 DEF ConnectionInv, ConnectionTypes, Tidy, writeVars
<1> QED BY <1>9, <1>10, <1>12 DEF ConnectionInv

LEMMA ReadGhostsStep ==
    ASSUME ConnectionInv, ReadGhosts
    PROVE  ConnectionInv'
<1>1. letters = <<>> /\ UNCHANGED eventVars /\ UNCHANGED serverVars
  BY DEF ReadGhosts, ReadKill, ReadUpdate, ReadNew, ReadThrows, Misread
<1>2. ConnectionTypes' /\ Tidy'
  BY <1>1 DEF ConnectionInv, ConnectionTypes, Tidy, eventVars, serverVars, writeVars
<1> QED BY <1>2, GhostPartKeeps DEF ReadGhosts, GhostPart, ReadPacket

LEMMA ConnectionStutters ==
    ASSUME ConnectionInv, UNCHANGED connectionVars
    PROVE  ConnectionInv'
<1>1. UNCHANGED vars /\ UNCHANGED eventVars
  BY DEF connectionVars
<1>2. GhostInv'
  BY <1>1, Stuttering DEF ConnectionInv
<1>3. UNCHANGED <<mode, info, out, cache, wire, confused>>
  BY <1>1 DEF vars, slotVars, writeVars, clientVars
<1> QED BY <1>1, <1>2, <1>3 DEF ConnectionInv, Flagged, FlagsMeanWell, NothingHalfWritten,
                                ConnectionTypes, Tidy, eventVars

LEMMA ConnectionStep ==
    ConnectionInv /\ [ConnectionNext]_connectionVars => ConnectionInv'
BY PostEventStep, PlayStep, WriteEventsStep, WriteGhostsStep, TransmitStep, AbandonStep,
   BeginToReadStep, EventReadStep, ReadGhostsStep, ConnectionStutters
   DEF ConnectionNext, Send, ReadNext

LEMMA ConnectionInvariant == ConnectionSpec => []ConnectionInv
<1> QED BY ConnectionInitial, ConnectionStep, PTL DEF ConnectionSpec

\* Events and ghosts in the same packets keep every table of the two ends and
\* what is between them typed, and there are as many parts with events under
\* way as parts with ghosts (GhostConnection.as:60-78).
THEOREM ConnectionTypeCorrect == ConnectionSpec => []ConnectionTypeOK
<1>1. ConnectionInv => ConnectionTypeOK
  BY DEF ConnectionInv, GhostInv, ConnectionTypes, ConnectionTypeOK
<1> QED BY <1>1, ConnectionInvariant, PTL

-----------------------------------------------------------------------------
(* A packet with two parts.  S are states of the reader; TL and TR are the *)
(* steps that it takes over an event and over a ghost record, as in Path.  *)

\* The events ls, and then the records rs, lead from a to b.
Leg(S, TL, TR, a, ls, rs, b) ==
    \E m \in S : Path(S, TL, a, ls, m) /\ Path(S, TR, m, rs, b)

Parcels(S, TL, TR) ==
    {t \in S \X (Seq(Letters) \X Seq(Records)) \X S :
        Leg(S, TL, TR, t[1], t[2][1], t[2][2], t[3])}

\* The packets on the wire, with both parts.
Both(ms, ws) == [k \in 1 .. Len(ws) |-> <<ms[k], ws[k]>>]

\* All that is under way leads from a to b.
Way(S, TL, TR, a, b) ==
    \E m, n \in S :
        /\ Leg(S, TL, TR, a, letters, inbox, m)
        /\ Path(S, Parcels(S, TL, TR), m, Both(mail, wire), n)
        /\ Leg(S, TL, TR, n, carried, out, b)

LEMMA BothFacts ==
    ASSUME NEW ms \in Seq(Seq(Letters)), NEW ws \in Seq(Seq(Records)), Len(ms) = Len(ws)
    PROVE  /\ Both(ms, ws) \in Seq(Seq(Letters) \X Seq(Records))
           /\ ws = <<>> => Both(ms, ws) = <<>>
           /\ \A l \in Seq(Letters), r \in Seq(Records) :
                 Both(Append(ms, l), Append(ws, r)) = Append(Both(ms, ws), <<l, r>>)
           /\ ws # <<>> => /\ Both(ms, ws) # <<>>
                           /\ Head(Both(ms, ws)) = <<Head(ms), Head(ws)>>
                           /\ Tail(Both(ms, ws)) = Both(Tail(ms), Tail(ws))
<1> DEFINE n == Len(ws)
           P == Seq(Letters) \X Seq(Records)
           Pair(k) == <<ms[k], ws[k]>>
<1>1. n \in Nat /\ \A k \in 1 .. n : Pair(k) \in P
  OBVIOUS
<1>2. Both(ms, ws) = [k \in 1 .. n |-> Pair(k)]
  BY DEF Both
<1>3. Both(ms, ws) \in Seq(P) /\ Len(Both(ms, ws)) = n
      /\ \A k \in 1 .. n : Both(ms, ws)[k] = Pair(k)
  <2> HIDE DEF Pair, P, n
  <2> QED BY <1>1, <1>2
<1>4. ws = <<>> => Both(ms, ws) = <<>>
  BY DEF Both
<1>5. ASSUME NEW l \in Seq(Letters), NEW r \in Seq(Records)
      PROVE  Both(Append(ms, l), Append(ws, r)) = Append(Both(ms, ws), <<l, r>>)
  <2> DEFINE ms2 == Append(ms, l)
             ws2 == Append(ws, r)
             b2 == Both(ms2, ws2)
  <2>1. /\ Len(ws2) = n + 1 /\ ms2[n + 1] = l /\ ws2[n + 1] = r
        /\ \A k \in 1 .. n : ms2[k] = ms[k] /\ ws2[k] = ws[k]
    BY <1>1
  <2>2. <<l, r>> \in P
    OBVIOUS
  <2> HIDE DEF ms2, ws2, P, n
  <2>3. b2 = [k \in 1 .. n + 1 |-> <<ms2[k], ws2[k]>>]
    BY <2>1 DEF Both
  <2>4. \A k \in 1 .. n + 1 : b2[k] = Append(Both(ms, ws), <<l, r>>)[k]
    <3> SUFFICES ASSUME NEW k \in 1 .. n + 1
                 PROVE  b2[k] = Append(Both(ms, ws), <<l, r>>)[k]
      OBVIOUS
    <3>1. b2[k] = <<ms2[k], ws2[k]>>
      BY <2>3
    <3> HIDE DEF b2
    <3>2. CASE k = n + 1
      <4>1. Append(Both(ms, ws), <<l, r>>)[n + 1] = <<l, r>>
        BY <1>1, <1>3, <2>2
      <4> QED BY <2>1, <3>1, <3>2, <4>1
    <3>3. CASE k \in 1 .. n
      <4>1. Append(Both(ms, ws), <<l, r>>)[k] = Both(ms, ws)[k]
        BY <1>1, <1>3, <2>2, <3>3
      <4> QED BY <1>3, <2>1, <3>1, <3>3, <4>1
    <3>4. k = n + 1 \/ k \in 1 .. n
      BY <1>1
    <3> QED BY <3>2, <3>3, <3>4
  <2>5. Append(Both(ms, ws), <<l, r>>) \in Seq(P)
        /\ Len(Append(Both(ms, ws), <<l, r>>)) = n + 1
    BY <1>3, <2>2
  <2>6. Append(Both(ms, ws), <<l, r>>) = [k \in 1 .. n + 1 |-> b2[k]]
    <3> DEFINE a2 == Append(Both(ms, ws), <<l, r>>)
    <3>1. a2 = [k \in 1 .. Len(a2) |-> a2[k]]
      BY <2>5
    <3> HIDE DEF a2, b2
    <3> QED BY <2>4, <2>5, <3>1 DEF a2
  <2> QED BY <2>3, <2>6 DEF ms2, ws2
<1>6. ASSUME ws # <<>>
      PROVE  /\ Both(ms, ws) # <<>> /\ Head(Both(ms, ws)) = <<Head(ms), Head(ws)>>
             /\ Tail(Both(ms, ws)) = Both(Tail(ms), Tail(ws))
  <2>1. n # 0 /\ 1 \in 1 .. n /\ Len(ms) = n
    BY <1>1, <1>6
  <2>2. Both(ms, ws) # <<>> /\ Head(Both(ms, ws)) = Both(ms, ws)[1]
    BY <1>3, <2>1
  <2>3. Head(ms) = ms[1] /\ Head(ws) = ws[1]
    BY <2>1
  <2>4. /\ Len(Tail(ws)) = n - 1
        /\ \A k \in 1 .. n - 1 : Tail(ws)[k] = ws[k + 1] /\ Tail(ms)[k] = ms[k + 1]
    BY <1>1, <2>1
  <2> DEFINE t == Tail(Both(ms, ws))
  <2>5. /\ t \in Seq(P) /\ Len(t) = n - 1
        /\ \A k \in 1 .. n - 1 : t[k] = Both(ms, ws)[k + 1]
    <3> HIDE DEF P
    <3> QED BY <1>1, <1>3, <2>1
  <2> HIDE DEF t, P
  <2>6. t = [k \in 1 .. n - 1 |-> t[k]]
    BY <2>5
  <2>7. \A k \in 1 .. n - 1 : t[k] = <<Tail(ms)[k], Tail(ws)[k]>>
    <3> SUFFICES ASSUME NEW k \in 1 .. n - 1 PROVE t[k] = <<Tail(ms)[k], Tail(ws)[k]>>
      OBVIOUS
    <3>1. k + 1 \in 1 .. n
      BY <1>1
    <3> HIDE DEF n
    <3> QED BY <1>3, <2>4, <2>5, <3>1
  <2>8. t = Both(Tail(ms), Tail(ws))
    <3> HIDE DEF n
    <3> QED BY <2>4, <2>6, <2>7 DEF Both
  <2>9. Head(Both(ms, ws)) = <<Head(ms), Head(ws)>>
    BY <1>3, <2>1, <2>2, <2>3
  <2> QED BY <2>2, <2>8, <2>9 DEF t
<1> QED BY <1>3, <1>4, <1>5, <1>6

\* The types that the lemmas on the way ask for.
LEMMA WayTypes ==
    ASSUME ConnectionInv
    PROVE  /\ letters \in Seq(Letters) /\ inbox \in Seq(Records)
           /\ mail \in Seq(Seq(Letters)) /\ wire \in Seq(Seq(Records)) /\ Len(mail) = Len(wire)
           /\ carried \in Seq(Letters) /\ out \in Seq(Records)
BY StreamTypes DEF ConnectionInv, ConnectionTypes

LEMMA LegEmpty ==
    ASSUME NEW S, NEW TL, NEW TR, NEW a \in S, NEW b
    PROVE  Leg(S, TL, TR, a, <<>>, <<>>, b) <=> a = b
BY PathEmpty DEF Leg

LEMMA LegEnds ==
    ASSUME NEW S, NEW TL, NEW TR, NEW a, NEW b, NEW ls \in Seq(Letters),
           NEW rs \in Seq(Records), Leg(S, TL, TR, a, ls, rs, b)
    PROVE  a \in S /\ b \in S
BY PathEnds DEF Leg

LEMMA WayStart ==
    ASSUME ConnectionInit, NEW S, NEW TL, NEW TR, NEW a \in S
    PROVE  Way(S, TL, TR, a, a)
<1>1. /\ letters = <<>> /\ inbox = <<>> /\ wire = <<>> /\ carried = <<>> /\ out = <<>>
  BY DEF ConnectionInit, Init
<1>2. Both(mail, wire) = <<>>
  BY <1>1 DEF Both
<1> QED BY <1>1, <1>2, LegEmpty, PathEmpty DEF Way

LEMMA WayEnds ==
    ASSUME ConnectionInv, NEW S, NEW TL, NEW TR, NEW a, NEW b, Way(S, TL, TR, a, b)
    PROVE  a \in S /\ b \in S
BY WayTypes, LegEnds DEF Way

LEMMA WayKept ==
    ASSUME NEW CONSTANT S, NEW CONSTANT TL, NEW CONSTANT TR, NEW CONSTANT a, NEW CONSTANT b,
           Way(S, TL, TR, a, b), UNCHANGED <<letters, inbox, mail, wire, carried, out>>
    PROVE  Way(S, TL, TR, a, b)'
BY DEF Way

\* The next event is understood, and the rest of the way leads on.
LEMMA WayOverLetter ==
    ASSUME ConnectionInv, NEW CONSTANT S, NEW CONSTANT TL, NEW CONSTANT TR,
           NEW CONSTANT a, NEW CONSTANT b, Way(S, TL, TR, a, b), letters # <<>>
    PROVE  \E m \in S :
              /\ <<a, Head(letters), m>> \in TL
              /\ letters' = Tail(letters) /\ UNCHANGED <<inbox, mail, wire, carried, out>>
                    => Way(S, TL, TR, m, b)'
<1>1. PICK m, n \in S : /\ Leg(S, TL, TR, a, letters, inbox, m)
                        /\ Path(S, Parcels(S, TL, TR), m, Both(mail, wire), n)
                        /\ Leg(S, TL, TR, n, carried, out, b)
  BY DEF Way
<1>2. PICK x \in S : Path(S, TL, a, letters, x) /\ Path(S, TR, x, inbox, m)
  BY <1>1 DEF Leg
<1>3. PICK y \in S : <<a, Head(letters), y>> \in TL /\ Path(S, TL, y, Tail(letters), x)
  BY <1>2, WayTypes, PathFirst
<1>4. Leg(S, TL, TR, y, Tail(letters), inbox, m)
  BY <1>2, <1>3 DEF Leg
<1>5. ASSUME letters' = Tail(letters), UNCHANGED <<inbox, mail, wire, carried, out>>
      PROVE  Way(S, TL, TR, y, b)'
  BY <1>1, <1>4, <1>5 DEF Way
<1> QED BY <1>3, <1>5

\* With the events read, the next record is.
LEMMA WayOverRecord ==
    ASSUME ConnectionInv, NEW CONSTANT S, NEW CONSTANT TL, NEW CONSTANT TR,
           NEW CONSTANT a, NEW CONSTANT b, Way(S, TL, TR, a, b),
           letters = <<>>, inbox # <<>>
    PROVE  \E m \in S :
              /\ <<a, Head(inbox), m>> \in TR
              /\ inbox' = Tail(inbox) /\ UNCHANGED <<letters, mail, wire, carried, out>>
                    => Way(S, TL, TR, m, b)'
<1>1. PICK m, n \in S : /\ Leg(S, TL, TR, a, letters, inbox, m)
                        /\ Path(S, Parcels(S, TL, TR), m, Both(mail, wire), n)
                        /\ Leg(S, TL, TR, n, carried, out, b)
  BY DEF Way
<1>2. PICK x \in S : Path(S, TL, a, letters, x) /\ Path(S, TR, x, inbox, m)
  BY <1>1 DEF Leg
<1>3. a \in S
  BY WayEnds
<1>4. a = x
  BY <1>2, <1>3, PathEmpty
<1>5. PICK y \in S : <<a, Head(inbox), y>> \in TR /\ Path(S, TR, y, Tail(inbox), m)
  BY <1>2, <1>4, WayTypes, PathFirst
<1>6. Path(S, TL, y, letters, y)
  BY PathEmpty
<1>7. Leg(S, TL, TR, y, letters, Tail(inbox), m)
  BY <1>5, <1>6 DEF Leg
<1>8. ASSUME inbox' = Tail(inbox), UNCHANGED <<letters, mail, wire, carried, out>>
      PROVE  Way(S, TL, TR, y, b)'
  BY <1>1, <1>7, <1>8 DEF Way
<1> QED BY <1>5, <1>8

\* The packet is given up behind its events: where it would have led is known.
LEMMA WayDropped ==
    ASSUME ConnectionInv, NEW CONSTANT S, NEW CONSTANT TL, NEW CONSTANT TR,
           NEW CONSTANT a, NEW CONSTANT b, Way(S, TL, TR, a, b),
           letters = <<>>, inbox' = <<>>, UNCHANGED <<letters, mail, wire, carried, out>>
    PROVE  \E m \in S : Path(S, TR, a, inbox, m) /\ Way(S, TL, TR, m, b)'
<1>1. PICK m, n \in S : /\ Leg(S, TL, TR, a, letters, inbox, m)
                        /\ Path(S, Parcels(S, TL, TR), m, Both(mail, wire), n)
                        /\ Leg(S, TL, TR, n, carried, out, b)
  BY DEF Way
<1>2. PICK x \in S : Path(S, TL, a, letters, x) /\ Path(S, TR, x, inbox, m)
  BY <1>1 DEF Leg
<1>3. a \in S
  BY WayEnds
<1>4. a = x
  BY <1>2, <1>3, PathEmpty
<1>5. Leg(S, TL, TR, m, letters', inbox', m)
  BY LegEmpty
<1>6. Way(S, TL, TR, m, b)'
  BY <1>1, <1>5 DEF Way
<1> QED BY <1>2, <1>4, <1>6

\* The next packet is taken.
LEMMA WayIntoPacket ==
    ASSUME ConnectionInv, NEW CONSTANT S, NEW CONSTANT TL, NEW CONSTANT TR,
           NEW CONSTANT a, NEW CONSTANT b, Way(S, TL, TR, a, b),
           letters = <<>>, inbox = <<>>, wire # <<>>,
           letters' = Head(mail), inbox' = Head(wire), mail' = Tail(mail), wire' = Tail(wire),
           UNCHANGED <<carried, out>>
    PROVE  Way(S, TL, TR, a, b)'
<1> DEFINE P == Seq(Letters) \X Seq(Records)
           both == Both(mail, wire)
<1>1. PICK m, n \in S : /\ Leg(S, TL, TR, a, letters, inbox, m)
                        /\ Path(S, Parcels(S, TL, TR), m, both, n)
                        /\ Leg(S, TL, TR, n, carried, out, b)
  BY DEF Way
<1>2. a \in S
  BY WayEnds
<1>3. a = m
  BY <1>1, <1>2, LegEmpty
<1>4. /\ both \in Seq(P) /\ both # <<>> /\ Head(both) = <<Head(mail), Head(wire)>>
      /\ Tail(both) = Both(Tail(mail), Tail(wire))
  BY WayTypes, BothFacts
<1> HIDE DEF both, P
<1>5. PICK x \in S : /\ <<a, Head(both), x>> \in Parcels(S, TL, TR)
                     /\ Path(S, Parcels(S, TL, TR), x, Tail(both), n)
  BY <1>1, <1>3, <1>4, PathFirst
<1>6. Leg(S, TL, TR, a, Head(mail), Head(wire), x)
  <2> DEFINE t == <<a, Head(both), x>>
  <2>1. Leg(S, TL, TR, t[1], t[2][1], t[2][2], t[3])
    BY <1>5 DEF Parcels
  <2>2. t[1] = a /\ t[2][1] = Head(mail) /\ t[2][2] = Head(wire) /\ t[3] = x
    BY <1>4
  <2> QED BY <2>1, <2>2
<1>7. Path(S, Parcels(S, TL, TR), x, Both(mail', wire'), n)
  BY <1>4, <1>5
<1>8. Leg(S, TL, TR, n, carried', out', b)
  BY <1>1
<1> QED BY <1>6, <1>7, <1>8 DEF Way

\* Events are written into a packet that is empty yet.
LEMMA WayWithEvents ==
    ASSUME ConnectionInv, NEW CONSTANT S, NEW CONSTANT TL, NEW CONSTANT TR,
           NEW CONSTANT a, NEW CONSTANT b, NEW CONSTANT c \in S, Way(S, TL, TR, a, b),
           carried = <<>>, out = <<>>, Path(S, TL, b, carried', c),
           UNCHANGED <<letters, inbox, mail, wire, out>>
    PROVE  Way(S, TL, TR, a, c)'
<1>1. PICK m, n \in S : /\ Leg(S, TL, TR, a, letters, inbox, m)
                        /\ Path(S, Parcels(S, TL, TR), m, Both(mail, wire), n)
                        /\ Leg(S, TL, TR, n, carried, out, b)
  BY DEF Way
<1>2. n = b
  BY <1>1, LegEmpty
<1>3. Path(S, TR, c, out', c)
  BY PathEmpty
<1>4. Leg(S, TL, TR, n, carried', out', c)
  BY <1>2, <1>3 DEF Leg
<1> QED BY <1>1, <1>4 DEF Way

\* A record is written behind what the packet has.
LEMMA WayWithRecord ==
    ASSUME ConnectionInv, NEW CONSTANT S, NEW CONSTANT TL, NEW CONSTANT TR,
           NEW CONSTANT a, NEW CONSTANT b, NEW CONSTANT c \in S, Way(S, TL, TR, a, b),
           NEW CONSTANT r \in Records, <<b, r, c>> \in TR, out' = Append(out, r),
           UNCHANGED <<letters, inbox, mail, wire, carried>>
    PROVE  Way(S, TL, TR, a, c)'
<1>1. PICK m, n \in S : /\ Leg(S, TL, TR, a, letters, inbox, m)
                        /\ Path(S, Parcels(S, TL, TR), m, Both(mail, wire), n)
                        /\ Leg(S, TL, TR, n, carried, out, b)
  BY DEF Way
<1>2. PICK x \in S : Path(S, TL, n, carried, x) /\ Path(S, TR, x, out, b)
  BY <1>1 DEF Leg
<1>3. Path(S, TR, x, Append(out, r), c)
  BY <1>2, WayTypes, PathAppend
<1>4. Leg(S, TL, TR, n, carried', out', c)
  BY <1>2, <1>3 DEF Leg
<1> QED BY <1>1, <1>4 DEF Way

\* The packet is transmitted with both parts.
LEMMA WaySent ==
    ASSUME ConnectionInv, NEW CONSTANT S, NEW CONSTANT TL, NEW CONSTANT TR,
           NEW CONSTANT a, NEW CONSTANT b, Way(S, TL, TR, a, b),
           mail' = Append(mail, carried), wire' = Append(wire, out),
           carried' = <<>>, out' = <<>>, UNCHANGED <<letters, inbox>>
    PROVE  Way(S, TL, TR, a, b)'
<1> DEFINE P == Seq(Letters) \X Seq(Records)
           both == Both(mail, wire)
           parcel == <<carried, out>>
<1>1. PICK m, n \in S : /\ Leg(S, TL, TR, a, letters, inbox, m)
                        /\ Path(S, Parcels(S, TL, TR), m, both, n)
                        /\ Leg(S, TL, TR, n, carried, out, b)
  BY DEF Way
<1>2. b \in S
  BY WayEnds
<1>3. /\ both \in Seq(P) /\ parcel \in P
      /\ Both(Append(mail, carried), Append(wire, out)) = Append(both, parcel)
  BY WayTypes, BothFacts
<1>4. <<n, parcel, b>> \in Parcels(S, TL, TR)
  <2> DEFINE t == <<n, parcel, b>>
  <2>1. t[1] = n /\ t[2][1] = carried /\ t[2][2] = out /\ t[3] = b
    OBVIOUS
  <2>2. t \in S \X P \X S
    BY <1>2, <1>3
  <2> HIDE DEF t
  <2> QED BY <1>1, <2>1, <2>2 DEF Parcels, t
<1> HIDE DEF both, parcel, P
<1>5. Path(S, Parcels(S, TL, TR), m, Append(both, parcel), b)
  BY <1>1, <1>2, <1>3, <1>4, PathAppend
<1>6. Path(S, Parcels(S, TL, TR), m, Both(mail', wire'), b)
  BY <1>3, <1>5
<1>7. Leg(S, TL, TR, b, carried', out', b)
  BY <1>2, LegEmpty
<1>8. Leg(S, TL, TR, a, letters', inbox', m)
  BY <1>1
<1> QED BY <1>2, <1>6, <1>7, <1>8 DEF Way

\* The packet is given up, and there were no events in it.
LEMMA WayGivenUp ==
    ASSUME ConnectionInv, NEW CONSTANT S, NEW CONSTANT TL, NEW CONSTANT TR,
           NEW CONSTANT a, NEW CONSTANT b, Way(S, TL, TR, a, b),
           carried = <<>>, carried' = <<>>, out' = <<>>,
           UNCHANGED <<letters, inbox, mail, wire>>
    PROVE  \E n \in S : Path(S, TR, n, out, b) /\ Way(S, TL, TR, a, n)'
<1>1. PICK m, n \in S : /\ Leg(S, TL, TR, a, letters, inbox, m)
                        /\ Path(S, Parcels(S, TL, TR), m, Both(mail, wire), n)
                        /\ Leg(S, TL, TR, n, carried, out, b)
  BY DEF Way
<1>2. PICK x \in S : Path(S, TL, n, carried, x) /\ Path(S, TR, x, out, b)
  BY <1>1 DEF Leg
<1>3. x = n
  BY <1>2, PathEmpty
<1>4. Leg(S, TL, TR, n, carried', out', n)
  BY LegEmpty
<1>5. Way(S, TL, TR, a, n)'
  BY <1>1, <1>4 DEF Way
<1> QED BY <1>2, <1>3, <1>5

\* The first item leads to b, and the others leave the reader there.
LEMMA PathSettles ==
    ASSUME NEW S, NEW T, NEW I, NEW s \in Seq(I), NEW a \in S, NEW b \in S,
           s = <<>> => a = b,
           \A k \in 1 .. Len(s) : <<IF k = 1 THEN a ELSE b, s[k], b>> \in T
    PROVE  Path(S, T, a, s, b)
<1> DEFINE h == [k \in 0 .. Len(s) |-> IF k = 0 THEN a ELSE b]
<1>1. Len(s) \in Nat /\ (Len(s) = 0 => s = <<>>)
  OBVIOUS
<1>2. /\ h \in [0 .. Len(s) -> S] /\ h[0] = a /\ h[Len(s)] = b
      /\ \A k \in 1 .. Len(s) : h[k] = b /\ h[k - 1] = IF k = 1 THEN a ELSE b
  BY <1>1
<1> HIDE DEF h
<1> QED BY <1>2 DEF Path

-----------------------------------------------------------------------------
(* The client in step.  The string cache of the client is led to the       *)
(* server's by the names of the events and of the ghosts; its copies are   *)
(* led as those of GhostManager alone.                                     *)

LetterSteps == {t \in Caches \X Letters \X Caches :
                   /\ ReadString(t[1], t[2].name) = EventName
                   /\ t[3] = AfterRead(t[1], t[2].name)}

NamesLead == Way(Caches, LetterSteps, NameSteps, clientCache, cache)

Following == ~confused /\ CopiesFollow /\ NamesLead

FollowInv == ConnectionInv /\ (~abandoned /\ Undamaged => Following)

LEMMA WriteIsKnown ==
    ASSUME NEW c \in Caches, NEW s \in Strings, WellLinked(c)
    PROVE  Knows(AfterWrite(c, s), s)
<1>1. CASE Knows(c, s)
  BY <1>1 DEF AfterWrite
<1>2. CASE ~Knows(c, s)
  <2>1. GetOldestEntry(c) \in Ids
    BY OldestIsAnEntry
  <2>2. ReuseEntry(c, GetOldestEntry(c), s).hash[s] = GetOldestEntry(c)
    BY <2>1, ReuseLookups
  <2> QED BY <1>2, <2>1, <2>2, IdsFacts DEF AfterWrite, Knows, LookupByString
<1> QED BY <1>1, <1>2

\* A reader with the server's cache decodes the events of a packet.
LEMMA EventsLead ==
    ASSUME ConnectionInv, WriteEvents
    PROVE  Path(Caches, LetterSteps, cache, carried', cache')
<1>1. PICK n \in 0 .. Len(queue) :
          /\ carried' = [k \in 1 .. n |-> [name |-> NameInPacket(k), event |-> queue[k]]]
          /\ cache' = IF n = 0 THEN cache ELSE AfterWrite(cache, EventName)
          /\ carried' \in Seq(Letters) /\ Len(carried') = n
  BY WriteEventsFacts
<1>2. cache \in Caches /\ WellLinked(cache) /\ KnownHeld(cache) /\ EventName \in Strings
  BY StreamTypes, ConnectionConstants DEF ConnectionInv, GhostInv
<1> DEFINE after == AfterWrite(cache, EventName)
<1>3. after \in Caches /\ KnownHeld(after) /\ Knows(after, EventName)
  BY <1>2, WriteType, WriteKeepsKnownHeld, WriteIsKnown
<1>4. AfterWrite(after, EventName) = after
  <2> HIDE DEF after
  <2> QED BY <1>3 DEF AfterWrite
<1> HIDE DEF after
<1>5. n \in Nat /\ (carried' = <<>> => n = 0)
  BY <1>1
<1>6. carried' = <<>> => cache = cache'
  BY <1>1, <1>5
<1>7. ASSUME NEW k \in 1 .. n
      PROVE  <<IF k = 1 THEN cache ELSE cache', carried'[k], cache'>> \in LetterSteps
  <2>1. cache' = after /\ carried'[k].name = NameInPacket(k) /\ carried'[k] \in Letters
    BY <1>1, <1>5, <1>7 DEF after
  <2> DEFINE before == IF k = 1 THEN cache ELSE after
  <2>2. before \in Caches /\ KnownHeld(before) /\ AfterWrite(before, EventName) = after
    BY <1>2, <1>3, <1>4 DEF after
  <2>3. NameInPacket(k) = Written(before, EventName)
    BY DEF NameInPacket, after
  <2> HIDE DEF before
  <2>4. /\ ReadString(before, NameInPacket(k)) = EventName
        /\ AfterRead(before, NameInPacket(k)) = after
    BY <1>2, <2>2, <2>3, ReadUndoesWrite
  <2>5. <<before, carried'[k], after>> \in LetterSteps
    BY <1>3, <2>1, <2>2, <2>4 DEF LetterSteps
  <2> QED BY <2>1, <2>5 DEF before
<1>8. cache' \in Caches
  BY <1>1, <1>2, <1>3 DEF after
<1> QED BY <1>1, <1>2, <1>6, <1>7, <1>8, PathSettles

LEMMA FollowInitial == ConnectionInit => FollowInv
<1> SUFFICES ASSUME ConnectionInit PROVE FollowInv
  OBVIOUS
<1>1. ConnectionInv
  BY ConnectionInitial
<1>2. CopiesFollow /\ ~confused /\ clientCache = cache
  BY FollowInit DEF ConnectionInit, Init
<1>3. NamesLead
  BY <1>1, <1>2, WayStart, StreamTypes DEF NamesLead, ConnectionInv
<1> QED BY <1>1, <1>2, <1>3 DEF FollowInv, Following

\* The steps that leave alone what is under way.
LEMMA NamesLeadOn ==
    ASSUME NamesLead,
           UNCHANGED <<letters, inbox, mail, wire, carried, out, clientCache, cache>>
    PROVE  NamesLead'
<1>1. PICK a, b : a = clientCache /\ b = cache
  OBVIOUS
<1>2. Way(Caches, LetterSteps, NameSteps, a, b)'
  BY <1>1, WayKept DEF NamesLead
<1> QED BY <1>1, <1>2 DEF NamesLead

LEMMA PostEventFollows ==
    ASSUME FollowInv, PostEvent, Following
    PROVE  Following'
<1>1. /\ UNCHANGED <<protocol, ghostMap, info, copies, inbox, wire, out, clientCache, cache,
                     confused, letters, mail, carried>>
  BY DEF PostEvent, vars, slotVars, writeVars, clientVars
<1>2. ASSUME NEW cs \in Slots, Agrees(cs) PROVE Agrees(cs)'
  BY <1>1, <1>2 DEF Agrees
<1>3. CopiesFollow'
  BY <1>1, <1>2, CopiesKept DEF Following
<1> QED BY <1>1, <1>3, NamesLeadOn DEF Following

LEMMA PlayFollows ==
    ASSUME FollowInv, Play, Following
    PROVE  Following'
<1>1. /\ UNCHANGED <<inbox, wire, out, clientCache, cache, confused, letters, mail, carried>>
  BY DEF Play, Game, ChangeProperty, ChangeScope, CheckTrackedProperties, eventVars,
         writeVars, clientVars
<1>2. CopiesFollow'
  BY GameFollows, CheckFollows DEF Play, FollowInv, ConnectionInv, Following
<1> QED BY <1>1, <1>2, NamesLeadOn DEF Following

LEMMA WriteEventsFollows ==
    ASSUME FollowInv, WriteEvents, Following
    PROVE  Following'
<1>1. /\ ~begun /\ mode = "idle"
      /\ UNCHANGED <<protocol, ghostMap, info, copies, inbox, wire, out, clientCache,
                     confused, letters, mail>>
  BY DEF WriteEvents, slotVars, clientVars
<1>2. ASSUME NEW cs \in Slots, Agrees(cs) PROVE Agrees(cs)'
  BY <1>1, <1>2 DEF Agrees
<1>3. CopiesFollow'
  BY <1>1, <1>2, CopiesKept DEF Following
<1>4. PICK a, b, c : a = clientCache /\ b = cache /\ c = cache'
  OBVIOUS
<1>5. c \in Caches /\ Path(Caches, LetterSteps, b, carried', c)
  BY <1>4, CacheAfterEvents, EventsLead DEF FollowInv
<1>6. carried = <<>> /\ out = <<>> /\ Way(Caches, LetterSteps, NameSteps, a, b)
  BY <1>1, <1>4 DEF FollowInv, ConnectionInv, Tidy, Flagged, NothingHalfWritten, Following,
                    NamesLead
<1>7. Way(Caches, LetterSteps, NameSteps, a, c)'
  BY <1>1, <1>5, <1>6, WayWithEvents DEF FollowInv
<1>8. NamesLead'
  BY <1>1, <1>4, <1>7 DEF NamesLead
<1> QED BY <1>1, <1>3, <1>8 DEF Following

LEMMA WriteGhostsFollows ==
    ASSUME FollowInv, WriteGhosts, Following
    PROVE  Following'
<1>1. GhostInv /\ Flagged /\ bits \in Nat /\ KnownHeld(cache) /\ CopiesFollow
  BY DEF FollowInv, ConnectionInv, GhostInv, TypeOK, WriteTypeOK, Following
<1>2. UNCHANGED <<letters, mail, carried>>
  BY DEF WriteGhosts, eventVars
<1>3. CASE BeginPacket(bits)
  <2>1. UNCHANGED <<inbox, wire, out, clientCache, cache, confused>>
    BY <1>3 DEF BeginPacket, clientVars
  <2>2. CopiesFollow'
    BY <1>1, <1>3, BeginPacketFollows
  <2> QED BY <1>2, <2>1, <2>2, NamesLeadOn DEF Following
<1>4. ASSUME NEW g \in Ghosts, AttachGhost(g) \/ RefreshPriority(g) PROVE Following'
  <2>1. UNCHANGED <<inbox, wire, out, clientCache, cache, confused>>
    BY <1>4 DEF AttachGhost, RefreshPriority, writeVars, clientVars
  <2>2. CopiesFollow'
    BY <1>1, <1>4, AttachGhostFollows, RefreshPriorityFollows
  <2> QED BY <1>2, <2>1, <2>2, NamesLeadOn DEF Following
<1>5. CASE BuildPendingUpdates
  <2>1. UNCHANGED <<inbox, wire, out, clientCache, cache, confused>>
    BY <1>5 DEF BuildPendingUpdates, clientVars
  <2>2. CopiesFollow'
    BY <1>1, <1>5, BuildPendingFollows
  <2> QED BY <1>2, <2>1, <2>2, NamesLeadOn DEF Following
<1>6. ASSUME NEW g \in Ghosts, WriteKill(g) \/ WriteUpdate(g) PROVE Following'
  <2>1. CopiesFollow'
    BY <1>1, <1>6, WriteKillFollows, WriteUpdateFollows
  <2>2. info[g] # NoInfo
    BY <1>1, <1>6 DEF GhostInv, WriteKill, WriteUpdate, Current, PendingAreAttached
  <2>3. UNCHANGED <<inbox, wire, clientCache, confused>>
    BY <1>6 DEF WriteKill, WriteUpdate, clientVars
  <2>4. \E r \in Records : out' = Append(out, r) /\ <<cache, r, cache'>> \in NameSteps
    <3>1. CASE WriteKill(g)
      <4>1. PICK r : r = [kind |-> "kill", id |-> SlotOf(g), ghost |-> g]
        OBVIOUS
      <4>2. SlotOf(g) \in GhostIds
        BY <1>1, <2>2, SlotFound DEF GhostInv
      <4>3. r \in Records /\ r.kind = "kill"
        BY <4>1, <4>2 DEF Records
      <4>4. out' = Append(out, r) /\ cache' = cache
        BY <3>1, <4>1 DEF WriteKill
      <4>5. <<cache, r, cache>> \in NameSteps
        BY <1>1, <4>3, StreamTypes DEF NameSteps
      <4> QED BY <4>3, <4>4, <4>5
    <3>2. CASE WriteUpdate(g)
      <4>1. out' = Append(out, UpdateRecord(g)) /\ cache' = CacheAfterUpdate(g)
        BY <3>2 DEF WriteUpdate
      <4>2. UpdateRecord(g) \in Records
        BY <1>1, <2>2, UpdateFacts
      <4>3. <<cache, UpdateRecord(g), CacheAfterUpdate(g)>> \in NameSteps
        BY <1>1, <2>2, UpdateIsDecoded
      <4> QED BY <4>1, <4>2, <4>3
    <3> QED BY <1>6, <3>1, <3>2
  <2>5. PICK r \in Records : out' = Append(out, r) /\ <<cache, r, cache'>> \in NameSteps
    BY <2>4
  <2>6. PICK a, b, c : a = clientCache /\ b = cache /\ c = cache'
    OBVIOUS
  <2>7. c \in Caches
    <3>1. GhostInv'
      BY WriteGhostsStep DEF FollowInv, ConnectionInv
    <3> QED BY <2>6, <3>1 DEF GhostInv, TypeOK, WriteTypeOK
  <2>8. <<b, r, c>> \in NameSteps /\ Way(Caches, LetterSteps, NameSteps, a, b)
    BY <2>5, <2>6 DEF Following, NamesLead
  <2>9. Way(Caches, LetterSteps, NameSteps, a, c)'
    BY <1>2, <2>3, <2>5, <2>7, <2>8, WayWithRecord DEF FollowInv
  <2>10. NamesLead'
    BY <2>3, <2>6, <2>9 DEF NamesLead
  <2> QED BY <2>1, <2>3, <2>10 DEF Following
<1> QED BY <1>3, <1>4, <1>5, <1>6 DEF WriteGhosts

LEMMA TransmitFollows ==
    ASSUME FollowInv, Transmit, Following, ~polluted'
    PROVE  Following'
<1>1. GhostInv /\ Flagged /\ CopiesFollow
  BY DEF FollowInv, ConnectionInv, Following
<1>2. /\ UNCHANGED <<letters, inbox, clientCache, confused, cache>>
      /\ wire' = Append(wire, out) /\ out' = <<>>
      /\ mail' = Append(mail, carried) /\ carried' = <<>>
  BY DEF Transmit, SendPacket, RunOutOfRoom, Leave, clientVars
<1>3. CopiesFollow'
  BY <1>1, SendPacketFollows, RunOutOfRoomFollows DEF Transmit
<1>4. PICK a, b : a = clientCache /\ b = cache
  OBVIOUS
<1>5. Way(Caches, LetterSteps, NameSteps, a, b)'
  BY <1>2, <1>4, WaySent DEF FollowInv, Following, NamesLead
<1>6. NamesLead'
  BY <1>2, <1>4, <1>5 DEF NamesLead
<1> QED BY <1>2, <1>3, <1>6 DEF Following

LEMMA AbandonFollows ==
    ASSUME FollowInv, Abandon, Following, ~lost', ~abandoned'
    PROVE  Following'
<1>1. GhostInv /\ Flagged /\ CopiesFollow
  BY DEF FollowInv, ConnectionInv, Following
<1>2. UNCHANGED <<letters, inbox, mail, wire, carried, out, clientCache, cache, confused>>
  BY DEF Abandon, FinalFlagThrows, Leave, clientVars
<1>3. CopiesFollow'
  BY <1>1, FinalFlagFollows DEF Abandon
<1> QED BY <1>2, <1>3, NamesLeadOn DEF Following

LEMMA BeginToReadFollows ==
    ASSUME FollowInv, BeginToRead, Following
    PROVE  Following'
<1>1. GhostInv /\ Flagged /\ CopiesFollow
  BY DEF FollowInv, ConnectionInv, Following
<1>2. /\ letters = <<>> /\ inbox = <<>> /\ wire # <<>>
      /\ letters' = Head(mail) /\ inbox' = Head(wire) /\ mail' = Tail(mail)
      /\ wire' = Tail(wire) /\ UNCHANGED <<carried, out, clientCache, cache, confused>>
  BY DEF BeginToRead, BeginRead, writeVars
<1>3. CopiesFollow'
  BY <1>1, BeginReadFollows DEF BeginToRead
<1>4. PICK a, b : a = clientCache /\ b = cache
  OBVIOUS
<1>5. Way(Caches, LetterSteps, NameSteps, a, b)'
  BY <1>2, <1>4, WayIntoPacket DEF FollowInv, Following, NamesLead
<1>6. NamesLead'
  BY <1>2, <1>4, <1>5 DEF NamesLead
<1> QED BY <1>2, <1>3, <1>6 DEF Following

\* The next event is understood: no event is thrown at.
LEMMA NextLetterIsRead ==
    ASSUME FollowInv, Following, letters # <<>>
    PROVE  LetterName = EventName
<1>1. PICK a, b : a = clientCache /\ b = cache
  OBVIOUS
<1>2. PICK m \in Caches : <<a, Head(letters), m>> \in LetterSteps
  BY <1>1, WayOverLetter DEF FollowInv, Following, NamesLead
<1> QED BY <1>1, <1>2 DEF LetterSteps, LetterName

LEMMA ReadEventFollows ==
    ASSUME FollowInv, ReadEvent \/ ReadEventThrows, Following
    PROVE  Following'
<1>1. ConnectionInv /\ letters # <<>>
  BY DEF FollowInv, ReadEvent, ReadEventThrows
<1>2. PICK a, b : a = clientCache /\ b = cache
  OBVIOUS
<1>3. PICK m \in Caches :
          /\ <<a, Head(letters), m>> \in LetterSteps
          /\ letters' = Tail(letters) /\ UNCHANGED <<inbox, mail, wire, carried, out>>
                => Way(Caches, LetterSteps, NameSteps, m, b)'
  BY <1>1, <1>2, WayOverLetter DEF Following, NamesLead
<1>4. LetterName = EventName /\ m = AfterRead(clientCache, Head(letters).name)
  BY <1>2, <1>3 DEF LetterSteps, LetterName
<1>5. /\ letters' = Tail(letters) /\ clientCache' = AfterRead(clientCache, Head(letters).name)
      /\ UNCHANGED serverVars /\ UNCHANGED <<inbox, copies, confused, carried, mail>>
  BY <1>4 DEF ReadEvent, ReadEventThrows
<1>6. UNCHANGED <<protocol, ghostMap, info, wire, out, cache>>
  BY <1>5 DEF serverVars, slotVars, writeVars
<1>7. ASSUME NEW cs \in Slots, Agrees(cs) PROVE Agrees(cs)'
  BY <1>6, <1>7 DEF Agrees
<1>8. CopiesFollow'
  BY <1>5, <1>6, <1>7, CopiesKept DEF Following
<1>9. NamesLead'
  BY <1>2, <1>3, <1>4, <1>5, <1>6 DEF NamesLead
<1> QED BY <1>5, <1>8, <1>9 DEF Following

\* So is the next ghost record.
LEMMA RecordIsDecoded ==
    ASSUME FollowInv, Following, letters = <<>>, inbox # <<>>
    PROVE  /\ Record.kind = "new" => DecodedName = Prototype[Record.ghost]
           /\ inbox' = Tail(inbox) /\ UNCHANGED <<letters, mail, wire, carried, out, cache>>
              /\ clientCache' = (IF Record.kind = "new"
                                 THEN AfterRead(clientCache, Record.name) ELSE clientCache)
              => NamesLead'
<1>1. PICK a, b : a = clientCache /\ b = cache
  OBVIOUS
<1>2. PICK m \in Caches :
          /\ <<a, Head(inbox), m>> \in NameSteps
          /\ inbox' = Tail(inbox) /\ UNCHANGED <<letters, mail, wire, carried, out>>
                => Way(Caches, LetterSteps, NameSteps, m, b)'
  BY <1>1, WayOverRecord DEF FollowInv, Following, NamesLead
<1>3. IF Record.kind = "new"
      THEN DecodedName = Prototype[Record.ghost] /\ m = AfterRead(clientCache, Record.name)
      ELSE m = clientCache
  BY <1>1, <1>2 DEF NameSteps, Record, DecodedName
<1>4. ASSUME inbox' = Tail(inbox), UNCHANGED <<letters, mail, wire, carried, out, cache>>,
             clientCache' = IF Record.kind = "new" THEN AfterRead(clientCache, Record.name)
                            ELSE clientCache
      PROVE  NamesLead'
  <2>1. m = clientCache' /\ b = cache'
    BY <1>1, <1>3, <1>4
  <2>2. Way(Caches, LetterSteps, NameSteps, m, b)'
    BY <1>2, <1>4
  <2> QED BY <2>1, <2>2 DEF NamesLead
<1> QED BY <1>3, <1>4

LEMMA ReadGhostsFollows ==
    ASSUME FollowInv, ReadGhosts, Following
    PROVE  Following'
<1>1. GhostInv /\ Flagged /\ CopiesFollow /\ letters = <<>> /\ UNCHANGED eventVars
  BY DEF FollowInv, ConnectionInv, Following, ReadGhosts
<1>2. Reading => (Record.kind = "new" => DecodedName = Prototype[Record.ghost])
  BY <1>1, RecordIsDecoded DEF Reading
<1>3. ReadKill \/ ReadUpdate \/ ReadNew
  BY <1>1, <1>2, NoneIsMistaken DEF ReadGhosts
<1>4. CopiesFollow'
  BY <1>1, <1>3, ReadFollows
<1>5. /\ inbox # <<>> /\ inbox' = Tail(inbox) /\ confused' = confused /\ UNCHANGED serverVars
      /\ clientCache' = IF Record.kind = "new" THEN AfterRead(clientCache, Record.name)
                        ELSE clientCache
  BY <1>3 DEF ReadKill, ReadUpdate, ReadNew, Reading
<1>6. UNCHANGED <<letters, mail, wire, carried, out, cache>>
  BY <1>1, <1>5 DEF serverVars, writeVars, eventVars
<1>7. NamesLead'
  <2>1. clientCache' = IF Record.kind = "new" THEN AfterRead(clientCache, Record.name)
                       ELSE clientCache
    BY <1>5
  <2>2. inbox # <<>> /\ inbox' = Tail(inbox)
    BY <1>5
  <2> QED BY <1>1, <1>6, <2>1, <2>2, RecordIsDecoded, Zenon
<1> QED BY <1>4, <1>5, <1>7 DEF Following

\* What has been given up stays given up.
LEMMA StillUndamaged ==
    ASSUME FollowInv, ConnectionNext, ~abandoned', Undamaged'
    PROVE  ~abandoned /\ Undamaged
<1>1. CASE Transmit \/ Abandon
  <2>1. /\ abandoned' = abandoned \/ abandoned' = (abandoned \/ carried # <<>>)
        /\ lost' = lost \/ lost' = (lost \/ out # <<>>)
        /\ \/ polluted' = polluted
           \/ \E g \in Ghosts : polluted' = (polluted \/ CacheAfterUpdate(g) # cache)
    BY <1>1, Zenon DEF Transmit, Abandon, SendPacket, RunOutOfRoom, FinalFlagThrows
  <2>2. ~lost' /\ ~polluted'
    BY DEF Undamaged
  <2>3. /\ abandoned \in BOOLEAN /\ lost \in BOOLEAN /\ polluted \in BOOLEAN
    BY DEF FollowInv, ConnectionInv, ConnectionTypes, GhostInv, TypeOK, WriteTypeOK
  <2>4. ~abandoned
    BY <2>1, <2>3
  <2>5. ~lost
    BY <2>1, <2>2, <2>3
  <2>6. ~polluted
    BY <2>1, <2>2, <2>3
  <2> QED BY <2>4, <2>5, <2>6 DEF Undamaged
<1>2. CASE ~(Transmit \/ Abandon)
  <2>1. UNCHANGED <<abandoned, lost, polluted>>
    BY <1>2 DEF ConnectionNext, Send, ReadNext, PostEvent, Play, WriteEvents,
          WriteGhosts, BeginToRead, ReadEvent, ReadEventThrows, ReadGhosts, eventVars,
          vars, Game, ChangeProperty, ChangeScope, CheckTrackedProperties, BeginPacket,
          AttachGhost, RefreshPriority, BuildPendingUpdates, WriteKill, WriteUpdate,
          BeginRead, ReadKill, ReadUpdate, ReadNew, ReadThrows, Misread, serverVars
  <2> QED BY <2>1 DEF Undamaged
<1> QED BY <1>1, <1>2

LEMMA FollowNext == FollowInv /\ [ConnectionNext]_connectionVars => FollowInv'
<1> SUFFICES ASSUME FollowInv, [ConnectionNext]_connectionVars PROVE FollowInv'
  OBVIOUS
<1>1. ConnectionInv'
  BY ConnectionStep DEF FollowInv
<1> SUFFICES ASSUME ~abandoned', Undamaged' PROVE Following'
  BY <1>1 DEF FollowInv
<1>2. CASE UNCHANGED connectionVars
  <2>1. UNCHANGED <<protocol, ghostMap, info, copies, inbox, wire, out, clientCache, cache,
                    confused, letters, mail, carried, abandoned, lost, polluted>>
    BY <1>2 DEF connectionVars, eventVars, vars, slotVars, writeVars, clientVars
  <2>2. Following
    BY <2>1 DEF FollowInv, Undamaged
  <2>3. ASSUME NEW cs \in Slots, Agrees(cs) PROVE Agrees(cs)'
    BY <2>1, <2>3 DEF Agrees
  <2>4. CopiesFollow'
    BY <2>1, <2>2, <2>3, CopiesKept DEF Following
  <2> QED BY <2>1, <2>2, <2>4, NamesLeadOn DEF Following
<1>3. CASE ConnectionNext
  <2>1. ~abandoned /\ Undamaged
    BY <1>3, StillUndamaged
  <2>2. Following
    BY <2>1 DEF FollowInv
  <2> QED BY <1>3, <2>2, PostEventFollows, PlayFollows, WriteEventsFollows,
             WriteGhostsFollows, TransmitFollows, AbandonFollows, BeginToReadFollows,
             ReadEventFollows, ReadGhostsFollows
          DEF ConnectionNext, Send, ReadNext, Undamaged
<1> QED BY <1>2, <1>3

\* The client takes every ghost record for what it is, and the dirty flags say
\* all there is to say, with events in the same packets and in the same string
\* cache (GhostConnection.as:60-78), unless a packet was abandoned or a
\* prototype name rolled back.
THEOREM GhostsStayInStep == ConnectionSpec => []GhostsInStep
<1>1. FollowInv => GhostsInStep
  <2> SUFFICES ASSUME FollowInv, ~abandoned
               PROVE  (letters = <<>> => ClientInStep) /\ DirtyFlagsTellTheTruth
    BY DEF GhostsInStep
  <2>1. CASE ~Undamaged
    BY <2>1 DEF ClientInStep, DirtyFlagsTellTheTruth
  <2>2. CASE Undamaged
    <3>1. GhostInv /\ Flagged /\ CopiesFollow /\ Following
      BY <2>2 DEF FollowInv, ConnectionInv, Following
    <3>2. letters = <<>> => ClientInStep
      BY <3>1, RecordIsDecoded, FollowingIsInStep
    <3> QED BY <3>1, <3>2, SettledIsInAgreement
  <2> QED BY <2>1, <2>2
<1> QED BY <1>1, FollowInitial, FollowNext, PTL DEF ConnectionSpec

-----------------------------------------------------------------------------
(* What the game sees of a connection is what it sees of its ghosts.        *)

\* Events and packets tell the client's game nothing; the rest is as without
\* events, but for the type names in the string cache, over which NamesLead
\* has led the client when it comes to the ghosts.
LEMMA ConnectionMirrors ==
    ASSUME FollowInv, [ConnectionNext]_connectionVars, ~abandoned', Undamaged'
    PROVE  ~abandoned /\ Undamaged /\ Mirrors
<1>1. ConnectionInv /\ GhostInv /\ Flagged /\ GhostInv'
  <2>1. ConnectionInv /\ ConnectionInv'
    BY ConnectionStep DEF FollowInv
  <2> QED BY <2>1 DEF ConnectionInv
<1>2. ~abandoned /\ Undamaged
  <2>1. CASE UNCHANGED connectionVars
    <3>1. UNCHANGED <<abandoned, lost, polluted>>
      BY <2>1 DEF connectionVars, eventVars, vars
    <3> QED BY <3>1 DEF Undamaged
  <2>2. CASE ConnectionNext
    BY <2>2, StillUndamaged
  <2> QED BY <2>1, <2>2
<1>3. Following
  BY <1>2 DEF FollowInv
<1> SUFFICES Mirrors
  BY <1>2
<1>4. ASSUME UNCHANGED <<ghostMap, info, copies, inbox, wire, out>> PROVE Mirrors
  BY <1>1, <1>4, QuietTells DEF Mirrors
<1>5. CASE PostEvent \/ UNCHANGED connectionVars
  <2>1. UNCHANGED vars
    BY <1>5 DEF PostEvent, connectionVars
  <2>2. UNCHANGED <<ghostMap, info, copies, inbox, wire, out>>
    BY <2>1 DEF vars, slotVars, writeVars, clientVars
  <2> QED BY <1>4, <2>2
<1>6. CASE Play
  BY <1>1, <1>6, GameTells DEF Play, Mirrors
<1>7. CASE WriteEvents
  <2>1. UNCHANGED <<ghostMap, info, copies, inbox, wire, out>>
    BY <1>7 DEF WriteEvents, slotVars, clientVars
  <2> QED BY <1>4, <2>1
<1>8. CASE WriteGhosts
  <2>1. CASE BeginPacket(bits)
    BY <1>1, <2>1, BeginPacketTells DEF Mirrors
  <2>2. CASE \E g \in Ghosts : AttachGhost(g) \/ RefreshPriority(g)
    BY <1>1, <2>2, AttachTells, RefreshTells DEF Mirrors
  <2>3. CASE BuildPendingUpdates
    BY <1>1, <2>3, BuildPendingTells DEF Mirrors
  <2>4. CASE \E g \in Ghosts : WriteKill(g) \/ WriteUpdate(g)
    BY <1>1, <2>4, KillTells, UpdateTells DEF Mirrors
  <2> QED BY <1>8, <2>1, <2>2, <2>3, <2>4 DEF WriteGhosts
<1>9. CASE Transmit
  BY <1>1, <1>9, SendTells DEF Transmit, Mirrors
<1>10. CASE Abandon
  <2>1. FinalFlagThrows /\ ~lost'
    BY <1>10 DEF Abandon, Undamaged
  <2> QED BY <1>1, <2>1, FinalFlagTells DEF Mirrors
<1>11. CASE BeginToRead
  BY <1>1, <1>11, TakingTells DEF BeginToRead, Mirrors
<1>12. CASE ReadEvent \/ ReadEventThrows
  <2>1. LetterName = EventName
    BY <1>3, <1>12, NextLetterIsRead DEF ReadEvent, ReadEventThrows
  <2>2. UNCHANGED serverVars /\ UNCHANGED <<copies, inbox>>
    BY <1>12, <2>1 DEF ReadEvent, ReadEventThrows
  <2>3. UNCHANGED <<ghostMap, info, copies, inbox, wire, out>>
    BY <2>2 DEF serverVars, slotVars, writeVars
  <2> QED BY <1>4, <2>3
<1>13. CASE ReadGhosts
  <2>1. CopiesFollow /\ letters = <<>>
    BY <1>3, <1>13 DEF Following, ReadGhosts
  <2>2. Reading => (Record.kind = "new" => DecodedName = Prototype[Record.ghost])
    BY <1>3, <2>1, RecordIsDecoded DEF Reading
  <2>3. ReadKill \/ ReadUpdate \/ ReadNew
    BY <1>1, <1>13, <2>1, <2>2, NoneIsMistaken DEF ReadGhosts
  <2> QED BY <1>1, <2>1, <2>3, ReadDoesAsTold DEF Mirrors
<1> QED BY <1>5, <1>6, <1>7, <1>8, <1>9, <1>10, <1>11, <1>12, <1>13
        DEF ConnectionNext, Send, ReadNext

LEMMA GameIsServed ==
    ConnectionSpec =>
        /\ GameView!Init
        /\ [][GameView!Next]_<<protocol, Given, Coming, copies, abandoned \/ ~Undamaged>>
<1>1. ConnectionInit => GameView!Init
  BY MirrorStart DEF ConnectionInit, GameView!Init
<1>2. FollowInv /\ [ConnectionNext]_connectionVars
        => [GameView!Next]_<<protocol, Given, Coming, copies, abandoned \/ ~Undamaged>>
  <2> SUFFICES ASSUME FollowInv, [ConnectionNext]_connectionVars
               PROVE  [GameView!Next]_<<protocol, Given, Coming, copies,
                                        abandoned \/ ~Undamaged>>
    OBVIOUS
  <2>1. CASE (abandoned \/ ~Undamaged)'
    BY <2>1 DEF GameView!Next
  <2>2. CASE ~(abandoned \/ ~Undamaged)'
    <3>1. /\ ~(abandoned \/ ~Undamaged) /\ Mirrors
          /\ (abandoned \/ ~Undamaged)' = (abandoned \/ ~Undamaged)
      BY <2>2, ConnectionMirrors
    <3>2. CASE TellsNothing
      BY <3>1, <3>2 DEF TellsNothing, GameView!Next, GameView!Change
    <3>3. CASE TellsToHide
      BY <3>1, <3>3 DEF TellsToHide, GameView!Next, GameView!Hide
    <3>4. CASE TellsToShow
      BY <3>1, <3>4 DEF TellsToShow, GameView!Next, GameView!Show
    <3>5. CASE DoesAsTold
      BY <3>1, <3>5 DEF DoesAsTold, GameView!Next, GameView!Receive
    <3> QED BY <3>1, <3>2, <3>3, <3>4, <3>5 DEF Mirrors
  <2> QED BY <2>1, <2>2
<1> QED BY <1>1, <1>2, FollowInitial, FollowNext, PTL DEF ConnectionSpec

-----------------------------------------------------------------------------
(* Every event accounted for.  First the count: what has been processed    *)
(* and what is under way are the events posted, in order.                  *)

LEMMA NumbersType ==
    ASSUME NEW s \in Seq(Letters)
    PROVE  Numbers(s) \in Seq(Nat) /\ Len(Numbers(s)) = Len(s)
<1>1. \A k \in 1 .. Len(s) : s[k].event \in Nat
  <2> SUFFICES ASSUME NEW k \in 1 .. Len(s) PROVE s[k].event \in Nat
    OBVIOUS
  <2>1. s[k] \in Letters
    OBVIOUS
  <2> QED BY <2>1, LettersType
<1>2. Len(s) \in Nat
  OBVIOUS
<1> QED BY <1>1, <1>2 DEF Numbers

LEMMA NumbersJoined ==
    ASSUME NEW s \in Seq(Letters), NEW t \in Seq(Letters)
    PROVE  Numbers(s \o t) = Numbers(s) \o Numbers(t)
<1>1. s \o t \in Seq(Letters) /\ Len(s \o t) = Len(s) + Len(t)
  OBVIOUS
<1>2. /\ Numbers(s) \in Seq(Nat) /\ Len(Numbers(s)) = Len(s)
      /\ Numbers(t) \in Seq(Nat) /\ Len(Numbers(t)) = Len(t)
      /\ Numbers(s \o t) \in Seq(Nat) /\ Len(Numbers(s \o t)) = Len(s) + Len(t)
  BY <1>1, NumbersType
<1>3. ASSUME NEW k \in 1 .. Len(s) + Len(t)
      PROVE  Numbers(s \o t)[k] = (Numbers(s) \o Numbers(t))[k]
  <2>1. Numbers(s \o t)[k] = (s \o t)[k].event
    BY <1>1 DEF Numbers
  <2>2. CASE k <= Len(s)
    <3>1. k \in 1 .. Len(s) /\ (s \o t)[k] = s[k] /\ Numbers(s)[k] = s[k].event
      BY <2>2 DEF Numbers
    <3>2. (Numbers(s) \o Numbers(t))[k] = Numbers(s)[k]
      BY <1>2, <3>1
    <3> QED BY <2>1, <3>1, <3>2
  <2>3. CASE k > Len(s)
    <3>1. k - Len(s) \in 1 .. Len(t) /\ (s \o t)[k] = t[k - Len(s)]
      BY <2>3
    <3>2. Numbers(t)[k - Len(s)] = t[k - Len(s)].event
      BY <3>1 DEF Numbers
    <3>3. (Numbers(s) \o Numbers(t))[k] = Numbers(t)[k - Len(s)]
      BY <1>2, <2>3
    <3> QED BY <2>1, <3>1, <3>2, <3>3
  <2>4. k <= Len(s) \/ k > Len(s)
    OBVIOUS
  <2> QED BY <2>2, <2>3, <2>4
<1>4. /\ Numbers(s) \o Numbers(t) \in Seq(Nat)
      /\ Len(Numbers(s) \o Numbers(t)) = Len(s) + Len(t)
  <2>1. \A x, y \in Seq(Nat) : x \o y \in Seq(Nat) /\ Len(x \o y) = Len(x) + Len(y)
    OBVIOUS
  <2>2. Len(Numbers(s) \o Numbers(t)) = Len(Numbers(s)) + Len(Numbers(t))
    BY <1>2, <2>1
  <2>3. Numbers(s) \o Numbers(t) \in Seq(Nat)
    BY <1>2, <2>1
  <2> QED BY ONLY <1>2, <2>2, <2>3
<1> QED BY <1>2, <1>3, <1>4, SeqEqual

LEMMA NumbersRead ==
    ASSUME NEW s \in Seq(Letters), s # <<>>
    PROVE  /\ Numbers(s) # <<>> /\ Head(Numbers(s)) = Head(s).event
           /\ Tail(Numbers(s)) = Numbers(Tail(s))
<1>1. Len(s) \in Nat \ {0} /\ Len(Tail(s)) = Len(s) - 1
      /\ \A k \in 1 .. Len(s) - 1 : Tail(s)[k] = s[k + 1]
  OBVIOUS
<1> QED BY <1>1 DEF Numbers

InPackets == letters \o FlattenSeq(mail) \o carried

LEMMA PacketsType ==
    ASSUME ConnectionTypes
    PROVE  /\ FlattenSeq(mail) \in Seq(Letters) /\ InPackets \in Seq(Letters)
           /\ Numbers(InPackets) \in Seq(Nat)
<1>1. FlattenSeq(mail) \in Seq(Letters)
  BY FlattenType DEF ConnectionTypes
<1>2. InPackets \in Seq(Letters)
  BY <1>1 DEF InPackets, ConnectionTypes
<1> QED BY <1>1, <1>2, NumbersType

LEMMA UnderWayType ==
    ASSUME ConnectionTypes
    PROVE  UnderWay \in Seq(Nat)
<1>1. UnderWay = Numbers(InPackets) \o queue
  BY DEF UnderWay, InPackets
<1> QED BY <1>1, PacketsType DEF ConnectionTypes

\* A step posts the next event, or processes the one posted the longest time
\* ago, or is invisible.
Posts ==
    /\ posted + 1 \in 1 .. MaxEvents
    /\ UnderWay' = Append(UnderWay, posted + 1) /\ UNCHANGED processed

Processes ==
    /\ UnderWay # <<>>
    /\ UnderWay' = Tail(UnderWay) /\ processed' = Append(processed, Head(UnderWay))

LEMMA PostEventPosts ==
    ASSUME ConnectionInv, PostEvent
    PROVE  Posts
<1>1. PICK ns : ns = Numbers(InPackets)
  OBVIOUS
<1>2. /\ posted \in Nat /\ queue \in Seq(Nat) /\ ns \in Seq(Nat)
  BY <1>1, PacketsType DEF ConnectionInv, ConnectionTypes
<1>3. /\ posted < MaxEvents /\ queue' = Append(queue, posted + 1)
      /\ UNCHANGED <<letters, mail, carried, processed>>
  BY DEF PostEvent
<1>4. UnderWay = ns \o queue /\ UnderWay' = ns \o Append(queue, posted + 1)
  BY <1>1, <1>3 DEF UnderWay, InPackets
<1>5. ns \o Append(queue, posted + 1) = Append(ns \o queue, posted + 1)
  <2>1. posted + 1 \in Nat
    BY <1>2
  <2>2. \A x \in Nat : \A u, v \in Seq(Nat) : u \o Append(v, x) = Append(u \o v, x)
    OBVIOUS
  <2> QED BY <1>2, <2>1, <2>2, Zenon
<1>6. posted + 1 \in 1 .. MaxEvents
  <2>1. MaxEvents \in Nat
    BY ConnectionAssumption
  <2> QED BY <1>2, <1>3, <2>1
<1> QED BY <1>3, <1>4, <1>5, <1>6 DEF Posts

\* An event posted is behind all others.
LEMMA PostedCounts ==
    ASSUME ConnectionInv, PostEvent, EventsSurvive
    PROVE  EventsSurvive'
<1>1. UnderWay' = Append(UnderWay, posted + 1) /\ processed' = processed
  BY PostEventPosts DEF Posts
<1>2. posted' = posted + 1 /\ posted \in Nat /\ processed \in Seq(Nat) /\ UnderWay \in Seq(Nat)
  BY UnderWayType DEF PostEvent, ConnectionInv, ConnectionTypes
<1>3. processed \o Append(UnderWay, posted + 1) = Append(processed \o UnderWay, posted + 1)
  <2>1. posted + 1 \in Nat
    BY <1>2
  <2>2. \A x \in Nat : \A u, v \in Seq(Nat) : u \o Append(v, x) = Append(u \o v, x)
    OBVIOUS
  <2> QED BY <1>2, <2>1, <2>2, Zenon
<1>4. [k \in 1 .. posted + 1 |-> k] = Append([k \in 1 .. posted |-> k], posted + 1)
  BY <1>2
<1> QED BY <1>1, <1>2, <1>3, <1>4 DEF EventsSurvive

\* What a packet takes from the queue it carries.
LEMMA WrittenCounts ==
    ASSUME ConnectionInv, WriteEvents
    PROVE  UnderWay' = UnderWay
<1>1. PICK n \in 0 .. Len(queue) :
          /\ carried' = [k \in 1 .. n |-> [name |-> NameInPacket(k), event |-> queue[k]]]
          /\ queue' = SubSeq(queue, n + 1, Len(queue))
          /\ carried' \in Seq(Letters) /\ Len(carried') = n
  BY WriteEventsFacts
<1>2. carried = <<>> /\ UNCHANGED <<letters, mail>>
  BY DEF WriteEvents, ConnectionInv, Tidy
<1>3. PICK u, c, q, d : /\ u = letters \o FlattenSeq(mail) /\ c = carried'
                        /\ q = queue /\ d = queue'
  OBVIOUS
<1>4. u \in Seq(Letters) /\ c \in Seq(Letters) /\ q \in Seq(Nat) /\ n \in Nat /\ n <= Len(q)
  BY <1>1, <1>3, PacketsType DEF ConnectionInv, ConnectionTypes
<1>5. UnderWay = Numbers(u) \o q /\ UnderWay' = Numbers(u \o c) \o d
  <2>1. u \o <<>> = u
    BY <1>4
  <2> QED BY <1>2, <1>3, <2>1 DEF UnderWay
<1>6. Numbers(c) \in Seq(Nat) /\ Len(Numbers(c)) = n
      /\ \A k \in 1 .. n : Numbers(c)[k] = q[k]
  <2>1. \A k \in 1 .. n : c[k].event = q[k]
    BY <1>1, <1>3
  <2> QED BY <1>1, <1>3, <1>4, <2>1, NumbersType DEF Numbers
<1>7. Numbers(c) \o d = q
  BY <1>1, <1>3, <1>4, <1>6, FrontAndRest
<1>8. Numbers(u \o c) = Numbers(u) \o Numbers(c) /\ Numbers(u) \in Seq(Nat)
  BY <1>4, NumbersJoined, NumbersType
<1>9. d \in Seq(Nat)
  BY <1>1, <1>3, <1>4
<1>10. (Numbers(u) \o Numbers(c)) \o d = Numbers(u) \o (Numbers(c) \o d)
  <2>1. \A x, y, z \in Seq(Nat) : (x \o y) \o z = x \o (y \o z)
    <3> SUFFICES ASSUME NEW x \in Seq(Nat), NEW y \in Seq(Nat), NEW z \in Seq(Nat)
                 PROVE  (x \o y) \o z = x \o (y \o z)
      OBVIOUS
    <3> QED OBVIOUS
  <2> QED BY <1>6, <1>8, <1>9, <2>1, Zenon
<1> QED BY <1>5, <1>7, <1>8, <1>10

LEMMA TransmittedCounts ==
    ASSUME ConnectionInv, Transmit
    PROVE  UnderWay' = UnderWay
<1>1. /\ mail' = Append(mail, carried) /\ carried' = <<>> /\ UNCHANGED <<letters, queue>>
  BY DEF Transmit
<1>2. PICK l, f, c : l = letters /\ f = FlattenSeq(mail) /\ c = carried
  OBVIOUS
<1>3. /\ mail \in Seq(Seq(Letters)) /\ l \in Seq(Letters) /\ c \in Seq(Letters)
      /\ f \in Seq(Letters)
  BY <1>2, PacketsType DEF ConnectionInv, ConnectionTypes
<1>4. FlattenSeq(Append(mail, carried)) = f \o c
  BY <1>2, <1>3, FlattenAppend
<1>5. (l \o (f \o c)) \o <<>> = (l \o f) \o c
  BY <1>3
<1> QED BY <1>1, <1>2, <1>4, <1>5 DEF UnderWay

LEMMA TakenCounts ==
    ASSUME ConnectionInv, BeginToRead
    PROVE  UnderWay' = UnderWay
<1>1. /\ letters = <<>> /\ letters' = Head(mail) /\ mail' = Tail(mail)
      /\ UNCHANGED <<carried, queue>> /\ wire # <<>>
  BY DEF BeginToRead, BeginRead
<1>2. mail \in Seq(Seq(Letters)) /\ mail # <<>>
  BY <1>1, WayTypes
<1>3. FlattenSeq(mail) = Head(mail) \o FlattenSeq(Tail(mail)) /\ FlattenSeq(mail) \in Seq(Letters)
  BY <1>2, FlattenFirst, FlattenType
<1>4. <<>> \o FlattenSeq(mail) = FlattenSeq(mail)
  BY <1>3
<1> QED BY <1>1, <1>3, <1>4 DEF UnderWay

\* The event at the head of its packet is the oldest of all under way.
LEMMA ReadEventProcesses ==
    ASSUME ConnectionInv, ReadEvent
    PROVE  Processes
<1>1. /\ letters # <<>> /\ letters' = Tail(letters)
      /\ processed' = Append(processed, Head(letters).event)
      /\ UNCHANGED <<mail, carried, queue>>
  BY DEF ReadEvent
<1>2. PICK l, f, c, q : /\ l = letters /\ f = FlattenSeq(mail) /\ c = carried
                        /\ q = queue
  OBVIOUS
<1>3. /\ l \in Seq(Letters) /\ f \in Seq(Letters) /\ c \in Seq(Letters) /\ l # <<>>
      /\ q \in Seq(Nat)
  BY <1>1, <1>2, PacketsType DEF ConnectionInv, ConnectionTypes
<1>4. PICK s : s = l \o f \o c
  OBVIOUS
<1>5. /\ s \in Seq(Letters) /\ s # <<>> /\ Head(s) = Head(l)
      /\ Tail(s) = Tail(l) \o f \o c
  BY <1>3, <1>4
<1>6. PICK ns : ns = Numbers(s)
  OBVIOUS
<1>7. /\ ns \in Seq(Nat) /\ ns # <<>> /\ Head(ns) = Head(l).event
      /\ Tail(ns) = Numbers(Tail(s))
  BY <1>5, <1>6, NumbersType, NumbersRead
<1>8. UnderWay = ns \o q /\ UnderWay' = Tail(ns) \o q
  BY <1>1, <1>2, <1>4, <1>5, <1>6, <1>7 DEF UnderWay
<1>9. /\ ns \o q # <<>> /\ Head(ns \o q) = Head(ns)
      /\ Tail(ns \o q) = Tail(ns) \o q
  <2>1. ns \in Seq(Nat) /\ q \in Seq(Nat) /\ ns # <<>>
    BY <1>3, <1>7
  <2> QED BY ONLY <2>1, JoinFirst
<1> QED BY <1>1, <1>2, <1>7, <1>8, <1>9 DEF Processes

LEMMA ProcessedCounts ==
    ASSUME ConnectionInv, ReadEvent, EventsSurvive
    PROVE  EventsSurvive'
<1>1. /\ UnderWay # <<>> /\ UnderWay' = Tail(UnderWay)
      /\ processed' = Append(processed, Head(UnderWay))
  BY ReadEventProcesses DEF Processes
<1>2. posted' = posted /\ processed \in Seq(Nat) /\ UnderWay \in Seq(Nat)
  BY UnderWayType DEF ReadEvent, ConnectionInv, ConnectionTypes
<1>3. Append(processed, Head(UnderWay)) \o Tail(UnderWay) = processed \o UnderWay
  <2>1. \A x, y \in Seq(Nat) : y # <<>> => Append(x, Head(y)) \o Tail(y) = x \o y
    OBVIOUS
  <2> QED BY <1>1, <1>2, <2>1, Zenon
<1> QED BY <1>1, <1>2, <1>3 DEF EventsSurvive

-----------------------------------------------------------------------------
(* Then the names: an event is thrown at only if the client's cache does   *)
(* not hold the type name of the events where the server's did.  The       *)
(* reader's state is here a set of entries that are sure to hold it; ghost *)
(* records, read or lost, can only take entries out of the set, so that a  *)
(* ghost record that is dropped or rolled back does no harm to the events. *)

Holds(c) == {i \in Ids : c.value[i] = EventName}

HoldLetters == {t \in (SUBSET Ids) \X Letters \X (SUBSET Ids) :
                   IF t[2].name.fresh
                   THEN t[2].name.str = EventName /\ t[3] \subseteq t[1] \cup {t[2].name.id}
                   ELSE t[2].name.id \in t[1] /\ t[3] \subseteq t[1]}

HoldRecords == {t \in (SUBSET Ids) \X Records \X (SUBSET Ids) :
                   /\ t[3] \subseteq t[1]
                   /\ t[2].kind = "new" /\ t[2].name.fresh => t[2].name.id \notin t[3]}

HoldWay(A, B) == Way(SUBSET Ids, HoldLetters, HoldRecords, A, B)

HoldersLead ==
    \E A, B \in SUBSET Ids :
        A \subseteq Holds(clientCache) /\ Holds(cache) \subseteq B /\ HoldWay(A, B)

CountInv == ConnectionInv /\ (~abandoned => EventsSurvive /\ HoldersLead)

LEMMA ReuseHolds ==
    ASSUME NEW c \in Caches, NEW e \in Ids, NEW s \in Strings
    PROVE  Holds(ReuseEntry(c, e, s)) =
              IF s = EventName THEN Holds(c) \cup {e} ELSE Holds(c) \ {e}
<1>1. /\ ReuseEntry(c, e, s).value[e] = s
      /\ \A i \in Ids \ {e} : ReuseEntry(c, e, s).value[i] = c.value[i]
  BY ReuseLookups
<1> QED BY <1>1 DEF Holds

LEMMA NewName ==
    ASSUME NEW r \in Records, r.kind = "new"
    PROVE  /\ r.name \in CachedStrings /\ r.name.fresh \in BOOLEAN /\ r.name.id \in Ids
           /\ r.name.fresh => r.name.str \in Strings
<1>1. r.name \in CachedStrings
  BY DEF Records
<1> QED BY <1>1 DEF CachedStrings

\* Records only take entries out of the set.
LEMMA RecordsShrink ==
    ASSUME NEW A, NEW B, NEW rs \in Seq(Records), Path(SUBSET Ids, HoldRecords, A, rs, B)
    PROVE  B \subseteq A
<1>1. PICK h \in [0 .. Len(rs) -> SUBSET Ids] :
          /\ h[0] = A /\ h[Len(rs)] = B
          /\ \A k \in 1 .. Len(rs) : <<h[k - 1], rs[k], h[k]>> \in HoldRecords
  BY DEF Path
<1> DEFINE D == {n \in Nat : n \in 0 .. Len(rs) => h[n] \subseteq A}
<1>2. Len(rs) \in Nat
  OBVIOUS
<1>3. 0 \in D
  BY <1>1
<1>4. ASSUME NEW n \in D PROVE n + 1 \in D
  <2> SUFFICES ASSUME n + 1 \in 0 .. Len(rs) PROVE h[n + 1] \subseteq A
    OBVIOUS
  <2>1. n \in 0 .. Len(rs) /\ n + 1 \in 1 .. Len(rs) /\ (n + 1) - 1 = n
    BY <1>2
  <2>2. <<h[(n + 1) - 1], rs[n + 1], h[n + 1]>> \in HoldRecords
    BY <1>1, <2>1
  <2>3. h[n + 1] \subseteq h[n]
    BY <2>1, <2>2 DEF HoldRecords
  <2>4. h[n] \subseteq A
    BY <2>1
  <2> QED BY <2>3, <2>4
<1>5. D = Nat
  <2>1. D \in SUBSET Nat
    OBVIOUS
  <2> HIDE DEF D
  <2> QED BY <1>3, <1>4, <2>1, NatSetInduction
<1>6. h[Len(rs)] \subseteq A
  BY <1>2, <1>5
<1> QED BY <1>1, <1>6

\* The caches may change as long as their sets go the right way.
LEMMA HoldersKept ==
    ASSUME HoldersLead, UNCHANGED <<letters, inbox, mail, wire, carried, out>>,
           Holds(clientCache) \subseteq Holds(clientCache'), Holds(cache') \subseteq Holds(cache)
    PROVE  HoldersLead'
<1>1. PICK A, B \in SUBSET Ids :
          A \subseteq Holds(clientCache) /\ Holds(cache) \subseteq B /\ HoldWay(A, B)
  BY DEF HoldersLead
<1>2. HoldWay(A, B)'
  BY <1>1, WayKept DEF HoldWay
<1>3. A \subseteq Holds(clientCache') /\ Holds(cache') \subseteq B
  BY <1>1
<1> QED BY <1>2, <1>3 DEF HoldersLead, Holds

LEMMA CountInitial == ConnectionInit => CountInv
<1> SUFFICES ASSUME ConnectionInit PROVE CountInv
  OBVIOUS
<1>1. ConnectionInv
  BY ConnectionInitial
<1>2. EventsSurvive
  <2>1. /\ posted = 0 /\ queue = <<>> /\ processed = <<>> /\ letters = <<>> /\ mail = <<>>
        /\ carried = <<>>
    BY DEF ConnectionInit
  <2>2. FlattenSeq(<<>>) = <<>>
    BY FlattenEmpty
  <2>3. (<<>> \o <<>>) \o <<>> = <<>>
    OBVIOUS
  <2>4. Numbers(<<>>) = <<>>
    BY DEF Numbers
  <2>5. UnderWay = <<>>
    BY <2>1, <2>2, <2>3, <2>4 DEF UnderWay
  <2> QED BY <2>1, <2>5 DEF EventsSurvive
<1>3. HoldersLead
  <2>1. Holds(clientCache) = Holds(cache) /\ Holds(cache) \in SUBSET Ids
    BY DEF ConnectionInit, Init, Holds
  <2>2. HoldWay(Holds(cache), Holds(cache))
    BY <2>1, WayStart DEF HoldWay
  <2> QED BY <2>1, <2>2 DEF HoldersLead
<1> QED BY <1>1, <1>2, <1>3 DEF CountInv

\* The events of a packet, read where the entries of B hold their name.
LEMMA EventsHold ==
    ASSUME ConnectionInv, WriteEvents, NEW B \in SUBSET Ids, Holds(cache) \subseteq B
    PROVE  \E C \in SUBSET Ids : /\ Path(SUBSET Ids, HoldLetters, B, carried', C)
                                 /\ Holds(cache') \subseteq C
<1>1. PICK n \in 0 .. Len(queue) :
          /\ carried' = [k \in 1 .. n |-> [name |-> NameInPacket(k), event |-> queue[k]]]
          /\ cache' = IF n = 0 THEN cache ELSE AfterWrite(cache, EventName)
          /\ carried' \in Seq(Letters) /\ Len(carried') = n
  BY WriteEventsFacts
<1>2. /\ cache \in Caches /\ WellLinked(cache) /\ KnownHeld(cache) /\ EventName \in Strings
      /\ n \in Nat
  BY StreamTypes, ConnectionConstants DEF ConnectionInv, GhostInv
<1>3. \A k \in 1 .. n : carried'[k].name = NameInPacket(k) /\ carried'[k] \in Letters
  BY <1>1, <1>2
<1> DEFINE after == AfterWrite(cache, EventName)
\* Where a name is known it is held, and a name that is known is written as such.
<1>4. ASSUME NEW c \in Caches, KnownHeld(c), Knows(c, EventName)
      PROVE  ~Written(c, EventName).fresh /\ Written(c, EventName).id \in Holds(c)
  <2>1. c.hash[EventName] \in Ids /\ c.value[c.hash[EventName]] = EventName
    BY <1>2, <1>4 DEF KnownHeld, Knows, LookupByString, Caches
  <2> QED BY <1>4, <2>1 DEF Written, LookupByString, Holds
<1>5. after \in Caches /\ KnownHeld(after) /\ Knows(after, EventName)
  BY <1>2, WriteType, WriteKeepsKnownHeld, WriteIsKnown
<1> HIDE DEF after
<1>6. \A k \in 2 .. n : ~NameInPacket(k).fresh /\ NameInPacket(k).id \in Holds(after)
  <2>1. \A k \in 2 .. n : NameInPacket(k) = Written(after, EventName)
    BY DEF NameInPacket, after
  <2> QED BY <1>4, <1>5, <2>1
<1>7. NameInPacket(1) = Written(cache, EventName)
  BY DEF NameInPacket
<1>8. CASE Knows(cache, EventName)
  <2>1. cache' = cache /\ after = cache
    BY <1>1, <1>8 DEF AfterWrite, after
  <2>2. \A k \in 1 .. n : ~NameInPacket(k).fresh /\ NameInPacket(k).id \in B
    <3>1. ~NameInPacket(1).fresh /\ NameInPacket(1).id \in B
      BY <1>2, <1>4, <1>7, <1>8
    <3>2. \A k \in 2 .. n : ~NameInPacket(k).fresh /\ NameInPacket(k).id \in B
      BY <1>6, <2>1
    <3>3. \A k \in 1 .. n : k = 1 \/ k \in 2 .. n
      BY <1>2
    <3> QED BY <3>1, <3>2, <3>3
  <2>3. \A k \in 1 .. n : <<IF k = 1 THEN B ELSE B, carried'[k], B>> \in HoldLetters
    BY <1>3, <2>2 DEF HoldLetters
  <2>4. Path(SUBSET Ids, HoldLetters, B, carried', B)
    BY <1>1, <2>3, PathSettles
  <2> QED BY <2>1, <2>4
<1>9. CASE ~Knows(cache, EventName)
  <2>1. PICK e \in Ids : e = GetOldestEntry(cache)
    BY <1>2, OldestIsAnEntry
  <2>2. after = ReuseEntry(cache, e, EventName)
    BY <1>9, <2>1 DEF AfterWrite, after
  <2>3. Holds(after) = Holds(cache) \cup {e}
    BY <1>2, <2>2, ReuseHolds
  <2>4. NameInPacket(1).fresh /\ NameInPacket(1).id = e /\ NameInPacket(1).str = EventName
    BY <1>7, <1>9, <2>1 DEF Written
  <2>5. CASE n = 0
    <3>1. carried' = <<>> /\ cache' = cache
      BY <1>1, <2>5
    <3>2. Path(SUBSET Ids, HoldLetters, B, carried', B)
      BY <3>1, PathEmpty
    <3> QED BY <3>1, <3>2
  <2>6. CASE n # 0
    <3>1. PICK C \in SUBSET Ids : C = B \cup {e}
      OBVIOUS
    <3>2. Holds(cache') \subseteq C
      BY <1>1, <2>3, <2>6, <3>1 DEF after
    <3>3. ASSUME NEW k \in 1 .. n
          PROVE  <<IF k = 1 THEN B ELSE C, carried'[k], C>> \in HoldLetters
      <4>1. CASE k = 1
        <5>1. <<B, carried'[k], C>> \in HoldLetters
          BY <1>3, <2>4, <3>1, <4>1 DEF HoldLetters
        <5> QED BY <4>1, <5>1
      <4>2. CASE k # 1
        <5>1. k \in 2 .. n
          BY <1>2, <4>2
        <5>2. ~NameInPacket(k).fresh /\ NameInPacket(k).id \in C
          BY <1>6, <2>3, <3>1, <5>1
        <5>3. <<C, carried'[k], C>> \in HoldLetters
          BY <1>3, <5>2 DEF HoldLetters
        <5> QED BY <4>2, <5>3
      <4> QED BY <4>1, <4>2
    <3>4. carried' # <<>>
      BY <1>1, <2>6
    <3>5. Path(SUBSET Ids, HoldLetters, B, carried', C)
      BY <1>1, <3>3, <3>4, PathSettles
    <3> QED BY <3>2, <3>5
  <2> QED BY <2>5, <2>6
<1> QED BY <1>8, <1>9

\* No ghost is called what the events are called.
NamesDiffer == \A g \in Ghosts : Prototype[g] # EventName

LEMMA UpdateHolds ==
    ASSUME NamesDiffer, GhostInv, NEW g \in Ghosts, info[g] # NoInfo
    PROVE  /\ Holds(CacheAfterUpdate(g)) \subseteq Holds(cache)
           /\ \A B \in SUBSET Ids : Holds(cache) \subseteq B =>
                 \E C \in SUBSET Ids : /\ <<B, UpdateRecord(g), C>> \in HoldRecords
                                       /\ Holds(CacheAfterUpdate(g)) \subseteq C
<1> DEFINE r == UpdateRecord(g)
<1>1. /\ r.kind = IF info[g].isGhosted THEN "update" ELSE "new"
      /\ ~info[g].isGhosted => r.name = Written(cache, Prototype[g])
      /\ r \in Records
  BY UpdateSays, UpdateFacts
<1>2. /\ cache \in Caches /\ WellLinked(cache) /\ Prototype[g] \in Strings
      /\ Prototype[g] # EventName
  BY StreamTypes, GhostAssumption DEF GhostInv, NamesDiffer
<1> HIDE DEF r
<1>3. CASE info[g].isGhosted \/ Knows(cache, Prototype[g])
  <2>1. CacheAfterUpdate(g) = cache
    BY <1>3 DEF CacheAfterUpdate, AfterWrite
  <2>2. r.kind = "new" => ~r.name.fresh
    BY <1>1, <1>3 DEF Written
  <2>3. \A B \in SUBSET Ids : <<B, r, B>> \in HoldRecords
    BY <1>1, <2>2 DEF HoldRecords
  <2> QED BY <2>1, <2>3 DEF r
<1>4. CASE ~info[g].isGhosted /\ ~Knows(cache, Prototype[g])
  <2>1. PICK e \in Ids : e = GetOldestEntry(cache)
    BY <1>2, OldestIsAnEntry
  <2>2. CacheAfterUpdate(g) = ReuseEntry(cache, e, Prototype[g])
    BY <1>4, <2>1 DEF CacheAfterUpdate, AfterWrite
  <2>3. Holds(CacheAfterUpdate(g)) = Holds(cache) \ {e}
    BY <1>2, <2>2, ReuseHolds
  <2>4. r.name.id = e
    BY <1>1, <1>4, <2>1 DEF Written
  <2>5. ASSUME NEW B \in SUBSET Ids, Holds(cache) \subseteq B
        PROVE  \E C \in SUBSET Ids : /\ <<B, r, C>> \in HoldRecords
                                     /\ Holds(CacheAfterUpdate(g)) \subseteq C
    <3>1. PICK C \in SUBSET Ids : C = B \ {e}
      OBVIOUS
    <3>2. <<B, r, C>> \in HoldRecords
      BY <1>1, <2>4, <3>1 DEF HoldRecords
    <3> QED BY <2>3, <2>5, <3>1, <3>2
  <2> QED BY <2>3, <2>5 DEF r
<1> QED BY <1>3, <1>4

LEMMA WriteEventsHolds ==
    ASSUME ConnectionInv, HoldersLead, WriteEvents
    PROVE  HoldersLead'
<1>1. PICK A, B \in SUBSET Ids :
          A \subseteq Holds(clientCache) /\ Holds(cache) \subseteq B /\ HoldWay(A, B)
  BY DEF HoldersLead
<1>2. PICK C \in SUBSET Ids : /\ Path(SUBSET Ids, HoldLetters, B, carried', C)
                              /\ Holds(cache') \subseteq C
  BY <1>1, EventsHold
<1>3. /\ carried = <<>> /\ out = <<>>
      /\ UNCHANGED <<letters, inbox, mail, wire, out, clientCache>>
  BY DEF WriteEvents, clientVars, ConnectionInv, Tidy, Flagged, NothingHalfWritten
<1>4. HoldWay(A, C)'
  BY <1>1, <1>2, <1>3, WayWithEvents DEF HoldWay
<1> QED BY <1>1, <1>2, <1>3, <1>4 DEF HoldersLead, Holds

LEMMA WriteGhostsHolds ==
    ASSUME NamesDiffer, ConnectionInv, HoldersLead, WriteGhosts
    PROVE  HoldersLead'
<1>1. UNCHANGED <<letters, inbox, mail, wire, carried, clientCache>>
  BY DEF WriteGhosts, eventVars, BeginPacket, AttachGhost, RefreshPriority,
         BuildPendingUpdates, WriteKill, WriteUpdate, clientVars
<1>2. CASE ~ \E g \in Ghosts : WriteKill(g) \/ WriteUpdate(g)
  <2>1. UNCHANGED <<out, cache>>
    BY <1>2 DEF WriteGhosts, BeginPacket, AttachGhost, RefreshPriority, BuildPendingUpdates,
                writeVars
  <2> QED BY <1>1, <2>1, HoldersKept
<1>3. ASSUME NEW g \in Ghosts, WriteKill(g) \/ WriteUpdate(g) PROVE HoldersLead'
  <2>1. GhostInv /\ info[g] # NoInfo
    BY <1>3 DEF ConnectionInv, GhostInv, WriteKill, WriteUpdate, Current, PendingAreAttached
  <2>2. PICK A, B \in SUBSET Ids :
            A \subseteq Holds(clientCache) /\ Holds(cache) \subseteq B /\ HoldWay(A, B)
    BY DEF HoldersLead
  <2>3. \E r \in Records, C \in SUBSET Ids :
            /\ out' = Append(out, r) /\ <<B, r, C>> \in HoldRecords /\ Holds(cache') \subseteq C
    <3>1. CASE WriteKill(g)
      <4>1. PICK r : r = [kind |-> "kill", id |-> SlotOf(g), ghost |-> g]
        OBVIOUS
      <4>2. SlotOf(g) \in GhostIds
        BY <2>1, SlotFound DEF GhostInv
      <4>3. r \in Records /\ r.kind = "kill"
        BY <4>1, <4>2 DEF Records
      <4>4. out' = Append(out, r) /\ cache' = cache
        BY <3>1, <4>1 DEF WriteKill
      <4>5. <<B, r, B>> \in HoldRecords
        BY <4>3 DEF HoldRecords
      <4> QED BY <2>2, <4>3, <4>4, <4>5
    <3>2. CASE WriteUpdate(g)
      <4>1. out' = Append(out, UpdateRecord(g)) /\ cache' = CacheAfterUpdate(g)
        BY <3>2 DEF WriteUpdate
      <4>2. UpdateRecord(g) \in Records
        BY <2>1, UpdateFacts
      <4>3. PICK C \in SUBSET Ids : /\ <<B, UpdateRecord(g), C>> \in HoldRecords
                                    /\ Holds(CacheAfterUpdate(g)) \subseteq C
        BY <2>1, <2>2, UpdateHolds
      <4> QED BY <4>1, <4>2, <4>3
    <3> QED BY <1>3, <3>1, <3>2
  <2>4. PICK r \in Records, C \in SUBSET Ids :
            /\ out' = Append(out, r) /\ <<B, r, C>> \in HoldRecords /\ Holds(cache') \subseteq C
    BY <2>3
  <2>5. HoldWay(A, C)'
    BY <1>1, <2>2, <2>4, WayWithRecord DEF HoldWay
  <2> QED BY <1>1, <2>2, <2>4, <2>5 DEF HoldersLead, Holds
<1> QED BY <1>2, <1>3

\* A definition that is rolled back only takes an entry from the server.
LEMMA TransmitHolds ==
    ASSUME NamesDiffer, ConnectionInv, HoldersLead, Transmit
    PROVE  HoldersLead'
<1>1. /\ UNCHANGED <<letters, inbox, clientCache>>
      /\ wire' = Append(wire, out) /\ out' = <<>>
      /\ mail' = Append(mail, carried) /\ carried' = <<>>
  BY DEF Transmit, SendPacket, RunOutOfRoom, Leave, clientVars
<1>2. Holds(cache') \subseteq Holds(cache)
  <2>1. CASE SendPacket
    BY <2>1 DEF SendPacket
  <2>2. ASSUME NEW g \in Ghosts, RunOutOfRoom(g) PROVE Holds(cache') \subseteq Holds(cache)
    <3>1. GhostInv /\ info[g] # NoInfo /\ cache' = CacheAfterUpdate(g)
      BY <2>2 DEF ConnectionInv, GhostInv, RunOutOfRoom, Current, PendingAreAttached
    <3> QED BY <3>1, UpdateHolds
  <2> QED BY <2>1, <2>2 DEF Transmit
<1>3. PICK A, B \in SUBSET Ids :
          A \subseteq Holds(clientCache) /\ Holds(cache) \subseteq B /\ HoldWay(A, B)
  BY DEF HoldersLead
<1>4. HoldWay(A, B)'
  BY <1>1, <1>3, WaySent DEF HoldWay
<1> QED BY <1>1, <1>2, <1>3, <1>4 DEF HoldersLead, Holds

\* Records given up leave the server with fewer entries than a reader who has
\* not read them.
LEMMA AbandonHolds ==
    ASSUME ConnectionInv, HoldersLead, Abandon, carried = <<>>
    PROVE  HoldersLead'
<1>1. /\ UNCHANGED <<letters, inbox, mail, wire, clientCache, cache>>
      /\ carried' = <<>> /\ out' = <<>>
  BY DEF Abandon, FinalFlagThrows, Leave, clientVars
<1>2. PICK A, B \in SUBSET Ids :
          A \subseteq Holds(clientCache) /\ Holds(cache) \subseteq B /\ HoldWay(A, B)
  BY DEF HoldersLead
<1>3. PICK C \in SUBSET Ids : Path(SUBSET Ids, HoldRecords, C, out, B) /\ HoldWay(A, C)'
  BY <1>1, <1>2, WayGivenUp DEF HoldWay
<1>4. B \subseteq C
  BY <1>3, WayTypes, RecordsShrink
<1> QED BY <1>1, <1>2, <1>3, <1>4 DEF HoldersLead, Holds

LEMMA BeginToReadHolds ==
    ASSUME ConnectionInv, HoldersLead, BeginToRead
    PROVE  HoldersLead'
<1>1. /\ letters = <<>> /\ inbox = <<>> /\ wire # <<>>
      /\ letters' = Head(mail) /\ inbox' = Head(wire) /\ mail' = Tail(mail)
      /\ wire' = Tail(wire) /\ UNCHANGED <<carried, out, clientCache, cache>>
  BY DEF BeginToRead, BeginRead, writeVars
<1>2. PICK A, B \in SUBSET Ids :
          A \subseteq Holds(clientCache) /\ Holds(cache) \subseteq B /\ HoldWay(A, B)
  BY DEF HoldersLead
<1>3. HoldWay(A, B)'
  BY <1>1, <1>2, WayIntoPacket DEF HoldWay
<1> QED BY <1>1, <1>2, <1>3 DEF HoldersLead, Holds

\* No event is thrown at.
LEMMA ReadEventHolds ==
    ASSUME ConnectionInv, HoldersLead, ReadEvent \/ ReadEventThrows
    PROVE  ~ReadEventThrows /\ HoldersLead'
<1>1. PICK A, B \in SUBSET Ids :
          A \subseteq Holds(clientCache) /\ Holds(cache) \subseteq B /\ HoldWay(A, B)
  BY DEF HoldersLead
<1>2. letters # <<>> /\ letters \in Seq(Letters)
  BY WayTypes DEF ReadEvent, ReadEventThrows
<1>3. PICK C \in SUBSET Ids :
          /\ <<A, Head(letters), C>> \in HoldLetters
          /\ letters' = Tail(letters) /\ UNCHANGED <<inbox, mail, wire, carried, out>>
                => HoldWay(C, B)'
  BY <1>1, <1>2, WayOverLetter DEF HoldWay
<1>4. PICK w : w = Head(letters).name
  OBVIOUS
<1>5. w.fresh \in BOOLEAN /\ w.id \in Ids /\ clientCache \in Caches /\ EventName \in Strings
  <2>1. Head(letters) \in Letters
    BY <1>2
  <2>2. w \in CachedStrings
    BY <1>4, <2>1, LettersType
  <2> QED BY <2>2, StreamTypes, ConnectionConstants DEF CachedStrings, ConnectionInv
<1>6. IF w.fresh THEN w.str = EventName /\ C \subseteq A \cup {w.id}
      ELSE w.id \in A /\ C \subseteq A
  BY <1>3, <1>4 DEF HoldLetters
<1>7. ReadString(clientCache, w) = EventName
  BY <1>1, <1>5, <1>6 DEF ReadString, LookupById, Holds
<1>8. C \subseteq Holds(AfterRead(clientCache, w))
  <2>1. CASE w.fresh
    <3>1. AfterRead(clientCache, w) = ReuseEntry(clientCache, w.id, EventName)
      BY <1>6, <2>1 DEF AfterRead
    <3>2. Holds(AfterRead(clientCache, w)) = Holds(clientCache) \cup {w.id}
      BY <1>5, <3>1, ReuseHolds
    <3> QED BY <1>1, <1>6, <2>1, <3>2
  <2>2. CASE ~w.fresh
    BY <1>1, <1>6, <2>2 DEF AfterRead
  <2> QED BY <2>1, <2>2
<1>9. ~ReadEventThrows
  BY <1>4, <1>7 DEF ReadEventThrows, LetterName
<1>10. /\ letters' = Tail(letters) /\ clientCache' = AfterRead(clientCache, w)
       /\ UNCHANGED <<inbox, mail, wire, carried, out, cache>>
  BY <1>4, <1>9 DEF ReadEvent, serverVars, writeVars
<1> QED BY <1>1, <1>3, <1>8, <1>9, <1>10 DEF HoldersLead, Holds

\* A ghost record, understood or not, takes no entry that is counted on.
LEMMA ReadGhostsHolds ==
    ASSUME ConnectionInv, HoldersLead, ReadGhosts
    PROVE  HoldersLead'
<1>1. PICK A, B \in SUBSET Ids :
          A \subseteq Holds(clientCache) /\ Holds(cache) \subseteq B /\ HoldWay(A, B)
  BY DEF HoldersLead
<1>2. /\ letters = <<>> /\ inbox # <<>> /\ UNCHANGED serverVars /\ UNCHANGED eventVars
  BY DEF ReadGhosts, ReadKill, ReadUpdate, ReadNew, ReadThrows, Misread, Reading
<1>3. UNCHANGED <<letters, mail, wire, carried, out, cache>>
  BY <1>2 DEF serverVars, writeVars, eventVars
<1>4. inbox \in Seq(Records) /\ Record \in Records /\ clientCache \in Caches
  <2>1. inbox \in Seq(Records) /\ clientCache \in Caches
    BY StreamTypes DEF ConnectionInv
  <2>2. Head(inbox) \in Records
    BY <1>2, <2>1
  <2> QED BY <2>1, <2>2 DEF Record
<1>5. CASE ReadKill \/ ReadUpdate \/ ReadNew
  <2>1. PICK C \in SUBSET Ids :
            /\ <<A, Head(inbox), C>> \in HoldRecords
            /\ inbox' = Tail(inbox) /\ UNCHANGED <<letters, mail, wire, carried, out>>
                  => HoldWay(C, B)'
    BY <1>1, <1>2, WayOverRecord DEF HoldWay
  <2>2. C \subseteq A /\ (Record.kind = "new" /\ Record.name.fresh => Record.name.id \notin C)
    BY <2>1 DEF HoldRecords, Record
  <2>3. inbox' = Tail(inbox) /\ HoldWay(C, B)'
    BY <1>3, <1>5, <2>1 DEF ReadKill, ReadUpdate, ReadNew
  <2>4. C \subseteq Holds(clientCache')
    <3>1. CASE ReadKill \/ ReadUpdate
      <4>1. clientCache' = clientCache
        BY <3>1 DEF ReadKill, ReadUpdate
      <4> QED BY <1>1, <2>2, <4>1
    <3>2. CASE ReadNew
      <4>1. Record.kind = "new" /\ clientCache' = AfterRead(clientCache, Record.name)
        BY <3>2 DEF ReadNew
      <4>2. CASE ~Record.name.fresh
        <5>1. clientCache' = clientCache
          BY <4>1, <4>2 DEF AfterRead
        <5> QED BY <1>1, <2>2, <5>1
      <4>3. CASE Record.name.fresh
        <5>1. Record.name.id \in Ids /\ Record.name.str \in Strings
          BY <1>4, <4>1, <4>3, NewName
        <5>2. clientCache' = ReuseEntry(clientCache, Record.name.id, Record.name.str)
          BY <4>1, <4>3 DEF AfterRead
        <5>3. Holds(clientCache) \ {Record.name.id} \subseteq Holds(clientCache')
          BY <1>4, <5>1, <5>2, ReuseHolds
        <5> QED BY <1>1, <2>2, <4>1, <4>3, <5>3
      <4> QED BY <4>2, <4>3
    <3> QED BY <1>5, <3>1, <3>2
  <2> QED BY <1>1, <1>3, <2>3, <2>4 DEF HoldersLead, Holds
<1>6. CASE ReadThrows
  <2>1. inbox' = <<>>
    BY <1>6 DEF ReadThrows
  <2>2. PICK C \in SUBSET Ids : Path(SUBSET Ids, HoldRecords, A, inbox, C) /\ HoldWay(C, B)'
    BY <1>1, <1>2, <1>3, <2>1, WayDropped DEF HoldWay
  <2>3. C \subseteq A
    BY <1>4, <2>2, RecordsShrink
  <2>4. clientCache' = clientCache
    <3>1. CASE UNCHANGED clientCache
      BY <3>1
    <3>2. CASE /\ Record.kind = "new" /\ DecodedName = NoString
               /\ clientCache' = AfterRead(clientCache, Record.name)
      <4>1. ~Record.name.fresh
        BY <1>4, <3>2, NewName, IdsFacts DEF DecodedName, ReadString
      <4> QED BY <3>2, <4>1 DEF AfterRead
    <3> QED BY <1>6, <3>1, <3>2 DEF ReadThrows
  <2> QED BY <1>1, <1>3, <2>2, <2>3, <2>4 DEF HoldersLead, Holds
<1>7. CASE Misread
  <2>1. UNCHANGED <<inbox, clientCache>>
    BY <1>7 DEF Misread
  <2> QED BY <1>3, <2>1, HoldersKept
<1> QED BY <1>5, <1>6, <1>7 DEF ReadGhosts

LEMMA NoEventsAbandoned ==
    ASSUME ConnectionInv, [ConnectionNext]_connectionVars, ~abandoned'
    PROVE  ~abandoned /\ (Abandon => carried = <<>>)
<1>1. CASE Abandon
  <2>1. abandoned' = (abandoned \/ carried # <<>>) /\ abandoned \in BOOLEAN
    BY <1>1 DEF Abandon, ConnectionInv, ConnectionTypes
  <2> QED BY <2>1
<1>2. CASE ~Abandon
  <2>1. abandoned' = abandoned
    BY <1>2 DEF ConnectionNext, Send, ReadNext, PostEvent, Play, WriteEvents, WriteGhosts,
                Transmit, BeginToRead, ReadEvent, ReadEventThrows, ReadGhosts, eventVars,
                connectionVars
  <2> QED BY <1>2, <2>1
<1> QED BY <1>1, <1>2

LEMMA CountNext ==
    ASSUME NamesDiffer
    PROVE  CountInv /\ [ConnectionNext]_connectionVars => CountInv'
<1> SUFFICES ASSUME CountInv, [ConnectionNext]_connectionVars PROVE CountInv'
  OBVIOUS
<1>1. ConnectionInv /\ ConnectionInv'
  BY ConnectionStep DEF CountInv
<1> SUFFICES ASSUME ~abandoned' PROVE EventsSurvive' /\ HoldersLead'
  BY <1>1 DEF CountInv
<1>2. ~abandoned /\ (Abandon => carried = <<>>)
  BY <1>1, NoEventsAbandoned
<1>3. EventsSurvive /\ HoldersLead
  BY <1>2 DEF CountInv
<1>4. CASE PostEvent
  <2>1. UNCHANGED <<letters, inbox, mail, wire, carried, out, clientCache, cache>>
    BY <1>4 DEF PostEvent, vars, writeVars, clientVars
  <2> QED BY <1>1, <1>3, <1>4, <2>1, PostedCounts, HoldersKept
<1>5. CASE Play \/ UNCHANGED connectionVars
  <2>1. UNCHANGED <<letters, inbox, mail, wire, carried, out, clientCache, cache>>
        /\ UNCHANGED <<posted, processed, queue>>
    BY <1>5 DEF Play, Game, ChangeProperty, ChangeScope, CheckTrackedProperties, eventVars,
                connectionVars, vars, writeVars, clientVars
  <2> QED BY <1>3, <2>1, HoldersKept DEF EventsSurvive, UnderWay
<1>6. CASE WriteEvents
  <2>1. UNCHANGED <<posted, processed>>
    BY <1>6 DEF WriteEvents
  <2> QED BY <1>1, <1>3, <1>6, <2>1, WrittenCounts, WriteEventsHolds DEF EventsSurvive
<1>7. CASE WriteGhosts
  <2>1. UNCHANGED eventVars
    BY <1>7 DEF WriteGhosts
  <2> QED BY <1>1, <1>3, <1>7, <2>1, WriteGhostsHolds DEF EventsSurvive, UnderWay, eventVars
<1>8. CASE Transmit
  <2>1. UNCHANGED <<posted, processed>>
    BY <1>8 DEF Transmit
  <2> QED BY <1>1, <1>3, <1>8, <2>1, TransmittedCounts, TransmitHolds DEF EventsSurvive
<1>9. CASE Abandon
  <2>1. UNCHANGED <<posted, processed, queue, mail, letters>> /\ carried' = <<>>
    BY <1>9 DEF Abandon
  <2> QED BY <1>1, <1>2, <1>3, <1>9, <2>1, AbandonHolds DEF EventsSurvive, UnderWay
<1>10. CASE BeginToRead
  <2>1. UNCHANGED <<posted, processed>>
    BY <1>10 DEF BeginToRead
  <2> QED BY <1>1, <1>3, <1>10, <2>1, TakenCounts, BeginToReadHolds DEF EventsSurvive
<1>11. CASE ReadEvent \/ ReadEventThrows
  <2>1. ReadEvent /\ HoldersLead'
    BY <1>1, <1>3, <1>11, ReadEventHolds
  <2> QED BY <1>1, <1>3, <2>1, ProcessedCounts
<1>12. CASE ReadGhosts
  <2>1. UNCHANGED eventVars
    BY <1>12 DEF ReadGhosts
  <2> QED BY <1>1, <1>3, <1>12, <2>1, ReadGhostsHolds DEF EventsSurvive, UnderWay, eventVars
<1> QED BY <1>4, <1>5, <1>6, <1>7, <1>8, <1>9, <1>10, <1>11, <1>12
        DEF ConnectionNext, Send, ReadNext

\* Every event is processed once and in the order they were posted, or is still
\* under way, although ghosts take room in its packets and entries in its
\* string cache (GhostConnection.as:60-78, EventConnection.as:43-82), unless a
\* packet with events was abandoned.  No ghost may be called what the events
\* are called: its name, rolled back with it, would leave the server sure that
\* the client knows the events' name.
THEOREM EventsStayAccountedFor ==
    ASSUME \A g \in Ghosts : Prototype[g] # EventName
    PROVE  ConnectionSpec => []EventsAccountedFor
<1>1. ConnectionInit => CountInv
  BY CountInitial
<1>2. CountInv /\ [ConnectionNext]_connectionVars => CountInv'
  <2>1. NamesDiffer
    BY DEF NamesDiffer
  <2> QED BY <2>1, CountNext
<1>3. CountInv => EventsAccountedFor
  BY DEF CountInv, EventsAccountedFor, EventsSurvive
<1> QED BY <1>1, <1>2, <1>3, PTL DEF ConnectionSpec

-----------------------------------------------------------------------------
(* What the program sees of a connection is a channel: the events under     *)
(* way only lose the one that is processed.                                 *)

LEMMA ConnectionCarries ==
    ASSUME NamesDiffer, CountInv, [ConnectionNext]_connectionVars, ~abandoned'
    PROVE  ~abandoned /\ (Posts \/ Processes \/ UNCHANGED <<UnderWay, processed>>)
<1>1. ConnectionInv
  BY DEF CountInv
<1>2. ~abandoned /\ (Abandon => carried = <<>>)
  BY <1>1, NoEventsAbandoned
<1>3. HoldersLead
  BY <1>2 DEF CountInv
<1>4. CASE PostEvent
  BY <1>1, <1>2, <1>4, PostEventPosts
<1>5. CASE Play \/ WriteGhosts \/ ReadGhosts \/ UNCHANGED connectionVars
  <2>1. UNCHANGED eventVars
    BY <1>5 DEF Play, WriteGhosts, ReadGhosts, connectionVars
  <2> QED BY <1>2, <2>1 DEF UnderWay, eventVars
<1>6. CASE WriteEvents
  <2>1. processed' = processed
    BY <1>6 DEF WriteEvents
  <2> QED BY <1>1, <1>2, <1>6, <2>1, WrittenCounts
<1>7. CASE Transmit
  <2>1. processed' = processed
    BY <1>7 DEF Transmit
  <2> QED BY <1>1, <1>2, <1>7, <2>1, TransmittedCounts
<1>8. CASE Abandon
  <2>1. UNCHANGED <<processed, queue, mail, letters, carried>>
    BY <1>2, <1>8 DEF Abandon
  <2> QED BY <1>2, <2>1 DEF UnderWay
<1>9. CASE BeginToRead
  <2>1. processed' = processed
    BY <1>9 DEF BeginToRead
  <2> QED BY <1>1, <1>2, <1>9, <2>1, TakenCounts
<1>10. CASE ReadEvent \/ ReadEventThrows
  <2>1. ReadEvent
    BY <1>1, <1>3, <1>10, ReadEventHolds
  <2> QED BY <1>1, <1>2, <2>1, ReadEventProcesses
<1> QED BY <1>4, <1>5, <1>6, <1>7, <1>8, <1>9, <1>10 DEF ConnectionNext, Send, ReadNext

LEMMA ProgramStart == ConnectionInit => ProgramView!Init
<1> SUFFICES ASSUME ConnectionInit PROVE ProgramView!Init
  OBVIOUS
<1>1. /\ queue = <<>> /\ processed = <<>> /\ letters = <<>> /\ mail = <<>>
      /\ carried = <<>> /\ abandoned = FALSE
  BY DEF ConnectionInit
<1>2. FlattenSeq(<<>>) = <<>>
  BY FlattenEmpty
<1>3. (<<>> \o <<>>) \o <<>> = <<>>
  OBVIOUS
<1>4. Numbers(<<>>) = <<>>
  BY DEF Numbers
<1>5. UnderWay = <<>>
  BY <1>1, <1>2, <1>3, <1>4 DEF UnderWay
<1> QED BY <1>1, <1>5 DEF ProgramView!Init, LastProcessed

LEMMA ProgramIsServed ==
    ASSUME NamesDiffer
    PROVE  ConnectionSpec =>
               /\ ProgramView!Init
               /\ [][ProgramView!Next]_<<UnderWay, LastProcessed, abandoned>>
<1>1. CountInv /\ [ConnectionNext]_connectionVars
        => [ProgramView!Next]_<<UnderWay, LastProcessed, abandoned>>
  <2> SUFFICES ASSUME CountInv, [ConnectionNext]_connectionVars
               PROVE  [ProgramView!Next]_<<UnderWay, LastProcessed, abandoned>>
    OBVIOUS
  <2>1. CASE abandoned'
    BY <2>1 DEF ProgramView!Next
  <2>2. CASE ~abandoned'
    <3>1. /\ ~abandoned /\ (Posts \/ Processes \/ UNCHANGED <<UnderWay, processed>>)
      BY <2>2, ConnectionCarries
    <3>2. abandoned' = abandoned
      <4>1. ConnectionInv /\ ConnectionInv'
        BY ConnectionStep DEF CountInv
      <4>2. abandoned \in BOOLEAN /\ abandoned' \in BOOLEAN
        BY <4>1 DEF ConnectionInv, ConnectionTypes
      <4> QED BY <2>2, <3>1, <4>2
    <3>3. processed' = processed => LastProcessed' = LastProcessed
      BY DEF LastProcessed
    <3>4. CASE Posts
      BY <3>2, <3>3, <3>4 DEF Posts, ProgramView!Next, ProgramView!Post
    <3>5. CASE Processes
      <4>1. PICK p, x : p = processed /\ x = Head(UnderWay)
        OBVIOUS
      <4>2. p \in Seq(Nat) /\ x \in Nat
        <5>1. UnderWay \in Seq(Nat) /\ UnderWay # <<>> /\ processed \in Seq(Nat)
          BY <3>5, UnderWayType DEF Processes, CountInv, ConnectionInv, ConnectionTypes
        <5> QED BY <4>1, <5>1
      <4>3. processed' = Append(p, x) /\ UnderWay # <<>> /\ UnderWay' = Tail(UnderWay)
        BY <3>5, <4>1 DEF Processes
      <4>4. Append(p, x) # <<>> /\ Last(Append(p, x)) = x
        <5>1. Len(Append(p, x)) = Len(p) + 1 /\ Append(p, x)[Len(p) + 1] = x
          BY <4>2
        <5>2. Append(p, x) # <<>>
          BY <4>2
        <5> QED BY <5>1, <5>2 DEF Last
      <4>5. LastProcessed' = Head(UnderWay)
        BY <4>1, <4>3, <4>4 DEF LastProcessed
      <4> QED BY <3>1, <3>2, <4>3, <4>5 DEF ProgramView!Next, ProgramView!Process
    <3>6. CASE UNCHANGED <<UnderWay, processed>>
      BY <3>2, <3>3, <3>6
    <3> QED BY <3>1, <3>4, <3>5, <3>6
  <2> QED BY <2>1, <2>2
<1>2. CountInv /\ [ConnectionNext]_connectionVars => CountInv'
  BY CountNext
<1> QED BY <1>1, <1>2, ProgramStart, CountInitial, PTL DEF ConnectionSpec

\* A GhostConnection is to the game a mirror of its ghosts, and at the same time
\* to the program a channel of events, for all ghosts, slots, packet sizes and
\* events: no packet, slot, name or flag shows, and neither part of a packet
\* shows in the other (GhostConnection.as:60-78, EventConnection.as:43-120,
\* GhostManager.as:103-206), until a packet is abandoned or, for the ghosts, a
\* name rolled back.  No ghost may be called what the events are called.
THEOREM ConnectionServesGameAndProgram ==
    ASSUME \A g \in Ghosts : Prototype[g] # EventName
    PROVE  ConnectionSpec => ServesGameAndProgram
<1>1. NamesDiffer
  BY DEF NamesDiffer
<1>2. ConnectionSpec =>
          /\ ProgramView!Init
          /\ [][ProgramView!Next]_<<UnderWay, LastProcessed, abandoned>>
  BY <1>1, ProgramIsServed
<1> QED BY <1>2, GameIsServed DEF ServesGameAndProgram
=============================================================================
