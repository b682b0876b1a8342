---------------------------- MODULE GhostManager ----------------------------
(***************************************************************************)
(* Ghosting over one connection: the sending GhostManager on the server,   *)
(* the receiving one on the client, the stream of packets between them     *)
(* (ghosting/GhostManager.as, GhostInfo.as, Ghost.as, TrackedProperty.as). *)
(*                                                                         *)
(* The server decides for each packet which ghosts are in scope, gives     *)
(* each a slot (its ghost id), and writes kills and updates by priority    *)
(* until the packet is full.  Nothing is acknowledged, and the packet does *)
(* not say whether an update creates a ghost: the client infers it from    *)
(* its own slot being empty.                                               *)
(*                                                                         *)
(* The server is single threaded: writePacket runs to its end before the   *)
(* game does anything else, and is modelled in small steps only because it *)
(* is a loop.  The client runs concurrently.                               *)
(***************************************************************************)
EXTENDS NetStringCache, Sequences, FiniteSets, SequencesExt

CONSTANTS
    Ghosts,         \* the server objects that have a ghost
    Fields,         \* the dirty-flagged fields of the ghost protocol
    InitialFields,  \* those whose TrackedProperty is initialUpdateOnly
    Values,         \* values of a property
    Objects,        \* bound: the states that the objects can be in
    Default,        \* what a protocol element holds before it is ever set
    Prototype,      \* prototypeName of each ghost
    Empty,          \* an unused slot
    NoInfo,         \* no GhostInfo for this manager
    MaxGhostCount,  \* 1 << ghostBitCount
    GhostIdBits,    \* ghostBitCount
    FieldBits,      \* a field's value, after its dirty flag
    RefBits,        \* the string cache's flag and id
    NameBits,       \* what a string adds when the cache has to define it
    Scopes,         \* what the scoper may answer: priorities, 0 if not marked
    TopPriority,    \* Number.MAX_VALUE, above every scope priority
    Rooms,          \* bits that the events leave in a packet
    MaxWire         \* bound on the packets in flight

ASSUME GhostAssumption ==
    /\ IsFiniteSet(Ghosts) /\ IsFiniteSet(Fields) /\ InitialFields \subseteq Fields
    /\ Objects \subseteq [Ghosts -> [Fields -> Values]]
    /\ Prototype \in [Ghosts -> Strings]
    /\ Empty \notin Ghosts
    /\ MaxGhostCount \in Nat \ {0}
    /\ GhostIdBits \in Nat /\ FieldBits \in Nat
    /\ RefBits \in Nat /\ NameBits \in Nat
    /\ TopPriority \in Nat /\ Scopes \subseteq [Ghosts -> 0 .. TopPriority - 1]
    /\ Rooms \subseteq Nat
    /\ MaxWire \in Nat

GhostIds == 0 .. MaxGhostCount - 1

VARIABLES
  \* the game on the server
    object,         \* the tracked properties of each ghost's object
    scope,          \* what the scoper would answer now
  \* the server's GhostManager and the Ghosts it manages
    protocol,       \* the NetRoot values of each ghost (and tp.lastValue)
    ghostMap,       \* slot -> ghost
    info,           \* ghost -> its GhostInfo for this manager
    attachedGhosts, \* _attachedGhosts
    scopePriority,  \* Ghost.scopePriority
    inScope,        \* ghosts whose scopeToken is the current scopePassToken
    mode,           \* where writePacket is
    scopeQueue,     \* ghosts doScopeQuery has still to attach or refresh
    pending,        \* pendingUpdates
    bits,           \* bs.remainingBits
    out,            \* ghost records in the packet being written
    cache,          \* the server's stringCache
  \* the connection
    wire,           \* packets sent and not read yet
  \* the client's GhostManager
    inbox,          \* what is left of the packet being read
    copies,         \* slot -> the client's instance of a ghost
    clientCache,    \* the client's stringCache
  \* auxiliary
    lost,           \* a packet with side effects was abandoned
    polluted,       \* the server's cache holds a name it never sent
    confused        \* the client took one kind of record for another

gameVars   == <<object, scope>>
slotVars   == <<ghostMap, info, attachedGhosts>>
queryVars  == <<scopePriority, inScope, scopeQueue>>
writeVars  == <<mode, pending, bits, out>>
clientVars == <<inbox, copies, clientCache, confused>>
vars == <<gameVars, protocol, slotVars, queryVars, writeVars, cache, wire,
          clientVars, lost, polluted>>

Priorities == 0 .. TopPriority

GhostInfos == [dirtyFlags : SUBSET Fields, priority : Priorities,
               isGhosted : BOOLEAN, shouldKill : BOOLEAN]

ASSUME NoInfoAssumption == NoInfo \notin GhostInfos

States == [Fields -> Values \cup {Default}]

\* A protocol as NetRoot.getByName hands it out.
Blank == [f \in Fields |-> Default]

\* What a packet says about one slot.  "new" and "update" look alike on the
\* wire but for the prototype name; ghost is auxiliary.
Records ==
    [kind : {"kill"}, id : GhostIds, ghost : Ghosts]
      \cup
    [kind : {"update"}, id : GhostIds, ghost : Ghosts,
     fields : SUBSET Fields, state : States]
      \cup
    [kind : {"new"}, id : GhostIds, ghost : Ghosts, name : CachedStrings,
     fields : SUBSET Fields, state : States]

Copies == [ghost : Ghosts, state : States]

ASSUME EmptyAssumption == Empty \notin Copies

GameTypeOK ==
    /\ object \in [Ghosts -> [Fields -> Values]]
    /\ scope \in Scopes
    /\ protocol \in [Ghosts -> States]

SlotTypeOK ==
    /\ ghostMap \in [GhostIds -> Ghosts \cup {Empty}]
    /\ info \in [Ghosts -> GhostInfos \cup {NoInfo}]
    /\ attachedGhosts \in 0 .. MaxGhostCount

QueryTypeOK ==
    /\ scopePriority \in [Ghosts -> Priorities]
    /\ inScope \in SUBSET Ghosts
    /\ scopeQueue \in SUBSET Ghosts

WriteTypeOK ==
    /\ mode \in {"idle", "scoping", "writing"}
    /\ pending \in SUBSET Ghosts
    /\ bits \in Nat
    /\ out \in Seq(Records)
    /\ cache \in Caches
    /\ wire \in Seq(Seq(Records))
    /\ lost \in BOOLEAN /\ polluted \in BOOLEAN

ClientTypeOK ==
    /\ inbox \in Seq(Records)
    /\ copies \in [GhostIds -> Copies \cup {Empty}]
    /\ clientCache \in Caches
    /\ confused \in BOOLEAN

TypeOK == GameTypeOK /\ SlotTypeOK /\ QueryTypeOK /\ WriteTypeOK /\ ClientTypeOK

Init ==
    /\ object \in Objects
    /\ scope \in Scopes
    /\ protocol = [g \in Ghosts |-> Blank]
    /\ ghostMap = [i \in GhostIds |-> Empty]
    /\ info = [g \in Ghosts |-> NoInfo]
    /\ attachedGhosts = 0
    /\ scopePriority = [g \in Ghosts |-> 0]
    /\ inScope = {}
    /\ mode = "idle"
    /\ scopeQueue = {}
    /\ pending = {}
    /\ bits = 0
    /\ out = <<>>
    /\ cache = NewCache
    /\ wire = <<>>
    /\ inbox = <<>>
    /\ copies = [i \in GhostIds |-> Empty]
    /\ clientCache = NewCache
    /\ lost = FALSE /\ polluted = FALSE /\ confused = FALSE

-----------------------------------------------------------------------------
(* The game changes a property of an object, or what is to be in scope.    *)
ChangeProperty(g, f, v) ==
    /\ mode = "idle"
    /\ v # object[g][f]
    /\ object' = [object EXCEPT ![g][f] = v] /\ object' \in Objects
    /\ UNCHANGED <<scope, protocol, slotVars, queryVars, writeVars, cache, wire,
                   clientVars, lost, polluted>>

ChangeScope(s) ==
    /\ mode = "idle"
    /\ s # scope
    /\ scope' = s
    /\ UNCHANGED <<object, protocol, slotVars, queryVars, writeVars, cache, wire,
                   clientVars, lost, polluted>>

\* checkTrackedProperties of a ghost: the properties that differ from the last
\* value seen (initialUpdateOnly ones are passed over) ...
Changed(g) ==
    {f \in Fields \ InitialFields : object[g][f] # protocol[g][f]}

\* ... are copied into the protocol, and marked dirty in every GhostInfo.
Check(gs) ==
    /\ protocol' = [g \in Ghosts |->
                      [f \in Fields |-> IF g \in gs /\ f \in Changed(g)
                                        THEN object[g][f] ELSE protocol[g][f]]]

MarkedDirty_Overwrites(g, gs) ==              \* mutant
    IF g \in gs
    THEN [info[g] EXCEPT !.dirtyFlags = Changed(g)]
    ELSE info[g]

MarkedDirty(g, gs) ==
    IF g \in gs
    THEN [info[g] EXCEPT !.dirtyFlags = @ \cup Changed(g)]
    ELSE info[g]

(* GhostComponent.onTick.                                                  *)
CheckTrackedProperties(g) ==
    /\ mode = "idle"
    /\ Check({g})
    /\ info' = [h \in Ghosts |-> IF info[h] = NoInfo THEN NoInfo
                                 ELSE MarkedDirty(h, {g})]
    /\ UNCHANGED <<gameVars, ghostMap, attachedGhosts, queryVars, writeVars,
                   cache, wire, clientVars, lost, polluted>>

-----------------------------------------------------------------------------
Scoped == {g \in Ghosts : scope[g] > 0}

\* The top maxGhostCount of the ghosts marked in scope; sortOn leaves the order
\* of equal priorities open.
Selections ==
    {sel \in SUBSET Scoped :
        /\ Cardinality(sel) <= MaxGhostCount
        /\ sel # Scoped => Cardinality(sel) = MaxGhostCount
        /\ \A g \in sel, h \in Scoped \ sel : scope[g] >= scope[h]}

\* markShouldKill, for what is ghosted and not in this pass.
MarkedForDeath(gi) == [gi EXCEPT !.shouldKill = TRUE, !.priority = TopPriority]

(* writePacket, first part of doScopeQuery: the scoper checks the tracked  *)
(* properties of what it marks (ServerGame.scopeObjects), the surplus is   *)
(* dropped, and what is ghosted and out of scope is marked for death.      *)
BeginPacket(room) ==
    /\ mode = "idle"
    /\ Len(wire) < MaxWire
    /\ \E sel \in Selections :
          /\ info' = [g \in Ghosts |->
                IF info[g] = NoInfo THEN NoInfo
                ELSE IF g \notin sel /\ info[g].isGhosted
                THEN MarkedForDeath(MarkedDirty(g, Scoped))
                ELSE MarkedDirty(g, Scoped)]
          /\ inScope' = sel
          /\ scopeQueue' = sel
    /\ Check(Scoped)
    /\ scopePriority' = [g \in Ghosts |->
          IF g \in Scoped THEN scope[g] ELSE scopePriority[g]]
    /\ bits' = room
    /\ mode' = "scoping"
    /\ UNCHANGED <<gameVars, ghostMap, attachedGhosts, pending, out, cache, wire,
                   clientVars, lost, polluted>>

\* The attach loop goes through the selection by priority, until it is through
\* or all slots are taken.
Attaching == mode = "scoping" /\ scopeQueue # {} /\ attachedGhosts < MaxGhostCount

FirstInQueue(g) ==
    g \in scopeQueue /\ \A h \in scopeQueue : scopePriority[g] >= scopePriority[h]

FreeSlots == {i \in GhostIds : ghostMap[i] = Empty}

(* attachGhost and assignGhostID: a new GhostInfo, all dirty, in the first *)
(* free slot.                                                              *)
AttachGhost(g) ==
    /\ Attaching /\ FirstInQueue(g)
    /\ info[g] = NoInfo
    /\ info' = [info EXCEPT ![g] = [dirtyFlags |-> Fields,
                                    priority   |-> scopePriority[g],
                                    isGhosted  |-> FALSE,
                                    shouldKill |-> FALSE]]
    /\ \E i \in FreeSlots : /\ \A j \in FreeSlots : i <= j
                            /\ ghostMap' = [ghostMap EXCEPT ![i] = g]
    /\ attachedGhosts' = attachedGhosts + 1
    /\ scopeQueue' = scopeQueue \ {g}
    /\ UNCHANGED <<gameVars, protocol, scopePriority, inScope, writeVars, cache,
                   wire, clientVars, lost, polluted>>

(* "Was attached, but update priority."                                    *)
RefreshPriority(g) ==
    /\ Attaching /\ FirstInQueue(g)
    /\ info[g] # NoInfo
    /\ info' = [info EXCEPT ![g].priority = scopePriority[g]]
    /\ scopeQueue' = scopeQueue \ {g}
    /\ UNCHANGED <<gameVars, protocol, ghostMap, attachedGhosts, scopePriority,
                   inScope, writeVars, cache, wire, clientVars, lost, polluted>>

NeedsUpdate_KillsForgotten(g) ==              \* mutant
    info[g].dirtyFlags # {} \/ ~info[g].isGhosted

\* Every attached ghost that has something to say.
NeedsUpdate(g) ==
    info[g].shouldKill \/ info[g].dirtyFlags # {} \/ ~info[g].isGhosted

(* The end of doScopeQuery.                                                *)
BuildPendingUpdates ==
    /\ mode = "scoping" /\ ~Attaching
    /\ pending' = {g \in Ghosts : /\ \E i \in GhostIds : ghostMap[i] = g
                                  /\ NeedsUpdate(g)}
    /\ scopeQueue' = {}
    /\ mode' = "writing"
    /\ UNCHANGED <<gameVars, protocol, slotVars, scopePriority, inScope, bits, out,
                   cache, wire, clientVars, lost, polluted>>

-----------------------------------------------------------------------------
RoomForAnother == bits > GhostIdBits + 5

\* pendingUpdates.shift() after the sort by priority.
Current(g) ==
    /\ mode = "writing" /\ RoomForAnother /\ g \in pending
    /\ \A h \in pending : info[g].priority >= info[h].priority

SlotOf(g) == CHOOSE i \in GhostIds : ghostMap[i] = g

\* The more flag, the id and the kill flag start every record.
HeaderBits == 1 + GhostIdBits + 1

\* Ghost.serialize: a flag for each field, and the value if it is dirty.
StateBits(fields) == Cardinality(Fields) + FieldBits * Cardinality(fields)

UpdateBits(g) ==
    HeaderBits + StateBits(info[g].dirtyFlags)
      + IF info[g].isGhosted THEN 0
        ELSE RefBits + IF Knows(cache, Prototype[g]) THEN 0 ELSE NameBits

WriteKill_InfoKept(g) ==                      \* mutant
    /\ Current(g) /\ info[g].shouldKill
    /\ out' = Append(out, [kind |-> "kill", id |-> SlotOf(g), ghost |-> g])
    /\ ghostMap' = [ghostMap EXCEPT ![SlotOf(g)] = Empty]
    /\ attachedGhosts' = attachedGhosts - 1
    /\ bits' = bits - HeaderBits
    /\ pending' = pending \ {g}
    /\ UNCHANGED <<gameVars, protocol, info, queryVars, mode, cache, wire,
                   clientVars, lost, polluted>>

(* The ghost is marked for death: write its id and detachGhost it.         *)
WriteKill(g) ==
    /\ Current(g) /\ info[g].shouldKill
    /\ out' = Append(out, [kind |-> "kill", id |-> SlotOf(g), ghost |-> g])
    /\ ghostMap' = [ghostMap EXCEPT ![SlotOf(g)] = Empty]
    /\ info' = [info EXCEPT ![g] = NoInfo]
    /\ attachedGhosts' = attachedGhosts - 1
    /\ bits' = bits - HeaderBits
    /\ pending' = pending \ {g}
    /\ UNCHANGED <<gameVars, protocol, queryVars, mode, cache, wire, clientVars,
                   lost, polluted>>

\* The record of an update: the dirty fields, and for a ghost the client does
\* not have yet, its prototype name.
UpdateRecord(g) ==
    IF info[g].isGhosted
    THEN [kind |-> "update", id |-> SlotOf(g), ghost |-> g,
          fields |-> info[g].dirtyFlags, state |-> protocol[g]]
    ELSE [kind |-> "new", id |-> SlotOf(g), ghost |-> g,
          name |-> Written(cache, Prototype[g]),
          fields |-> info[g].dirtyFlags, state |-> protocol[g]]

CacheAfterUpdate(g) ==
    IF info[g].isGhosted THEN cache ELSE AfterWrite(cache, Prototype[g])

WriteUpdate_RoomNotChecked(g) ==              \* mutant
    /\ Current(g) /\ ~info[g].shouldKill
    /\ out' = Append(out, UpdateRecord(g))
    /\ cache' = CacheAfterUpdate(g)
    /\ info' = [info EXCEPT ![g].isGhosted = TRUE, ![g].dirtyFlags = {}]
    /\ bits' = bits - UpdateBits(g)
    /\ pending' = pending \ {g}
    /\ UNCHANGED <<gameVars, protocol, ghostMap, attachedGhosts, queryVars, mode,
                   wire, clientVars, lost, polluted>>

(* An update that fits, if only just.                                      *)
WriteUpdate(g) ==
    /\ Current(g) /\ ~info[g].shouldKill
    /\ UpdateBits(g) <= bits
    /\ out' = Append(out, UpdateRecord(g))
    /\ cache' = CacheAfterUpdate(g)
    /\ info' = [info EXCEPT ![g].isGhosted = TRUE, ![g].dirtyFlags = {}]
    /\ bits' = bits - UpdateBits(g)
    /\ pending' = pending \ {g}
    /\ UNCHANGED <<gameVars, protocol, ghostMap, attachedGhosts, queryVars, mode,
                   wire, clientVars, lost, polluted>>

\* writePacket is left; its locals and pendingUpdates are gone.
Leave == mode' = "idle" /\ pending' = {} /\ bits' = 0 /\ out' = <<>>

(* An update that does not fit: the stream is rolled back (the string      *)
(* cache is not), the final flag written and the packet sent.              *)
RunOutOfRoom(g) ==
    /\ Current(g) /\ ~info[g].shouldKill
    /\ UpdateBits(g) > bits
    /\ cache' = CacheAfterUpdate(g)
    /\ polluted' = (polluted \/ CacheAfterUpdate(g) # cache)
    /\ wire' = Append(wire, out)
    /\ Leave
    /\ UNCHANGED <<gameVars, protocol, slotVars, queryVars, clientVars, lost>>

LoopDone == mode = "writing" /\ (pending = {} \/ ~RoomForAnother)

(* The loop is done: the final flag is written and the packet sent.        *)
SendPacket ==
    /\ LoopDone /\ bits > 0
    /\ wire' = Append(wire, out)
    /\ Leave
    /\ UNCHANGED <<gameVars, protocol, slotVars, queryVars, cache, clientVars,
                   lost, polluted>>

(* The records have filled the packet to its last bit: writing the final   *)
(* flag throws out of writePacket and the packet is never sent.            *)
FinalFlagThrows ==
    /\ LoopDone /\ bits = 0
    /\ lost' = (lost \/ out # <<>>)
    /\ Leave
    /\ UNCHANGED <<gameVars, protocol, slotVars, queryVars, cache, wire,
                   clientVars, polluted>>

-----------------------------------------------------------------------------
(* The client takes the next packet off the socket.                        *)
BeginRead ==
    /\ inbox = <<>> /\ wire # <<>> /\ ~confused
    /\ inbox' = Head(wire)
    /\ wire' = Tail(wire)
    /\ UNCHANGED <<gameVars, protocol, slotVars, queryVars, writeVars, cache,
                   copies, clientCache, confused, lost, polluted>>

Reading == inbox # <<>> /\ ~confused
Record == Head(inbox)
SlotInUse == copies[Record.id] # Empty

\* The prototype name that a "new" record decodes to at the client.
DecodedName == ReadString(clientCache, Record.name)

\* The properties that an update sets: initialUpdateOnly ones only at first.
Updated(old, fields, new) ==
    [f \in Fields |-> IF f \in fields THEN new[f] ELSE old[f]]

serverVars == <<gameVars, protocol, slotVars, queryVars, writeVars, cache, wire,
                lost, polluted>>

ReadKill_SlotNotCleared ==                    \* mutant
    /\ Reading /\ Record.kind = "kill" /\ SlotInUse
    /\ inbox' = Tail(inbox)
    /\ UNCHANGED <<serverVars, copies, clientCache, confused>>

(* A kill for a slot in use.                                               *)
ReadKill ==
    /\ Reading /\ Record.kind = "kill" /\ SlotInUse
    /\ copies' = [copies EXCEPT ![Record.id] = Empty]
    /\ inbox' = Tail(inbox)
    /\ UNCHANGED <<serverVars, clientCache, confused>>

(* An update for a slot in use.                                            *)
ReadUpdate ==
    /\ Reading /\ Record.kind = "update" /\ SlotInUse
    /\ copies' = [copies EXCEPT ![Record.id].state =
                     Updated(@, Record.fields \ InitialFields, Record.state)]
    /\ inbox' = Tail(inbox)
    /\ UNCHANGED <<serverVars, clientCache, confused>>

(* A new ghost for a free slot: instantiate the template, deserialize.     *)
ReadNew ==
    /\ Reading /\ Record.kind = "new" /\ ~SlotInUse
    /\ DecodedName = Prototype[Record.ghost]
    /\ copies' = [copies EXCEPT ![Record.id] =
                     [ghost |-> Record.ghost,
                      state |-> Updated(Blank, Record.fields, Record.state)]]
    /\ clientCache' = AfterRead(clientCache, Record.name)
    /\ inbox' = Tail(inbox)
    /\ UNCHANGED <<serverVars, confused>>

(* "Trying to delete a ghost ID that has no ghost!", or a name the client  *)
(* has no template for: the rest of the packet is lost.                    *)
ReadThrows ==
    /\ Reading
    /\ \/ Record.kind = "kill" /\ ~SlotInUse /\ UNCHANGED clientCache
       \/ /\ Record.kind = "new" /\ ~SlotInUse /\ DecodedName = NoString
          /\ clientCache' = AfterRead(clientCache, Record.name)
    /\ inbox' = <<>>
    /\ UNCHANGED <<serverVars, copies, confused>>

(* The record is taken for one of another kind or another prototype, and   *)
(* from here on the client parses bits that mean something else.           *)
Misread ==
    /\ Reading
    /\ \/ Record.kind = "update" /\ ~SlotInUse
       \/ Record.kind = "new" /\ SlotInUse
       \/ /\ Record.kind = "new" /\ ~SlotInUse
          /\ DecodedName \notin {NoString, Prototype[Record.ghost]}
    /\ confused' = TRUE
    /\ UNCHANGED <<serverVars, inbox, copies, clientCache>>

-----------------------------------------------------------------------------
Game == \/ \E g \in Ghosts, f \in Fields, v \in Values : ChangeProperty(g, f, v)
        \/ \E s \in Scopes : ChangeScope(s)

WritePacket ==
    \/ \E room \in Rooms : BeginPacket(room)
    \/ \E g \in Ghosts : AttachGhost(g) \/ RefreshPriority(g)
    \/ BuildPendingUpdates
    \/ \E g \in Ghosts : WriteKill(g) \/ WriteUpdate(g) \/ RunOutOfRoom(g)
    \/ SendPacket \/ FinalFlagThrows

ReadPacket == BeginRead \/ ReadKill \/ ReadUpdate \/ ReadNew \/ ReadThrows \/ Misread

Next == \/ Game
        \/ \E g \in Ghosts : CheckTrackedProperties(g)
        \/ WritePacket
        \/ ReadPacket

\* The network timer keeps firing between the steps of the game, a packet that
\* has been begun is finished, and the client reads what arrives.  The events
\* before the ghosts in a packet do not take the same room for ever.
Fairness ==
    /\ \A room \in Rooms : SF_vars(BeginPacket(room))
    /\ WF_vars(WritePacket)
    /\ WF_vars(ReadPacket)

Spec == Init /\ [][Next]_vars /\ Fairness

-----------------------------------------------------------------------------
\* The slots, the count of taken slots and the GhostInfos are three records of
\* one fact: a ghost has a GhostInfo iff it sits in a slot, it sits in one slot
\* only, and _attachedGhosts counts the slots.  So findGhostId finds what it is
\* asked for, registerGhostInfo never meets an old GhostInfo, and "No free
\* IDs!" is never thrown (GhostManager.as:213-296, 324-352).
SlotsMatchInfos ==
    /\ attachedGhosts = Cardinality({i \in GhostIds : ghostMap[i] # Empty})
    /\ \A i, j \in GhostIds : ghostMap[i] # Empty /\ ghostMap[i] = ghostMap[j]
                                => i = j
    /\ \A g \in Ghosts : info[g] # NoInfo <=> \E i \in GhostIds : ghostMap[i] = g

\* No packet was abandoned after writePacket had recorded it as sent, and no
\* definition of a prototype name was rolled back.
Undamaged == ~lost /\ ~polluted

\* The client takes every record for what it is: it finds the slot of a kill
\* or an update holding the very ghost the server means, that of a new ghost
\* empty, and decodes its name, although the packet says none of this and the
\* server reuses a slot as soon as it has written the kill
\* (GhostManager.as:103-120 against 165-206).
ClientInStep ==
    Undamaged /\ inbox # <<>> =>
        IF Record.kind = "new"
        THEN ~SlotInUse /\ DecodedName = Prototype[Record.ghost]
        ELSE SlotInUse /\ copies[Record.id].ghost = Record.ghost

Settled == mode = "idle" /\ wire = <<>> /\ inbox = <<>>

\* The dirty flags say all there is to say: once everything sent is read, the
\* client has exactly the ghosts the server thinks it has, in their slots, and
\* a field differs from the server's only if it is marked dirty
\* (GhostManager.as:135-138, Ghost.as:167-204, GhostInfo.as:56-68).
DirtyFlagsTellTheTruth ==
    Undamaged /\ Settled =>
        \A i \in GhostIds :
            LET g == ghostMap[i]
            IN  IF g # Empty /\ info[g].isGhosted
                THEN /\ copies[i] # Empty /\ copies[i].ghost = g
                     /\ \A f \in Fields \ info[g].dirtyFlags :
                           copies[i].state[f] = protocol[g][f]
                ELSE copies[i] = Empty

\* The ghost that the client has been given in each slot, or will have when it
\* has read what is under way.
Given == [i \in GhostIds |-> IF ghostMap[i] # Empty /\ info[ghostMap[i]].isGhosted
                            THEN ghostMap[i] ELSE Empty]

\* The records under way, the oldest first, and what each of them tells the
\* client to show.
Recorded == inbox \o FlattenSeq(wire) \o out

Told(r) == [slot |-> r.id,
            copy |-> IF r.kind = "kill" THEN Empty
                     ELSE [ghost |-> r.ghost, state |-> r.state]]

Tellings(rs) == [k \in 1 .. Len(rs) |-> Told(rs[k])]

Coming == Tellings(Recorded)

Mirror == INSTANCE GhostMirror
          WITH truth <- protocol, given <- Given, coming <- Coming,
               shown <- copies, damaged <- ~Undamaged

\* Ghosting implements GhostMirror: although a record carries only the fields
\* that are dirty, and the client applies some of them only to a ghost that is
\* new to it, what the client shows is at every moment a whole state of the
\* ghost, and the next one in the order of the server's records
\* (GhostManager.as:103-142, 165-206; Ghost.as:167-204).
ImplementsMirror == Mirror!Spec

\* What the client shows of a ghost, if it shows it in one slot and no other.
ShownOnce(g) ==
    Cardinality({i \in GhostIds : copies[i] # Empty /\ copies[i].ghost = g}) = 1

ClientShows(g) ==
    \E i \in GhostIds :
        /\ copies[i] # Empty /\ copies[i].ghost = g
        /\ \A f \in Fields \ InitialFields : copies[i].state[f] = object[g][f]

\* The client shows what is in scope, with its current values, and no more.
Consistent ==
    /\ \A g \in Scoped : ShownOnce(g) /\ ClientShows(g)
    /\ \A i \in GhostIds : copies[i] # Empty => copies[i].ghost \in Scoped

\* Once the game stops changing, and asks for no more ghosts than there are
\* slots, the client comes to show exactly what is in scope, with the last
\* values, and keeps showing it (GhostManager.writePacket and readPacket).
EventuallyConsistent ==
    /\ <>[][FALSE]_gameVars
    /\ <>[](Cardinality(Scoped) <= MaxGhostCount)
    /\ []Undamaged
    => <>[]Consistent
=============================================================================
