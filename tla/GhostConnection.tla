--------------------------- MODULE GhostConnection ---------------------------
(***************************************************************************)
(* A GhostConnection from the server to the client: the packets carry first *)
(* the events, then the ghosts (ghosting/GhostConnection.as over            *)
(* events/EventConnection.as and ghosting/GhostManager.as).  Both parts     *)
(* share the bits of the packet and the string cache of the connection, and *)
(* an exception in the second loses the first as well.                      *)
(*                                                                          *)
(* The ghosts are those of GhostManager, whose actions are used as they     *)
(* are.  The events are all of one type and are numbered as they are        *)
(* posted; one of them always fits into an empty packet (EventConnection    *)
(* has the other cases).                                                    *)
(***************************************************************************)
EXTENDS GhostManager, SequencesExt

CONSTANTS
    EventName,      \* the type name of the events
    PayloadBits,    \* what serialize() writes for one
    PacketBits,     \* 8 * PACKETSIZE
    MaxEvents       \* bound on the events posted

ASSUME ConnectionAssumption ==
    /\ EventName \in Strings
    /\ PayloadBits \in Nat /\ PacketBits \in Nat /\ MaxEvents \in Nat
    /\ 1 + RefBits + NameBits + PayloadBits < PacketBits

VARIABLES
    posted,         \* events posted so far
    queue,          \* eventQueue
    begun,          \* the server is inside GhostConnection.writePacket
    carried,        \* the events in the packet being written
    mail,           \* the events of each packet of `wire'
    letters,        \* the events left in the packet being read
    processed,      \* what the client has processed
    abandoned       \* auxiliary: a packet with events was abandoned

eventVars == <<posted, queue, begun, carried, mail, letters, processed, abandoned>>
connectionVars == <<vars, eventVars>>

\* An event in a packet: what the cache put in the stream for its type name,
\* and the event.
Letters == [name : CachedStrings, event : Nat]

ConnectionInit ==
    /\ Init
    /\ posted = 0 /\ queue = <<>> /\ begun = FALSE
    /\ carried = <<>> /\ mail = <<>> /\ letters = <<>>
    /\ processed = <<>> /\ abandoned = FALSE

(* postEvent().                                                             *)
PostEvent ==
    /\ ~begun /\ posted < MaxEvents
    /\ posted' = posted + 1
    /\ queue' = Append(queue, posted + 1)
    /\ UNCHANGED <<vars, begun, carried, mail, letters, processed, abandoned>>

-----------------------------------------------------------------------------
\* What n events take.  Only the first may have to define their name.
EventBits(n) ==
    n * (1 + RefBits + PayloadBits)
      + IF n = 0 \/ Knows(cache, EventName) THEN 0 ELSE NameBits

EventsThatFit_LookedAtBefore ==                                  \* mutant
    {n \in 0..Len(queue) : n = 0 \/ EventBits(n - 1) < PacketBits}

EventsThatFit_LastStays ==                                       \* mutant
    {n \in 0..Len(queue) : n = 0 \/ (n < Len(queue) /\ EventBits(n) < PacketBits)}

\* One bit has to stay for the final flag.
EventsThatFit == {n \in 0..Len(queue) : EventBits(n) < PacketBits}

NameInPacket(k) ==
    Written(IF k = 1 THEN cache ELSE AfterWrite(cache, EventName), EventName)

WriteEvents_KeepsLastInQueue ==                                  \* mutant
    /\ ~begun /\ mode = "idle" /\ Len(wire) < MaxWire
    /\ \E n \in EventsThatFit :
        /\ \A k \in EventsThatFit : k <= n
        /\ carried' = [k \in 1..n |-> [name |-> NameInPacket(k), event |-> queue[k]]]
        /\ queue' = SubSeq(queue, IF n > 1 THEN n ELSE n + 1, Len(queue))
        /\ bits' = PacketBits - EventBits(n) - 1
        /\ cache' = IF n = 0 THEN cache ELSE AfterWrite(cache, EventName)
    /\ begun' = TRUE
    /\ UNCHANGED <<gameVars, protocol, slotVars, queryVars, mode, pending, out,
                   wire, clientVars, lost, polluted, posted, mail, letters,
                   processed, abandoned>>

(* EventConnection.writePacket(): the events that fit leave the queue, and  *)
(* the final flag is written behind them.  The one that did not fit is      *)
(* rolled back; its name was known by then.                                 *)
WriteEvents ==
    /\ ~begun /\ mode = "idle" /\ Len(wire) < MaxWire
    /\ \E n \in EventsThatFit :
        /\ \A k \in EventsThatFit : k <= n
        /\ carried' = [k \in 1..n |-> [name |-> NameInPacket(k), event |-> queue[k]]]
        /\ queue' = SubSeq(queue, n + 1, Len(queue))
        /\ bits' = PacketBits - EventBits(n) - 1
        /\ cache' = IF n = 0 THEN cache ELSE AfterWrite(cache, EventName)
    /\ begun' = TRUE
    /\ UNCHANGED <<gameVars, protocol, slotVars, queryVars, mode, pending, out,
                   wire, clientVars, lost, polluted, posted, mail, letters,
                   processed, abandoned>>

(* GhostManager.writePacket() in what is left of the packet.                *)
WriteGhosts ==
    /\ begun
    /\ \/ BeginPacket(bits)
       \/ \E g \in Ghosts : AttachGhost(g) \/ RefreshPriority(g)
       \/ BuildPendingUpdates
       \/ \E g \in Ghosts : WriteKill(g) \/ WriteUpdate(g)
    /\ UNCHANGED eventVars

(* Both parts are written and the packet is transmitted.                    *)
Transmit ==
    /\ SendPacket \/ \E g \in Ghosts : RunOutOfRoom(g)
    /\ mail' = Append(mail, carried)
    /\ carried' = <<>> /\ begun' = FALSE
    /\ UNCHANGED <<posted, queue, letters, processed, abandoned>>

(* The ghosts' final flag does not fit: the exception leaves writePacket()  *)
(* and sendPacket(), and the packet with the events in it is gone.          *)
Abandon ==
    /\ FinalFlagThrows
    /\ abandoned' = (abandoned \/ carried # <<>>)
    /\ carried' = <<>> /\ begun' = FALSE
    /\ UNCHANGED <<posted, queue, mail, letters, processed>>

-----------------------------------------------------------------------------
(* The client takes the next packet, and reads its events first.            *)
BeginToRead ==
    /\ letters = <<>> /\ BeginRead
    /\ letters' = Head(mail)
    /\ mail' = Tail(mail)
    /\ UNCHANGED <<posted, queue, begun, carried, processed, abandoned>>

LetterName == ReadString(clientCache, Head(letters).name)

ReadEvent ==
    /\ letters # <<>> /\ LetterName = EventName
    /\ processed' = Append(processed, Head(letters).event)
    /\ letters' = Tail(letters)
    /\ clientCache' = AfterRead(clientCache, Head(letters).name)
    /\ UNCHANGED <<serverVars, inbox, copies, confused,
                   posted, queue, begun, carried, mail, abandoned>>

(* "Got unknown event type": the name is none or that of a ghost.  The rest *)
(* of the packet is lost, the ghosts with it.                               *)
ReadEventThrows ==
    /\ letters # <<>> /\ LetterName # EventName
    /\ letters' = <<>> /\ inbox' = <<>>
    /\ clientCache' = AfterRead(clientCache, Head(letters).name)
    /\ UNCHANGED <<serverVars, copies, confused,
                   posted, queue, begun, carried, mail, processed, abandoned>>

ReadGhosts ==
    /\ letters = <<>>
    /\ ReadKill \/ ReadUpdate \/ ReadNew \/ ReadThrows \/ Misread
    /\ UNCHANGED eventVars

-----------------------------------------------------------------------------
Play ==
    /\ ~begun
    /\ Game \/ \E g \in Ghosts : CheckTrackedProperties(g)
    /\ UNCHANGED eventVars

Send == WriteEvents \/ WriteGhosts \/ Transmit \/ Abandon
ReadNext == BeginToRead \/ ReadEvent \/ ReadEventThrows \/ ReadGhosts

ConnectionNext == PostEvent \/ Play \/ Send \/ ReadNext

\* The network timer, and the client's socket, are served again and again.
ConnectionSpec ==
    /\ ConnectionInit /\ [][ConnectionNext]_connectionVars
    /\ SF_connectionVars(Send) /\ WF_connectionVars(ReadNext)

-----------------------------------------------------------------------------
ConnectionTypeOK ==
    /\ TypeOK
    /\ posted \in Nat /\ queue \in Seq(Nat) /\ processed \in Seq(Nat)
    /\ {carried, letters} \subseteq Seq(Letters)
    /\ mail \in Seq(Seq(Letters)) /\ Len(mail) = Len(wire)
    /\ {begun, abandoned} \subseteq BOOLEAN

Numbers(ls) == [k \in 1..Len(ls) |-> ls[k].event]

\* The events between the two ends, the oldest first.
UnderWay == Numbers(letters \o FlattenSeq(mail) \o carried) \o queue

\* GhostConnection.as:66-78: the client takes every ghost record for what it
\* is, when it has come to the ghosts of a packet, and the dirty flags say all
\* there is to say, although events go through the same packets and the same
\* string cache, and an event that cannot be read takes the ghosts of its packet
\* with it; unless a packet was abandoned or a prototype name rolled back (see
\* Undamaged).
GhostsInStep ==
    ~abandoned => (letters = <<>> => ClientInStep) /\ DirtyFlagsTellTheTruth

\* EventConnection.as:82, GhostConnection.as:60-78: every event is processed
\* once and in the order they were posted, or is still under way, although
\* the ghosts compete with the events for the packet and for the entries of
\* the string cache, unless a packet was abandoned.
EventsAccountedFor ==
    ~abandoned => processed \o UnderWay = [k \in 1..posted |-> k]

\* To the game a GhostConnection is still a mirror of its ghosts, and to the
\* program a channel of events: packets, slots, names and dirty flags, and what
\* the two do to each other in a packet, are invisible until a packet is
\* abandoned (or, for the ghosts, a name rolled back).
GameView == INSTANCE GhostMirror
            WITH truth <- protocol, given <- Given, coming <- Coming,
                 shown <- copies, damaged <- abandoned \/ ~Undamaged

LastProcessed == IF processed = <<>> THEN 0 ELSE Last(processed)

ProgramView == INSTANCE EventChannel
               WITH Events <- 1 .. MaxEvents, NoEvent <- 0, pending <- UnderWay,
                    processed <- LastProcessed, damaged <- abandoned

\* GhostConnection.as:60-78, EventConnection.as:43-120, GhostManager.as:103-206:
\* both at once.
ServesGameAndProgram ==
    /\ GameView!Init /\ [][GameView!Next]_<<protocol, Given, Coming, copies,
                                           abandoned \/ ~Undamaged>>
    /\ ProgramView!Init /\ [][ProgramView!Next]_<<UnderWay, LastProcessed, abandoned>>

\* EventConnection.as:82, GhostManager.as:142; TestEvent.as:10-11: the same
\* without the exception.
EventsSurvive == processed \o UnderWay = [k \in 1..posted |-> k]

\* EventConnection.as:43-82, GhostConnection.as:63: every event posted is
\* processed in the end, however many ghosts there are, unless a packet was
\* abandoned or the client mistook a ghost.
EventsArrive ==
    \A k \in 1..MaxEvents :
        posted >= k ~> Len(processed) >= k \/ abandoned \/ confused
=============================================================================
