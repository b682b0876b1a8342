--------------------------- MODULE EventConnection ---------------------------
(***************************************************************************)
(* The two ends of an EventConnection (events/EventConnection.as over      *)
(* core/NetworkConnection.as).  Each end queues events, and on each tick   *)
(* writes as many as fit into one packet: a "more" flag, the cached type   *)
(* name and the payload for each event, and a final flag.  Type names go   *)
(* through the one NetStringCache of the connection, which is also used to *)
(* read what the other end sends.                                          *)
(*                                                                         *)
(* Each end is single threaded: a packet is written or read to its end     *)
(* before that end does anything else.  The two ends run concurrently, and *)
(* the stream between them (TCP) keeps order and loses nothing.            *)
(***************************************************************************)
EXTENDS NetStringCache, SequencesExt

CONSTANTS
    Events,         \* the events that may be posted
    TypeName,       \* the type name of each event
    PayloadBits,    \* what serialize() writes for each event
    RefBits,        \* the cache's flag and id
    NameBits,       \* what a string adds when the cache has to define it
    PacketBits,     \* 8 * PACKETSIZE
    Posters,        \* the ends at which the program posts events
    NoEvent,        \* nothing processed yet
    Garbled,        \* an event decoded as one of another type
    MaxQueue,       \* bound on the events waiting at an end
    MaxWire         \* bound on the packets in flight in one direction

Ends == {"client", "server"}
Peer(e) == IF e = "client" THEN "server" ELSE "client"

ASSUME EventAssumption ==
    /\ TypeName \in [Events -> Strings]
    /\ PayloadBits \in [Events -> Nat]
    /\ RefBits \in Nat \ {0} /\ NameBits \in Nat
    /\ PacketBits \in Nat \ {0}
    /\ Posters \subseteq Ends
    /\ NoEvent \notin Events /\ Garbled \notin Events
    /\ MaxQueue \in Nat /\ MaxWire \in Nat

VARIABLES
    queue,      \* eventQueue of each end
    cache,      \* stringCache of each end
    mode,       \* "idle", or "writing" while an end is inside writePacket
    bits,       \* bs.remainingBits of the packet being written
    index,      \* curEventIdx
    out,        \* the events in the packet being written
    wire,       \* packets sent by each end and not read yet
    inbox,      \* what is left of the packet an end is reading
    got,        \* the event an end processed last
    polluted    \* auxiliary: the end's cache holds a string it never sent

vars == <<queue, cache, mode, bits, index, out, wire, inbox, got, polluted>>

\* One event in a packet.  The payload stands for itself; `name' is what the
\* cache put in the stream for its type.
Messages == [name : CachedStrings, event : Events]

TypeOK ==
    /\ queue \in [Ends -> Seq(Events)]
    /\ cache \in [Ends -> Caches]
    /\ mode \in [Ends -> {"idle", "writing"}]
    /\ bits \in [Ends -> 0 .. PacketBits]
    /\ index \in [Ends -> Nat]
    /\ out \in [Ends -> Seq(Messages)]
    /\ wire \in [Ends -> Seq(Seq(Messages))]
    /\ inbox \in [Ends -> Seq(Messages)]
    /\ got \in [Ends -> Events \cup {NoEvent, Garbled}]
    /\ polluted \in [Ends -> BOOLEAN]

Init ==
    /\ queue = [e \in Ends |-> <<>>]
    /\ cache = [e \in Ends |-> NewCache]
    /\ mode = [e \in Ends |-> "idle"]
    /\ bits = [e \in Ends |-> 0]
    /\ index = [e \in Ends |-> 0]
    /\ out = [e \in Ends |-> <<>>]
    /\ wire = [e \in Ends |-> <<>>]
    /\ inbox = [e \in Ends |-> <<>>]
    /\ got = [e \in Ends |-> NoEvent]
    /\ polluted = [e \in Ends |-> FALSE]

-----------------------------------------------------------------------------
(* postEvent, from the program or from the process() of a received event.  *)
Post(e, ev) ==
    /\ mode[e] = "idle"
    /\ Len(queue[e]) < MaxQueue
    /\ queue' = [queue EXCEPT ![e] = Append(@, ev)]
    /\ UNCHANGED <<cache, mode, bits, index, out, wire, inbox, got, polluted>>

Idle(e) == mode[e] = "idle" /\ inbox[e] = <<>>

(* sendPacket: a fresh stream, and into writePacket.                       *)
BeginPacket(e) ==
    /\ Idle(e)
    /\ Len(wire[e]) < MaxWire
    /\ mode' = [mode EXCEPT ![e] = "writing"]
    /\ bits' = [bits EXCEPT ![e] = PacketBits]
    /\ UNCHANGED <<queue, cache, index, out, wire, inbox, got, polluted>>

MoreEvents(e) == index[e] < Len(queue[e])
Current(e) == queue[e][index[e] + 1]

\* The "more events" flag, the type name and the payload of the current event.
EventBits(e) ==
    1 + RefBits + PayloadBits[Current(e)]
      + IF Knows(cache[e], TypeName[Current(e)]) THEN 0 ELSE NameBits

Fits_PayloadOnly(e) == PayloadBits[Current(e)] < bits[e]    \* mutant
Fits_ToTheLastBit(e) == EventBits(e) <= bits[e]             \* mutant

\* Whatever fills the stream to its last bit is rolled back as well.
Fits(e) == EventBits(e) < bits[e]

(* One turn of the loop in writePacket, without an EOFError.               *)
WriteEvent(e) ==
    /\ mode[e] = "writing" /\ MoreEvents(e) /\ Fits(e)
    /\ LET name == TypeName[Current(e)]
       IN  /\ out' = [out EXCEPT ![e] =
                        Append(@, [name  |-> Written(cache[e], name),
                                   event |-> Current(e)])]
           /\ cache' = [cache EXCEPT ![e] = AfterWrite(@, name)]
    /\ bits' = [bits EXCEPT ![e] = @ - EventBits(e)]
    /\ index' = [index EXCEPT ![e] = @ + 1]
    /\ UNCHANGED <<queue, mode, wire, inbox, got, polluted>>

\* The turn that runs off the end: the stream position is rolled back, but
\* stringCache.write has already entered the name in the cache.
RollBack(e) ==
    LET name == TypeName[Current(e)]
    IN  /\ cache' = [cache EXCEPT ![e] = AfterWrite(@, name)]
        /\ polluted' = [polluted EXCEPT ![e] = @ \/ ~Knows(cache[e], name)]

LeaveLoop(e) ==
    \/ ~MoreEvents(e) /\ UNCHANGED <<cache, polluted>>
    \/ MoreEvents(e) /\ ~Fits(e) /\ RollBack(e)

Leave_IndexNotReset(e) ==                                   \* mutant
    /\ mode' = [mode EXCEPT ![e] = "idle"]
    /\ bits' = [bits EXCEPT ![e] = 0]
    /\ out' = [out EXCEPT ![e] = <<>>]
    /\ UNCHANGED index

\* writePacket is left, by return or by exception, and its locals are gone.
Leave(e) ==
    /\ mode' = [mode EXCEPT ![e] = "idle"]
    /\ bits' = [bits EXCEPT ![e] = 0]
    /\ index' = [index EXCEPT ![e] = 0]
    /\ out' = [out EXCEPT ![e] = <<>>]

SendPacket_WipesWholeQueue(e) ==                            \* mutant
    /\ mode[e] = "writing"
    /\ LeaveLoop(e)
    /\ index[e] > 0 \/ queue[e] = <<>>
    /\ queue' = [queue EXCEPT ![e] = <<>>]
    /\ wire' = [wire EXCEPT ![e] = Append(@, out[e])]
    /\ Leave(e)
    /\ UNCHANGED <<inbox, got>>

(* The rest of writePacket and transmitPacket: forget what was written,    *)
(* write the final flag, hand the packet to the socket.                    *)
SendPacket(e) ==
    /\ mode[e] = "writing"
    /\ LeaveLoop(e)
    /\ index[e] > 0 \/ queue[e] = <<>>
    /\ queue' = [queue EXCEPT ![e] = SubSeq(@, index[e] + 1, Len(@))]
    /\ wire' = [wire EXCEPT ![e] = Append(@, out[e])]
    /\ Leave(e)
    /\ UNCHANGED <<inbox, got>>

(* "Could not send the first event!": nothing is sent, nothing is removed. *)
FirstEventTooBig(e) ==
    /\ mode[e] = "writing"
    /\ LeaveLoop(e)
    /\ index[e] = 0 /\ queue[e] # <<>>
    /\ Leave(e)
    /\ UNCHANGED <<queue, wire, inbox, got>>

-----------------------------------------------------------------------------
(* readPackets takes the next packet off the socket.                       *)
BeginRead(e) ==
    /\ Idle(e)
    /\ wire[Peer(e)] # <<>>
    /\ inbox' = [inbox EXCEPT ![e] = Head(wire[Peer(e)])]
    /\ wire' = [wire EXCEPT ![Peer(e)] = Tail(@)]
    /\ UNCHANGED <<queue, cache, mode, bits, index, out, got, polluted>>

DecodedName(e) == ReadString(cache[e], Head(inbox[e]).name)

(* One turn of the loop in readPacket: the event is created by its name,   *)
(* deserialized and processed.                                             *)
ReadEvent(e) ==
    /\ inbox[e] # <<>>
    /\ DecodedName(e) = TypeName[Head(inbox[e]).event]
    /\ got' = [got EXCEPT ![e] = Head(inbox[e]).event]
    /\ cache' = [cache EXCEPT ![e] = AfterRead(@, Head(inbox[e]).name)]
    /\ inbox' = [inbox EXCEPT ![e] = Tail(@)]
    /\ UNCHANGED <<queue, mode, bits, index, out, wire, polluted>>

(* "Got unknown event type": the rest of the packet is lost.               *)
UnknownType(e) ==
    /\ inbox[e] # <<>>
    /\ DecodedName(e) = NoString
    /\ cache' = [cache EXCEPT ![e] = AfterRead(@, Head(inbox[e]).name)]
    /\ inbox' = [inbox EXCEPT ![e] = <<>>]
    /\ UNCHANGED <<queue, mode, bits, index, out, wire, got, polluted>>

(* The payload is parsed as that of another event; what follows in the     *)
(* packet is no longer aligned, and is given up here.                      *)
WrongType(e) ==
    /\ inbox[e] # <<>>
    /\ DecodedName(e) \notin {NoString, TypeName[Head(inbox[e]).event]}
    /\ got' = [got EXCEPT ![e] = Garbled]
    /\ cache' = [cache EXCEPT ![e] = AfterRead(@, Head(inbox[e]).name)]
    /\ inbox' = [inbox EXCEPT ![e] = <<>>]
    /\ UNCHANGED <<queue, mode, bits, index, out, wire, polluted>>

-----------------------------------------------------------------------------
Write(e) == WriteEvent(e) \/ SendPacket(e) \/ FirstEventTooBig(e)
Parse(e) == ReadEvent(e) \/ UnknownType(e) \/ WrongType(e)

Next ==
    \E e \in Ends :
        \/ e \in Posters /\ \E ev \in Events : Post(e, ev)
        \/ BeginPacket(e) \/ Write(e)
        \/ BeginRead(e) \/ Parse(e)

\* The network timer and the socket's data events are both served again and
\* again by the runtime's event loop, and a handler runs to its end.
Fairness ==
    \A e \in Ends : /\ SF_vars(BeginPacket(e)) /\ WF_vars(Write(e))
                    /\ SF_vars(BeginRead(e))   /\ WF_vars(Parse(e))

Spec == Init /\ [][Next]_vars /\ Fairness

-----------------------------------------------------------------------------
\* "Ran out of space to write final flag!" (EventConnection.as:91) is never
\* thrown, although the loop only stops once an event does not fit.
RoomForFinalFlag == \A e \in Ends : mode[e] = "writing" => bits[e] > 0

\* The type name of the next event decodes to the name it was written for,
\* unless the sender rolled back the definition of a name (for connections
\* on which one end posts; EventConnection.as:43-75, 99-120).
DecodesUnlessPolluted ==
    \A e \in Ends :
        inbox[e] # <<>> /\ ~polluted[Peer(e)]
            => DecodedName(e) = TypeName[Head(inbox[e]).event]

\* A packet never carries an event that stays queued as well: what is written
\* is exactly the front of the queue (EventConnection.as:82 with 43-66).
PacketIsQueueFront ==
    \A e \in Ends :
        mode[e] = "writing"
            => /\ Len(out[e]) = index[e] /\ index[e] <= Len(queue[e])
               /\ \A k \in 1 .. index[e] : out[e][k].event = queue[e][k]

\* "Makes sure we receive events in correct order, with no mixups, with correct
\* payloads" (tests/TestEvent.as:10-11).
NoMixups ==
    \A e \in Ends :
        inbox[e] # <<>> => DecodedName(e) = TypeName[Head(inbox[e]).event]

-----------------------------------------------------------------------------
EventsOf(msgs) == [k \in 1 .. Len(msgs) |-> msgs[k].event]

\* What is on its way from e to its peer: in the packet being read, in packets
\* on the wire, in the queue (the packet being written is still in the queue).
InTransit(e) == EventsOf(inbox[Peer(e)] \o FlattenSeq(wire[e])) \o queue[e]

ToClient == INSTANCE EventChannel
              WITH pending <- InTransit("server"), processed <- got["client"],
                   damaged <- polluted["server"]

\* The direction from the server to the client implements EventChannel:
\* packets, roll-backs and cached names are invisible to the program, unless
\* the definition of a name was rolled back.
ToClientImplementsChannel == ToClient!Spec
==============================================================================
