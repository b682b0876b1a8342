------------------------------ MODULE GameStream ------------------------------
(***************************************************************************)
(* A connection's packets from one end to the other.  The sending end is    *)
(* either a Flash Player, whose socket gives the network what it was given  *)
(* (its code is not in the repository), or the server, whose packets pass   *)
(* through the output buffer of ThaneSocket and reach the wire as its       *)
(* heartbeats send them.                                                    *)
(***************************************************************************)
EXTENDS ThaneSocket

CONSTANTS LENGTHFIELDSIZE, PACKETSIZE, FirstLook, RequestSize, MaxPackets

ASSUME PacketAssumption ==
    /\ {LENGTHFIELDSIZE, PACKETSIZE} \subseteq Nat \ {0}
    /\ {FirstLook, RequestSize, MaxPackets} \subseteq Nat
    /\ LENGTHFIELDSIZE <= FirstLook
    /\ FirstLook < RequestSize /\ RequestSize < PACKETSIZE + LENGTHFIELDSIZE

VARIABLES
    sender,     \* "flash" or "thane"
    client, transmitted, wire, buf, firstResponse, held, reading, handed,
    answered, torn, threw

Packets == INSTANCE PacketStream

streamVars == <<sender, vars, Packets!vars>>

StreamInit ==
    /\ Init /\ state = "connected"
    /\ Packets!Init
    /\ sender \in {"flash", "thane"}
    /\ sender = "thane" => client = "game"

FlashTransmits ==
    /\ sender = "flash"
    /\ Packets!TransmitPacket
    /\ UNCHANGED <<sender, vars>>

(* transmitPacket() on the server.                                          *)
ServerTransmits ==
    /\ sender = "thane" /\ transmitted < MaxPackets
    /\ WriteBytes
    /\ transmitted' = transmitted + 1
    /\ UNCHANGED <<sender, client, wire, buf, firstResponse, held, reading,
                   handed, answered, torn, threw>>

(* A heartbeat of the server's socket puts bytes on the wire.               *)
ServerHeartbeat ==
    /\ sender = "thane"
    /\ Transfer
    /\ wire' = wire \o From(sent', Len(sent))
    /\ UNCHANGED <<sender, client, transmitted, buf, firstResponse, held,
                   reading, handed, answered, torn, threw>>

Receives == Packets!Receive /\ UNCHANGED <<sender, vars>>

StreamNext == FlashTransmits \/ ServerTransmits \/ ServerHeartbeat \/ Receives

SendsMore == ServerHeartbeat /\ Len(sent') > Len(sent)

StreamSpec ==
    /\ StreamInit /\ [][StreamNext]_streamVars
    /\ WF_streamVars(Receives)
    /\ SF_streamVars(SendsMore)

-----------------------------------------------------------------------------
(* NetworkConnection.as:158, 239; Socket.as:114: the packets read are the   *)
(* packets sent, in order, however often the server could send only a part  *)
(* and however the rest arrives, unless the server transmitted while output *)
(* was left unsent, or the first packet was read before it was complete.    *)
PacketsIntact == clobbered \/ Packets!PacketsIntact

(* NetworkConnection.as:10: the same without the server's exception.        *)
PacketsSurvive == Packets!PacketsIntact

(* NetworkConnection.as:239: no whole packet waits for more data.           *)
NoPacketLeftBehind == Packets!NoPacketLeftBehind

(* NetworkConnection.as:213: every policy request is answered once.         *)
PolicyAnsweredOnce == Packets!PolicyAnsweredOnce

(* NetworkConnection.as:158, 262: every packet transmitted is read in the   *)
(* end, although nothing but later bytes makes the receiver look again,     *)
(* unless the stream was damaged or readPacket threw in the last event.     *)
EveryPacketRead ==
    \A k \in 1..MaxPackets :
        transmitted >= k ~> \/ Len(handed) >= k
                            \/ clobbered \/ torn \/ threw
==============================================================================
