---------------------------- MODULE PacketStream -----------------------------
(***************************************************************************)
(* Packets of a fixed size over a TCP stream: one direction of             *)
(* core/NetworkConnection.as.  The stream keeps every byte and the order,   *)
(* and hands over any number of them at a time.  A byte is its number in    *)
(* the stream; packet k is the k-th run of LENGTHFIELDSIZE + PACKETSIZE     *)
(* bytes.  The length is only tested for zero, and no packet has length     *)
(* zero: every EventConnection writes at least one flag.                    *)
(*                                                                          *)
(* The other end may also be a Flash Player that asks for the policy file   *)
(* before it connects for the game.                                         *)
(***************************************************************************)
EXTENDS Naturals, Sequences

CONSTANTS
    LENGTHFIELDSIZE,  \* bytes of a packet's length
    PACKETSIZE,       \* bytes that follow it
    FirstLook,        \* the first read waits for more than this (10)
    RequestSize,      \* bytes of a policy request
    MaxPackets        \* bound on the packets sent

VARIABLES
    client,         \* what the sending end is: "game" or "policy"
    transmitted,    \* packets sent so far
    wire,           \* bytes in flight
    buf,            \* bytes received and not read
    firstResponse,  \* firstResponse
    held,           \* firstDataLen: the length read ahead of the loop
    reading,        \* where readPackets() is
    handed,         \* what readPacket() has been called with
    answered,       \* policy responses written
    torn,           \* auxiliary: a packet was read before all of it was there
    threw           \* auxiliary: the last readPackets() ended in an exception

vars == <<client, transmitted, wire, buf, firstResponse, held, reading, handed,
          answered, torn, threw>>

Size == LENGTHFIELDSIZE + PACKETSIZE
Run(m, n) == [j \in 1..n |-> m + j]
PacketBytes(k) == Run((k - 1) * Size, Size)
Payload(k) == Run((k - 1) * Size + LENGTHFIELDSIZE, PACKETSIZE)
After(s, n) == SubSeq(s, n + 1, Len(s))

Init ==
    /\ client \in {"game", "policy"}
    /\ transmitted = 0
    /\ wire = (IF client = "policy" THEN Run(0, RequestSize) ELSE <<>>)
    /\ buf = <<>>
    /\ firstResponse = TRUE
    /\ held = <<>>
    /\ reading = "no"
    /\ handed = <<>>
    /\ answered = 0
    /\ torn = FALSE /\ threw = FALSE

(* transmitPacket(): a full packet, whatever its length field says.         *)
TransmitPacket ==
    /\ client = "game" /\ transmitted < MaxPackets
    /\ transmitted' = transmitted + 1
    /\ wire' = wire \o PacketBytes(transmitted + 1)
    /\ UNCHANGED <<client, buf, firstResponse, held, reading, handed, answered,
                   torn, threw>>

-----------------------------------------------------------------------------
(* Bytes arrive, and SOCKET_DATA calls readPackets().                       *)
SocketData ==
    /\ reading = "no"
    /\ \E n \in 1..Len(wire) :
        /\ buf' = buf \o SubSeq(wire, 1, n)
        /\ wire' = After(wire, n)
    /\ reading' = "first"
    /\ threw' = FALSE
    /\ UNCHANGED <<client, transmitted, firstResponse, held, handed, answered, torn>>

LooksAhead == firstResponse /\ Len(buf) > FirstLook
IsPolicyMark(s) == client = "policy" /\ s = Run(0, LENGTHFIELDSIZE)

AnswerPolicyRequest_NotConsumed ==                              \* mutant
    /\ reading = "first" /\ LooksAhead
    /\ IsPolicyMark(SubSeq(buf, 1, LENGTHFIELDSIZE))
    /\ answered' = answered + 1
    /\ reading' = "no"
    /\ UNCHANGED <<buf, client, transmitted, wire, firstResponse, held, handed, torn,
                   threw>>

(* The first bytes are those of a policy request: answer it and leave the   *)
(* rest where it is.                                                        *)
AnswerPolicyRequest ==
    /\ reading = "first" /\ LooksAhead
    /\ IsPolicyMark(SubSeq(buf, 1, LENGTHFIELDSIZE))
    /\ buf' = After(buf, LENGTHFIELDSIZE)
    /\ answered' = answered + 1
    /\ reading' = "no"
    /\ UNCHANGED <<client, transmitted, wire, firstResponse, held, handed, torn,
                   threw>>

HoldFirstLength_Forgotten ==                                    \* mutant
    /\ reading = "first" /\ LooksAhead
    /\ ~IsPolicyMark(SubSeq(buf, 1, LENGTHFIELDSIZE))
    /\ buf' = After(buf, LENGTHFIELDSIZE)
    /\ firstResponse' = FALSE
    /\ reading' = "loop"
    /\ UNCHANGED <<held, client, transmitted, wire, handed, answered, torn, threw>>

(* They are not: the length that was read is the first packet's.            *)
HoldFirstLength ==
    /\ reading = "first" /\ LooksAhead
    /\ ~IsPolicyMark(SubSeq(buf, 1, LENGTHFIELDSIZE))
    /\ held' = SubSeq(buf, 1, LENGTHFIELDSIZE)
    /\ buf' = After(buf, LENGTHFIELDSIZE)
    /\ firstResponse' = FALSE
    /\ reading' = "loop"
    /\ UNCHANGED <<client, transmitted, wire, handed, answered, torn, threw>>

LookNoFurther ==
    /\ reading = "first" /\ ~LooksAhead
    /\ reading' = "loop"
    /\ UNCHANGED <<client, transmitted, wire, buf, firstResponse, held, handed,
                   answered, torn, threw>>

-----------------------------------------------------------------------------
MorePackets_StrictlyMore == Len(buf) > Size \/ held # <<>>      \* mutant

MorePackets == Len(buf) >= Size \/ held # <<>>

(* What follows the length of the packet at hand, and that length.          *)
Behind == IF held = <<>> THEN After(buf, LENGTHFIELDSIZE) ELSE buf
Length == IF held = <<>> THEN SubSeq(buf, 1, LENGTHFIELDSIZE) ELSE held

(* Any two bytes but a length may be zero.                                  *)
MayBeZero(s) == client = "policy" \/ s[1] % Size # 1 % Size

Consume(more) ==
    /\ reading = "loop" /\ MorePackets
    /\ Len(Behind) >= PACKETSIZE
    /\ buf' = After(Behind, PACKETSIZE)
    /\ held' = <<>>
    /\ reading' = more
    /\ UNCHANGED <<client, transmitted, wire, firstResponse, answered, torn>>

SkipEmpty ==
    /\ Consume("loop")
    /\ MayBeZero(Length)
    /\ UNCHANGED <<handed, threw>>

Handed == handed' = Append(handed, SubSeq(Behind, 1, PACKETSIZE))

ReadPacket == Consume("loop") /\ Handed /\ UNCHANGED threw

(* readPacket() throws out of readPackets().                                *)
ReadPacketThrows == Consume("no") /\ Handed /\ threw' = TRUE

(* readBytes() throws: there is less than a packet behind the length.       *)
ReadTorn ==
    /\ reading = "loop" /\ MorePackets
    /\ Len(Behind) < PACKETSIZE
    /\ buf' = Behind
    /\ held' = <<>>
    /\ reading' = "no"
    /\ torn' = TRUE /\ threw' = TRUE
    /\ UNCHANGED <<client, transmitted, wire, firstResponse, handed, answered>>

ReadEnds ==
    /\ reading = "loop" /\ ~MorePackets
    /\ reading' = "no"
    /\ UNCHANGED <<client, transmitted, wire, buf, firstResponse, held, handed,
                   answered, torn, threw>>

ReadPackets ==
    \/ AnswerPolicyRequest \/ HoldFirstLength \/ LookNoFurther
    \/ SkipEmpty \/ ReadPacket \/ ReadPacketThrows \/ ReadTorn \/ ReadEnds

Receive == SocketData \/ ReadPackets

-----------------------------------------------------------------------------
(* NetworkConnection.as:239-263: however the stream was cut up, and         *)
(* whichever packets made readPacket() throw, the packets read are the      *)
(* packets sent, each once and in order, until one is read too early.       *)
PacketsIntact ==
    client = "game" /\ ~torn => \A k \in 1..Len(handed) : handed[k] = Payload(k)

(* NetworkConnection.as:239: when readPackets() is over, no whole packet is *)
(* left behind to wait for more data, unless an exception ended it.         *)
NoPacketLeftBehind ==
    client = "game" /\ reading = "no" /\ ~threw => Len(buf) < Size

(* NetworkConnection.as:213-233: a policy request is answered, and answered *)
(* once, however it arrives.                                                *)
PolicyAnsweredOnce ==
    /\ answered <= 1
    /\ client = "policy" /\ reading = "no" /\ wire = <<>> => answered = 1
==============================================================================
