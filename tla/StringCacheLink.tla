--------------------------- MODULE StringCacheLink ---------------------------
(***************************************************************************)
(* One direction of a connection, reduced to its cached strings: the       *)
(* sender calls NetStringCache.write, the stream keeps the order (TCP),    *)
(* the receiver calls NetStringCache.read.  No message says which strings  *)
(* the other end knows: both ends rely on having applied the same updates  *)
(* in the same order.                                                      *)
(***************************************************************************)
EXTENDS NetStringCache, Sequences

CONSTANT MaxWire        \* bound on the strings in flight

ASSUME MaxWireAssumption == MaxWire \in Nat

VARIABLES
    sender,     \* the cache of the writing end
    receiver,   \* the cache of the reading end
    wire,       \* cached strings in flight
    got,        \* what read() returned last
    meant,      \* auxiliary: the strings handed to write() for `wire'
    after       \* auxiliary: the sender's cache after each element of `wire'

linkVars == <<sender, receiver, wire, got, meant, after>>

LinkInit == /\ sender = NewCache
            /\ receiver = NewCache
            /\ wire = <<>>
            /\ got = NoString
            /\ meant = <<>>
            /\ after = <<>>

Send(s) ==
    /\ Len(wire) < MaxWire
    /\ wire' = Append(wire, Written(sender, s))
    /\ sender' = AfterWrite(sender, s)
    /\ meant' = Append(meant, s)
    /\ after' = Append(after, AfterWrite(sender, s))
    /\ UNCHANGED <<receiver, got>>

Receive ==
    /\ wire # <<>>
    /\ got' = ReadString(receiver, Head(wire))
    /\ receiver' = AfterRead(receiver, Head(wire))
    /\ wire' = Tail(wire)
    /\ meant' = Tail(meant)
    /\ after' = Tail(after)
    /\ UNCHANGED sender

LinkNext == (\E s \in Strings : Send(s)) \/ Receive

LinkSpec == LinkInit /\ [][LinkNext]_linkVars /\ WF_linkVars(Receive)

-----------------------------------------------------------------------------
LinkTypeOK ==
    /\ sender \in Caches
    /\ receiver \in Caches
    /\ wire \in Seq(CachedStrings)
    /\ got \in Strings \cup {NoString}
    /\ meant \in Seq(Strings)
    /\ after \in Seq(Caches)

\* Both ends keep sound tables although reuseEntry deletes one key and adds
\* another: a known string is found at the entry that holds it, and the string
\* an entry holds is known (NetStringCache.as:210-227).
MapsAgree == /\ KnownHeld(sender) /\ HeldKnown(sender)
             /\ KnownHeld(receiver) /\ HeldKnown(receiver)

\* Once the receiver has read everything, the two caches are the same: the
\* only thing that makes a bare id meaningful at the other end.
CachesCoherent == wire = <<>> => receiver = sender

\* Whatever is in flight, the receiver will read it as the string that was
\* handed to write(), although a bare id may have been redefined in between.
NextReadIsRight ==
    wire # <<>> => ReadString(receiver, Head(wire)) = Head(meant)

Channel == INSTANCE StringChannel WITH queue <- meant, got <- got

\* The link implements an order-preserving channel of strings, including that
\* every written string is read if the receiver keeps reading.
ImplementsChannel == Channel!Spec
==============================================================================
