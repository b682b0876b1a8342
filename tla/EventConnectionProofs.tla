------------------------ MODULE EventConnectionProofs ------------------------
(***************************************************************************)
(* Packing events, for all payload sizes, packet sizes, numbers of names   *)
(* and ends that post: the loop of writePacket leaves room for the final   *)
(* flag, and a packet is exactly the front of the queue, so that splicing  *)
(* `index' events off the queue removes what was sent and nothing else.    *)
(*                                                                         *)
(* Both need that the locals of writePacket are fresh on every call, and   *)
(* typing needs that the caches stay well linked, because write() takes    *)
(* the id of the oldest entry of the list.                                 *)
(*                                                                         *)
(* For a connection on which one end posts: every type name is decoded to  *)
(* what it was written for, and the direction to the client implements     *)
(* EventChannel.                                                           *)
(***************************************************************************)
EXTENDS EventConnection, NetStringCacheProofs, TLAPS

\* Outside writePacket there is no stream and no event written to it.
IdleIsClean == \A e \in Ends : mode[e] = "idle" => index[e] = 0 /\ out[e] = <<>>

CachesWellLinked == \A e \in Ends : WellLinked(cache[e])

EventInv ==
    /\ TypeOK
    /\ CachesWellLinked
    /\ IdleIsClean
    /\ RoomForFinalFlag
    /\ PacketIsQueueFront

\* There is another end.
LEMMA PeerType == \A e \in Ends : Peer(e) \in Ends /\ Peer(e) # e
BY DEF Ends, Peer

LEMMA EventInit == Init => EventInv
<1> SUFFICES ASSUME Init PROVE EventInv
  OBVIOUS
<1>1. NewCache \in Caches /\ WellLinked(NewCache)
  BY NewCacheIsSound
<1>2. 0 \in 0 .. PacketBits
  BY EventAssumption
<1>3. TypeOK
  BY <1>1, <1>2 DEF Init, TypeOK
<1>4. CachesWellLinked
  <2>1. \A e \in Ends : cache[e] = NewCache
    BY DEF Init
  <2> QED BY <1>1, <2>1 DEF CachesWellLinked
<1>5. IdleIsClean /\ RoomForFinalFlag /\ PacketIsQueueFront
  BY DEF Init, IdleIsClean, RoomForFinalFlag, PacketIsQueueFront
<1> QED BY <1>3, <1>4, <1>5 DEF EventInv

\* The event that the loop of writePacket is at, and its length in bits.
LEMMA CurrentType ==
    ASSUME EventInv, NEW e \in Ends, MoreEvents(e)
    PROVE  /\ Current(e) \in Events /\ TypeName[Current(e)] \in Strings
           /\ EventBits(e) \in Nat
<1>1. queue[e] \in Seq(Events) /\ index[e] \in Nat /\ index[e] < Len(queue[e])
  BY DEF EventInv, TypeOK, MoreEvents
<1>2. Current(e) \in Events
  BY <1>1 DEF Current
<1>3. TypeName[Current(e)] \in Strings /\ PayloadBits[Current(e)] \in Nat
      /\ RefBits \in Nat /\ NameBits \in Nat
  BY <1>2, EventAssumption
<1>4. EventBits(e) \in Nat
  BY <1>3 DEF EventBits
<1> QED BY <1>2, <1>3, <1>4

\* Writing the name of the current event, whether it is kept or rolled back.
LEMMA NameWritten ==
    ASSUME EventInv, NEW e \in Ends, MoreEvents(e)
    PROVE  /\ Written(cache[e], TypeName[Current(e)]) \in CachedStrings
           /\ AfterWrite(cache[e], TypeName[Current(e)]) \in Caches
           /\ WellLinked(AfterWrite(cache[e], TypeName[Current(e)]))
<1>1. cache[e] \in Caches /\ WellLinked(cache[e])
  BY DEF EventInv, TypeOK, CachesWellLinked
<1>2. TypeName[Current(e)] \in Strings
  BY CurrentType
<1> QED BY <1>1, <1>2, WriteType, WriteKeepsList

\* A step that gives one end another cache.
LEMMA CacheStep ==
    ASSUME EventInv, NEW e \in Ends, NEW c \in Caches, WellLinked(c),
           cache' = [cache EXCEPT ![e] = c]
    PROVE  cache' \in [Ends -> Caches] /\ CachesWellLinked'
<1>1. cache \in [Ends -> Caches]
  BY DEF EventInv, TypeOK
<1>2. \A d \in Ends : cache'[d] = IF d = e THEN c ELSE cache[d]
  BY <1>1
<1>3. cache' \in [Ends -> Caches]
  BY <1>1
<1>4. \A d \in Ends : WellLinked(cache[d])
  BY DEF EventInv, CachesWellLinked
<1>5. ASSUME NEW d \in Ends
      PROVE  WellLinked(cache'[d])
  <2>1. CASE d = e
    BY <1>2, <2>1
  <2>2. CASE d # e
    <3>1. cache'[d] = cache[d]
      BY <1>2, <2>2
    <3> QED BY <1>4, <3>1
  <2> QED BY <2>1, <2>2
<1> QED BY <1>3, <1>5 DEF CachesWellLinked, WellLinked

LEMMA PostStep ==
    ASSUME EventInv, NEW e \in Ends, NEW ev \in Events, Post(e, ev)
    PROVE  EventInv'
<1>1. queue \in [Ends -> Seq(Events)]
  BY DEF EventInv, TypeOK
<1>2. queue' = [queue EXCEPT ![e] = Append(queue[e], ev)] /\ mode[e] = "idle"
      /\ UNCHANGED <<cache, mode, bits, index, out, wire, inbox, got, polluted>>
  BY DEF Post
<1>3. \A d \in Ends \ {e} : queue'[d] = queue[d]
  BY <1>1, <1>2
<1>4. queue' \in [Ends -> Seq(Events)]
  BY <1>1, <1>2
<1>5. TypeOK'
  BY <1>2, <1>4 DEF EventInv, TypeOK
<1>6. PacketIsQueueFront'
  BY <1>2, <1>3 DEF EventInv, PacketIsQueueFront
<1>7. CachesWellLinked' /\ IdleIsClean' /\ RoomForFinalFlag'
  BY <1>2 DEF EventInv, CachesWellLinked, IdleIsClean, RoomForFinalFlag
<1> QED BY <1>5, <1>6, <1>7 DEF EventInv

LEMMA BeginPacketStep ==
    ASSUME EventInv, NEW e \in Ends, BeginPacket(e)
    PROVE  EventInv'
<1>1. /\ mode \in [Ends -> {"idle", "writing"}]
      /\ bits \in [Ends -> 0 .. PacketBits] /\ PacketBits \in Nat \ {0}
      /\ queue \in [Ends -> Seq(Events)]
  BY EventAssumption DEF EventInv, TypeOK
<1>2. /\ mode[e] = "idle"
      /\ mode' = [mode EXCEPT ![e] = "writing"]
      /\ bits' = [bits EXCEPT ![e] = PacketBits]
      /\ UNCHANGED <<queue, cache, index, out, wire, inbox, got, polluted>>
  BY DEF BeginPacket, Idle
<1>3. index[e] = 0 /\ out[e] = <<>>
  BY <1>2 DEF EventInv, IdleIsClean
<1>4. /\ mode' \in [Ends -> {"idle", "writing"}] /\ bits' \in [Ends -> 0 .. PacketBits]
      /\ \A d \in Ends \ {e} : mode'[d] = mode[d] /\ bits'[d] = bits[d]
      /\ mode'[e] = "writing" /\ bits'[e] = PacketBits
  BY <1>1, <1>2
<1>5. TypeOK'
  BY <1>2, <1>4 DEF EventInv, TypeOK
<1>6. CachesWellLinked' /\ IdleIsClean'
  BY <1>2, <1>4 DEF EventInv, CachesWellLinked, IdleIsClean
<1>7. RoomForFinalFlag'
  <2>1. PacketBits > 0
    BY <1>1
  <2>2. \A d \in Ends \ {e} : mode'[d] = "writing" => bits'[d] > 0
    <3>1. \A d \in Ends : mode[d] = "writing" => bits[d] > 0
      BY DEF EventInv, RoomForFinalFlag
    <3> QED BY <1>4, <3>1
  <2>3. bits'[e] > 0
    BY <1>4, <2>1
  <2> QED BY <2>2, <2>3 DEF RoomForFinalFlag
<1>8. PacketIsQueueFront'
  <2>1. Len(queue[e]) \in Nat
    BY <1>1
  <2>2. Len(out'[e]) = index'[e] /\ index'[e] <= Len(queue'[e])
        /\ \A k \in 1 .. index'[e] : out'[e][k].event = queue'[e][k]
    BY <1>2, <1>3, <2>1
  <2> QED BY <1>2, <1>4, <2>2 DEF EventInv, PacketIsQueueFront
<1> QED BY <1>5, <1>6, <1>7, <1>8 DEF EventInv

LEMMA WriteEventStep ==
    ASSUME EventInv, NEW e \in Ends, WriteEvent(e)
    PROVE  EventInv'
<1>1. /\ mode[e] = "writing" /\ MoreEvents(e) /\ EventBits(e) < bits[e]
  BY DEF WriteEvent, Fits
<1>2. /\ queue \in [Ends -> Seq(Events)] /\ index \in [Ends -> Nat]
      /\ out \in [Ends -> Seq(Messages)] /\ bits \in [Ends -> 0 .. PacketBits]
      /\ PacketBits \in Nat /\ cache \in [Ends -> Caches]
  BY EventAssumption DEF EventInv, TypeOK
<1> DEFINE c == AfterWrite(cache[e], TypeName[Current(e)])
           msg == [name  |-> Written(cache[e], TypeName[Current(e)]),
                   event |-> Current(e)]
<1>3. /\ out' = [out EXCEPT ![e] = Append(out[e], msg)]
      /\ cache' = [cache EXCEPT ![e] = c]
      /\ bits' = [bits EXCEPT ![e] = bits[e] - EventBits(e)]
      /\ index' = [index EXCEPT ![e] = index[e] + 1]
      /\ UNCHANGED <<queue, mode, wire, inbox, got, polluted>>
  BY DEF WriteEvent
<1>4. msg \in Messages
  BY <1>1, CurrentType, NameWritten DEF Messages
<1>5. c \in Caches /\ WellLinked(c)
  BY <1>1, NameWritten
<1>6. msg.event = queue[e][index[e] + 1]
  BY DEF Current
<1> HIDE DEF c, msg
<1>7. cache' \in [Ends -> Caches] /\ CachesWellLinked'
  BY <1>3, <1>5, CacheStep
<1>8. EventBits(e) \in Nat
  BY <1>1, CurrentType
<1>9. bits[e] - EventBits(e) \in 0 .. PacketBits /\ bits[e] - EventBits(e) > 0
  BY <1>1, <1>2, <1>8
<1>10. /\ bits' \in [Ends -> 0 .. PacketBits] /\ bits'[e] > 0
       /\ \A d \in Ends \ {e} : bits'[d] = bits[d]
  BY <1>2, <1>3, <1>9
<1>11. /\ index' \in [Ends -> Nat] /\ index'[e] = index[e] + 1
       /\ \A d \in Ends \ {e} : index'[d] = index[d]
  BY <1>2, <1>3
<1>12. /\ out' \in [Ends -> Seq(Messages)] /\ out'[e] = Append(out[e], msg)
       /\ \A d \in Ends \ {e} : out'[d] = out[d]
  BY <1>2, <1>3, <1>4
<1>13. TypeOK'
  BY <1>3, <1>7, <1>10, <1>11, <1>12 DEF EventInv, TypeOK
<1>14. IdleIsClean'
  BY <1>1, <1>3, <1>11, <1>12 DEF EventInv, IdleIsClean
<1>15. RoomForFinalFlag'
  BY <1>3, <1>10 DEF EventInv, RoomForFinalFlag
<1>16. PacketIsQueueFront'
  <2>1. /\ Len(out[e]) = index[e] /\ index[e] < Len(queue[e])
        /\ \A k \in 1 .. index[e] : out[e][k].event = queue[e][k]
    BY <1>1 DEF EventInv, PacketIsQueueFront, MoreEvents
  <2>2. Len(out'[e]) = index'[e]
    BY <1>2, <1>4, <1>11, <1>12, <2>1
  <2>3. index'[e] <= Len(queue'[e])
    BY <1>2, <1>3, <1>11, <2>1
  <2>4. ASSUME NEW k \in 1 .. index'[e]
        PROVE  out'[e][k].event = queue'[e][k]
    <3>1. CASE k = index[e] + 1
      BY <1>2, <1>3, <1>4, <1>6, <1>12, <2>1, <3>1
    <3>2. CASE k # index[e] + 1
      <4>1. k \in 1 .. index[e]
        BY <1>2, <1>11, <3>2
      <4>2. out'[e][k] = out[e][k]
        BY <1>2, <1>4, <1>12, <2>1, <4>1
      <4> QED BY <1>3, <2>1, <4>1, <4>2
    <3> QED BY <3>1, <3>2
  <2> QED BY <1>3, <1>11, <1>12, <2>2, <2>3, <2>4 DEF EventInv, PacketIsQueueFront
<1> QED BY <1>7, <1>13, <1>14, <1>15, <1>16 DEF EventInv

\* Leaving the loop enters at most one more name in the cache.
LEMMA LeaveLoopCache ==
    ASSUME EventInv, NEW e \in Ends, LeaveLoop(e)
    PROVE  /\ cache' \in [Ends -> Caches] /\ CachesWellLinked'
           /\ polluted' \in [Ends -> BOOLEAN]
<1>1. cache \in [Ends -> Caches] /\ polluted \in [Ends -> BOOLEAN]
      /\ \A d \in Ends : WellLinked(cache[d])
  BY DEF EventInv, TypeOK, CachesWellLinked
<1>2. CASE UNCHANGED <<cache, polluted>>
  BY <1>1, <1>2 DEF EventInv, CachesWellLinked
<1>3. CASE MoreEvents(e) /\ RollBack(e)
  <2> DEFINE c == AfterWrite(cache[e], TypeName[Current(e)])
  <2>1. cache' = [cache EXCEPT ![e] = c]
        /\ polluted' = [polluted EXCEPT
                          ![e] = polluted[e] \/ ~Knows(cache[e], TypeName[Current(e)])]
    BY <1>3 DEF RollBack
  <2>2. c \in Caches /\ WellLinked(c)
    BY <1>3, NameWritten
  <2> HIDE DEF c
  <2>3. cache' \in [Ends -> Caches] /\ CachesWellLinked'
    BY <2>1, <2>2, CacheStep
  <2>4. polluted' \in [Ends -> BOOLEAN]
    BY <1>1, <2>1
  <2> QED BY <2>3, <2>4
<1> QED BY <1>2, <1>3 DEF LeaveLoop

\* Leaving writePacket, by return or by exception: what happens to the queue
\* and the wire is typed, and nothing of the packet stays behind.
LEMMA LeaveStep ==
    ASSUME EventInv, NEW e \in Ends, LeaveLoop(e), Leave(e),
           queue' \in [Ends -> Seq(Events)], wire' \in [Ends -> Seq(Seq(Messages))],
           \A d \in Ends \ {e} : queue'[d] = queue[d],
           UNCHANGED <<inbox, got>>
    PROVE  EventInv'
<1>1. /\ mode \in [Ends -> {"idle", "writing"}] /\ bits \in [Ends -> 0 .. PacketBits]
      /\ index \in [Ends -> Nat] /\ out \in [Ends -> Seq(Messages)]
      /\ PacketBits \in Nat
  BY EventAssumption DEF EventInv, TypeOK
<1>2. /\ mode' = [mode EXCEPT ![e] = "idle"] /\ bits' = [bits EXCEPT ![e] = 0]
      /\ index' = [index EXCEPT ![e] = 0] /\ out' = [out EXCEPT ![e] = <<>>]
  BY DEF Leave
<1>3. /\ mode' \in [Ends -> {"idle", "writing"}] /\ bits' \in [Ends -> 0 .. PacketBits]
      /\ index' \in [Ends -> Nat] /\ out' \in [Ends -> Seq(Messages)]
  BY <1>1, <1>2
<1>4. /\ mode'[e] = "idle" /\ index'[e] = 0 /\ out'[e] = <<>>
      /\ \A d \in Ends \ {e} : /\ mode'[d] = mode[d] /\ bits'[d] = bits[d]
                               /\ index'[d] = index[d] /\ out'[d] = out[d]
  BY <1>1, <1>2
<1>5. /\ cache' \in [Ends -> Caches] /\ CachesWellLinked'
      /\ polluted' \in [Ends -> BOOLEAN]
  BY LeaveLoopCache
<1>6. TypeOK'
  BY <1>3, <1>5 DEF EventInv, TypeOK
<1>7. IdleIsClean'
  BY <1>4 DEF EventInv, IdleIsClean
<1>8. RoomForFinalFlag'
  BY <1>4 DEF EventInv, RoomForFinalFlag
<1>9. PacketIsQueueFront'
  <2>1. PacketIsQueueFront
    BY DEF EventInv
  <2>2. ASSUME NEW d \in Ends, mode'[d] = "writing"
        PROVE  /\ Len(out'[d]) = index'[d] /\ index'[d] <= Len(queue'[d])
               /\ \A k \in 1 .. index'[d] : out'[d][k].event = queue'[d][k]
    <3>1. d \in Ends \ {e}
      BY <1>4, <2>2
    <3>2. /\ mode'[d] = mode[d] /\ index'[d] = index[d] /\ out'[d] = out[d]
          /\ queue'[d] = queue[d]
      BY <1>4, <3>1
    <3> QED BY <2>1, <2>2, <3>2 DEF PacketIsQueueFront
  <2> QED BY <2>2 DEF PacketIsQueueFront
<1> QED BY <1>5, <1>6, <1>7, <1>8, <1>9 DEF EventInv

LEMMA SendPacketStep ==
    ASSUME EventInv, NEW e \in Ends, SendPacket(e)
    PROVE  EventInv'
<1>1. /\ queue \in [Ends -> Seq(Events)] /\ wire \in [Ends -> Seq(Seq(Messages))]
      /\ out \in [Ends -> Seq(Messages)] /\ index \in [Ends -> Nat]
  BY DEF EventInv, TypeOK
<1> DEFINE rest == SubSeq(queue[e], index[e] + 1, Len(queue[e]))
<1>2. /\ queue' = [queue EXCEPT ![e] = rest]
      /\ wire' = [wire EXCEPT ![e] = Append(wire[e], out[e])]
      /\ LeaveLoop(e) /\ Leave(e) /\ UNCHANGED <<inbox, got>>
  BY DEF SendPacket
<1>3. rest \in Seq(Events)
  <2>1. queue[e] \in Seq(Events) /\ index[e] + 1 \in 1 .. Len(queue[e]) + 1
    BY <1>1 DEF EventInv, PacketIsQueueFront, SendPacket
  <2> QED BY <2>1
<1> HIDE DEF rest
<1>4. queue' \in [Ends -> Seq(Events)] /\ \A d \in Ends \ {e} : queue'[d] = queue[d]
  BY <1>1, <1>2, <1>3
<1>5. wire' \in [Ends -> Seq(Seq(Messages))]
  <2>1. Append(wire[e], out[e]) \in Seq(Seq(Messages))
    BY <1>1
  <2> QED BY <1>1, <1>2, <2>1
<1> QED BY <1>2, <1>4, <1>5, LeaveStep

LEMMA FirstEventTooBigStep ==
    ASSUME EventInv, NEW e \in Ends, FirstEventTooBig(e)
    PROVE  EventInv'
<1>1. LeaveLoop(e) /\ Leave(e) /\ UNCHANGED <<inbox, got>>
      /\ queue' = queue /\ wire' = wire
  BY DEF FirstEventTooBig
<1>2. queue' \in [Ends -> Seq(Events)] /\ wire' \in [Ends -> Seq(Seq(Messages))]
  BY <1>1 DEF EventInv, TypeOK
<1> QED BY <1>1, <1>2, LeaveStep

\* The steps of the reading end touch no packet being written and no queue.
LEMMA ReaderStep ==
    ASSUME EventInv, UNCHANGED <<queue, mode, bits, index, out, polluted>>,
           cache' \in [Ends -> Caches], CachesWellLinked',
           wire' \in [Ends -> Seq(Seq(Messages))],
           inbox' \in [Ends -> Seq(Messages)],
           got' \in [Ends -> Events \cup {NoEvent, Garbled}]
    PROVE  EventInv'
<1>1. TypeOK'
  BY DEF EventInv, TypeOK
<1>2. IdleIsClean' /\ RoomForFinalFlag' /\ PacketIsQueueFront'
  BY DEF EventInv, IdleIsClean, RoomForFinalFlag, PacketIsQueueFront
<1> QED BY <1>1, <1>2 DEF EventInv

LEMMA BeginReadStep ==
    ASSUME EventInv, NEW e \in Ends, BeginRead(e)
    PROVE  EventInv'
<1>1. /\ wire \in [Ends -> Seq(Seq(Messages))] /\ inbox \in [Ends -> Seq(Messages)]
      /\ cache \in [Ends -> Caches] /\ got \in [Ends -> Events \cup {NoEvent, Garbled}]
      /\ CachesWellLinked
  BY DEF EventInv, TypeOK
<1> DEFINE p == Peer(e)
<1>2. p \in Ends
  BY PeerType
<1>3. /\ wire[p] # <<>>
      /\ inbox' = [inbox EXCEPT ![e] = Head(wire[p])]
      /\ wire' = [wire EXCEPT ![p] = Tail(wire[p])]
      /\ UNCHANGED <<queue, cache, mode, bits, index, out, got, polluted>>
  BY DEF BeginRead
<1> HIDE DEF p
<1>4. Head(wire[p]) \in Seq(Messages) /\ Tail(wire[p]) \in Seq(Seq(Messages))
  <2>1. wire[p] \in Seq(Seq(Messages))
    BY <1>1, <1>2
  <2> QED BY <1>3, <2>1
<1>5. inbox' \in [Ends -> Seq(Messages)] /\ wire' \in [Ends -> Seq(Seq(Messages))]
  BY <1>1, <1>3, <1>4
<1>6. CachesWellLinked'
  BY <1>1, <1>3 DEF CachesWellLinked
<1> QED BY <1>1, <1>3, <1>5, <1>6, ReaderStep

LEMMA ParseStep ==
    ASSUME EventInv, NEW e \in Ends, Parse(e)
    PROVE  EventInv'
<1>1. /\ inbox \in [Ends -> Seq(Messages)] /\ wire \in [Ends -> Seq(Seq(Messages))]
      /\ got \in [Ends -> Events \cup {NoEvent, Garbled}]
      /\ cache[e] \in Caches /\ WellLinked(cache[e])
  BY DEF EventInv, TypeOK, CachesWellLinked
<1>2. /\ inbox[e] # <<>>
      /\ cache' = [cache EXCEPT ![e] = AfterRead(cache[e], Head(inbox[e]).name)]
      /\ inbox' \in {[inbox EXCEPT ![e] = Tail(inbox[e])], [inbox EXCEPT ![e] = <<>>]}
      /\ got' \in {got, [got EXCEPT ![e] = Head(inbox[e]).event],
                   [got EXCEPT ![e] = Garbled]}
      /\ UNCHANGED <<queue, mode, bits, index, out, wire, polluted>>
  BY DEF Parse, ReadEvent, UnknownType, WrongType
<1>3. /\ Head(inbox[e]) \in Messages /\ Tail(inbox[e]) \in Seq(Messages)
      /\ Head(inbox[e]).name \in CachedStrings /\ Head(inbox[e]).event \in Events
  <2>1. inbox[e] \in Seq(Messages)
    BY <1>1
  <2>2. Head(inbox[e]) \in Messages /\ Tail(inbox[e]) \in Seq(Messages)
    BY <1>2, <2>1
  <2> QED BY <2>2 DEF Messages
<1>4. /\ AfterRead(cache[e], Head(inbox[e]).name) \in Caches
      /\ WellLinked(AfterRead(cache[e], Head(inbox[e]).name))
  BY <1>1, <1>3, ReadType
<1>5. cache' \in [Ends -> Caches] /\ CachesWellLinked'
  BY <1>2, <1>4, CacheStep
<1>6. inbox' \in [Ends -> Seq(Messages)]
  <2>1. <<>> \in Seq(Messages)
    OBVIOUS
  <2>2. CASE inbox' = [inbox EXCEPT ![e] = Tail(inbox[e])]
    BY <1>1, <1>3, <2>2
  <2>3. CASE inbox' = [inbox EXCEPT ![e] = <<>>]
    BY <1>1, <2>1, <2>3
  <2> QED BY <1>2, <2>2, <2>3
<1>7. got' \in [Ends -> Events \cup {NoEvent, Garbled}]
  BY <1>1, <1>2, <1>3
<1>8. wire' \in [Ends -> Seq(Seq(Messages))]
  BY <1>1, <1>2
<1> QED BY <1>2, <1>5, <1>6, <1>7, <1>8, ReaderStep

LEMMA EventNext == EventInv /\ [Next]_vars => EventInv'
<1> SUFFICES ASSUME EventInv, [Next]_vars PROVE EventInv'
  OBVIOUS
<1>1. CASE UNCHANGED vars
  <2>1. /\ queue' = queue /\ cache' = cache /\ mode' = mode /\ bits' = bits
        /\ index' = index /\ out' = out /\ wire' = wire /\ inbox' = inbox
        /\ got' = got /\ polluted' = polluted
    BY <1>1 DEF vars
  <2>2. CachesWellLinked'
    BY <2>1 DEF EventInv, CachesWellLinked
  <2>3. /\ cache' \in [Ends -> Caches] /\ wire' \in [Ends -> Seq(Seq(Messages))]
        /\ inbox' \in [Ends -> Seq(Messages)]
        /\ got' \in [Ends -> Events \cup {NoEvent, Garbled}]
    BY <2>1 DEF EventInv, TypeOK
  <2> QED BY <2>1, <2>2, <2>3, ReaderStep
<1>2. CASE Next
  <2>1. PICK e \in Ends : \/ \E ev \in Events : Post(e, ev)
                          \/ BeginPacket(e) \/ Write(e)
                          \/ BeginRead(e) \/ Parse(e)
    BY <1>2 DEF Next
  <2>2. CASE \E ev \in Events : Post(e, ev)
    BY <2>2, PostStep
  <2>3. CASE BeginPacket(e)
    BY <2>3, BeginPacketStep
  <2>4. CASE Write(e)
    BY <2>4, WriteEventStep, SendPacketStep, FirstEventTooBigStep DEF Write
  <2>5. CASE BeginRead(e)
    BY <2>5, BeginReadStep
  <2>6. CASE Parse(e)
    BY <2>6, ParseStep
  <2> QED BY <2>1, <2>2, <2>3, <2>4, <2>5, <2>6
<1> QED BY <1>1, <1>2

LEMMA EventInvariant == Spec => []EventInv
<1> QED BY EventInit, EventNext, PTL DEF Spec

\* Queues, caches, streams and packets at both ends keep their types, whichever
\* ends post and whatever is rolled back (EventConnection.as).
THEOREM EventTypeCorrect == Spec => []TypeOK
<1>1. EventInv => TypeOK
  BY DEF EventInv
<1> QED BY <1>1, EventInvariant, PTL

\* "Ran out of space to write final flag!" (EventConnection.as:91) is dead
\* code: the loop of writePacket always leaves a bit.
THEOREM FinalFlagFits == Spec => []RoomForFinalFlag
<1>1. EventInv => RoomForFinalFlag
  BY DEF EventInv
<1> QED BY <1>1, EventInvariant, PTL

\* The packet being written is the front of the queue, so the splice at
\* EventConnection.as:82 removes exactly what the packet carries.
THEOREM PacketIsFront == Spec => []PacketIsQueueFront
<1>1. EventInv => PacketIsQueueFront
  BY DEF EventInv
<1> QED BY <1>1, EventInvariant, PTL
-----------------------------------------------------------------------------
(* Decoding, on a connection on which only the end w posts: the other end  *)
(* writes empty packets, so w's cache is changed by w's writes alone and   *)
(* what is under way leads the reader's cache to it.                       *)

\* A message that the cache t[1] reads as the name of its event.
NameSteps ==
    {t \in Caches \X Messages \X Caches :
        /\ ReadString(t[1], t[2].name) = TypeName[t[2].event]
        /\ t[3] = AfterRead(t[1], t[2].name)}

NamesLead(w) ==
    Journey(Caches, Messages, NameSteps, cache[Peer(w)],
            inbox[Peer(w)], wire[w], out[w], cache[w])

\* What the end that never posts writes.
Silent(r) == /\ queue[r] = <<>> /\ out[r] = <<>> /\ inbox[Peer(r)] = <<>>
             /\ \A k \in 1 .. Len(wire[r]) : wire[r][k] = <<>>

DecodeInv(w) == /\ EventInv
                /\ Silent(Peer(w))
                /\ KnownHeld(cache[w])
                /\ ~polluted[w] => NamesLead(w)

LEMMA PeerPeer == \A e \in Ends : Peer(Peer(e)) = e
BY DEF Ends, Peer

LEMMA DecodeInit ==
    ASSUME NEW w \in Ends
    PROVE  Init => DecodeInv(w)
<1> SUFFICES ASSUME Init PROVE DecodeInv(w)
  OBVIOUS
<1>1. EventInv
  BY EventInit
<1>2. Peer(w) \in Ends /\ Peer(Peer(w)) = w
  BY PeerType, PeerPeer
<1>3. Silent(Peer(w))
  BY <1>2 DEF Init, Silent
<1>4. KnownHeld(cache[w])
  BY NewCacheIsSound DEF Init
<1>5. NamesLead(w)
  <2>1. Journey(Caches, Messages, NameSteps, NewCache, <<>>, <<>>, <<>>, NewCache)
    BY NewCacheIsSound, JourneyStart
  <2>2. /\ cache[w] = NewCache /\ cache[Peer(w)] = NewCache /\ inbox[Peer(w)] = <<>>
        /\ wire[w] = <<>> /\ out[w] = <<>>
    BY <1>2 DEF Init
  <2> QED BY <2>1, <2>2 DEF NamesLead
<1> QED BY <1>1, <1>3, <1>4, <1>5 DEF DecodeInv

\* A step that moves none of the packets.
LEMMA NothingMoves ==
    ASSUME NEW w \in Ends, DecodeInv(w), EventInv',
           queue'[Peer(w)] = queue[Peer(w)],
           UNCHANGED <<cache, polluted, out, wire, inbox>>
    PROVE  DecodeInv(w)'
<1>1. Silent(Peer(w))'
  BY DEF DecodeInv, Silent
<1>2. KnownHeld(cache[w])'
  BY DEF DecodeInv, KnownHeld, Knows, LookupByString
<1>3. (~polluted[w] => NamesLead(w))'
  BY DEF DecodeInv, NamesLead
<1> QED BY <1>1, <1>2, <1>3 DEF DecodeInv

\* Writing to its packet an event that fits, the sender moves its own cache as
\* reading the message will move the reader's.
LEMMA WriteEventDecodes ==
    ASSUME NEW w \in Ends, DecodeInv(w), EventInv', NEW e \in Ends, WriteEvent(e)
    PROVE  DecodeInv(w)'
<1>1. EventInv /\ MoreEvents(e)
  BY DEF DecodeInv, WriteEvent
<1>2. /\ queue \in [Ends -> Seq(Events)] /\ index \in [Ends -> Nat]
      /\ out \in [Ends -> Seq(Messages)] /\ cache \in [Ends -> Caches]
      /\ \A d \in Ends : WellLinked(cache[d])
  BY <1>1 DEF EventInv, TypeOK, CachesWellLinked
<1>3. Peer(w) \in Ends /\ Peer(w) # w /\ Ends = {w, Peer(w)}
  BY DEF Ends, Peer
<1>4. e = w
  <2>1. Len(queue[e]) # 0
    BY <1>1, <1>2 DEF MoreEvents
  <2>2. queue[Peer(w)] = <<>>
    BY DEF DecodeInv, Silent
  <2> QED BY <1>3, <2>1, <2>2
<1> DEFINE name == TypeName[Current(e)]
           msg == [name |-> Written(cache[e], name), event |-> Current(e)]
           c == AfterWrite(cache[e], name)
<1>5. /\ out' = [out EXCEPT ![e] = Append(out[e], msg)]
      /\ cache' = [cache EXCEPT ![e] = c]
      /\ UNCHANGED <<queue, mode, wire, inbox, got, polluted>>
  BY DEF WriteEvent
<1>6. msg \in Messages /\ name \in Strings /\ c \in Caches
  BY <1>1, CurrentType, NameWritten DEF Messages
<1>7. KnownHeld(cache[e])
  BY <1>4 DEF DecodeInv
<1>8. ReadString(cache[e], msg.name) = TypeName[msg.event]
      /\ AfterRead(cache[e], msg.name) = c
  BY <1>2, <1>6, <1>7, ReadUndoesWrite
<1>9. KnownHeld(c)
  BY <1>2, <1>6, <1>7, WriteKeepsKnownHeld
<1>10. <<cache[e], msg, c>> \in NameSteps
  BY <1>2, <1>6, <1>8 DEF NameSteps
<1> HIDE DEF msg, c, name
<1>11. /\ cache'[w] = c /\ out'[w] = Append(out[w], msg)
       /\ cache'[Peer(w)] = cache[Peer(w)] /\ out'[Peer(w)] = out[Peer(w)]
  BY <1>2, <1>3, <1>4, <1>5
<1>12. KnownHeld(cache[w])'
  BY <1>9, <1>11 DEF KnownHeld, Knows, LookupByString
<1>13. Silent(Peer(w))'
  BY <1>5, <1>11 DEF DecodeInv, Silent
<1>14. ASSUME ~polluted'[w] PROVE NamesLead(w)'
  <2>1. Journey(Caches, Messages, NameSteps, cache[Peer(w)],
                inbox[Peer(w)], wire[w], out[w], cache[w])
    BY <1>5, <1>14 DEF DecodeInv, NamesLead
  <2>2. out[w] \in Seq(Messages)
    BY <1>2
  <2>3. Journey(Caches, Messages, NameSteps, cache[Peer(w)],
                inbox[Peer(w)], wire[w], Append(out[w], msg), c)
    BY <1>4, <1>6, <1>10, <2>1, <2>2, JourneyWrite
  <2> QED BY <1>5, <1>11, <2>3 DEF NamesLead
<1> QED BY <1>12, <1>13, <1>14 DEF DecodeInv

\* Leaving the loop: the cache is as it was, unless a definition is rolled back.
LEMMA LoopLeft ==
    ASSUME NEW w \in Ends, DecodeInv(w), NEW e \in Ends, LeaveLoop(e)
    PROVE  /\ cache'[Peer(w)] = cache[Peer(w)]
           /\ KnownHeld(cache[w])'
           /\ ~polluted'[w] => ~polluted[w] /\ cache'[w] = cache[w]
<1>1. /\ cache \in [Ends -> Caches] /\ polluted \in [Ends -> BOOLEAN]
      /\ queue \in [Ends -> Seq(Events)] /\ index \in [Ends -> Nat]
      /\ \A d \in Ends : WellLinked(cache[d])
      /\ KnownHeld(cache[w]) /\ queue[Peer(w)] = <<>> /\ EventInv
  BY DEF DecodeInv, EventInv, TypeOK, CachesWellLinked, Silent
<1>2. Peer(w) \in Ends /\ Peer(w) # w /\ Ends = {w, Peer(w)}
  BY DEF Ends, Peer
<1>3. CASE UNCHANGED <<cache, polluted>>
  BY <1>1, <1>3 DEF KnownHeld, Knows, LookupByString
<1>4. CASE MoreEvents(e) /\ RollBack(e)
  <2>1. e = w
    <3>1. Len(queue[e]) # 0
      BY <1>1, <1>4 DEF MoreEvents
    <3> QED BY <1>1, <1>2, <3>1
  <2> DEFINE name == TypeName[Current(e)]
             c == AfterWrite(cache[e], name)
  <2>2. /\ cache' = [cache EXCEPT ![e] = c]
        /\ polluted' = [polluted EXCEPT ![e] = polluted[e] \/ ~Knows(cache[e], name)]
    BY <1>4 DEF RollBack
  <2>3. name \in Strings
    BY <1>1, <1>4, CurrentType
  <2>4. KnownHeld(c)
    BY <1>1, <2>1, <2>3, WriteKeepsKnownHeld
  <2>5. Knows(cache[e], name) => c = cache[e]
    BY DEF AfterWrite
  <2> HIDE DEF c, name
  <2>6. cache'[w] = c /\ cache'[Peer(w)] = cache[Peer(w)]
    BY <1>1, <1>2, <2>1, <2>2
  <2>7. ~polluted'[w] => ~polluted[w] /\ Knows(cache[e], name)
    BY <1>1, <2>1, <2>2
  <2>8. KnownHeld(cache[w])'
    BY <2>4, <2>6 DEF KnownHeld, Knows, LookupByString
  <2> QED BY <2>1, <2>5, <2>6, <2>7, <2>8
<1> QED BY <1>3, <1>4 DEF LeaveLoop

LEMMA SendPacketDecodes ==
    ASSUME NEW w \in Ends, DecodeInv(w), EventInv', NEW e \in Ends, SendPacket(e)
    PROVE  DecodeInv(w)'
<1>1. /\ queue \in [Ends -> Seq(Events)] /\ index \in [Ends -> Nat]
      /\ out \in [Ends -> Seq(Messages)] /\ wire \in [Ends -> Seq(Seq(Messages))]
      /\ Silent(Peer(w))
  BY DEF DecodeInv, EventInv, TypeOK
<1>2. Peer(w) \in Ends /\ Peer(w) # w /\ Ends = {w, Peer(w)} /\ Peer(Peer(w)) = w
  BY DEF Ends, Peer
<1>3. /\ LeaveLoop(e) /\ UNCHANGED inbox
      /\ queue' = [queue EXCEPT ![e] = SubSeq(queue[e], index[e] + 1, Len(queue[e]))]
      /\ wire' = [wire EXCEPT ![e] = Append(wire[e], out[e])]
      /\ out' = [out EXCEPT ![e] = <<>>]
  BY DEF SendPacket, Leave
<1>4. /\ cache'[Peer(w)] = cache[Peer(w)] /\ KnownHeld(cache[w])'
      /\ ~polluted'[w] => ~polluted[w] /\ cache'[w] = cache[w]
  BY <1>3, LoopLeft
<1>5. CASE e = w
  <2>1. /\ queue'[Peer(w)] = queue[Peer(w)] /\ out'[Peer(w)] = out[Peer(w)]
        /\ wire'[Peer(w)] = wire[Peer(w)] /\ out'[w] = <<>>
        /\ wire'[w] = Append(wire[w], out[w])
    BY <1>1, <1>2, <1>3, <1>5
  <2>2. Silent(Peer(w))'
    BY <1>1, <1>3, <2>1 DEF Silent
  <2>3. ASSUME ~polluted'[w] PROVE NamesLead(w)'
    <3>1. Journey(Caches, Messages, NameSteps, cache[Peer(w)],
                  inbox[Peer(w)], wire[w], out[w], cache[w])
      BY <1>4, <2>3 DEF DecodeInv, NamesLead
    <3>2. out[w] \in Seq(Messages) /\ wire[w] \in Seq(Seq(Messages))
      BY <1>1
    <3>3. Journey(Caches, Messages, NameSteps, cache[Peer(w)],
                  inbox[Peer(w)], Append(wire[w], out[w]), <<>>, cache[w])
      BY <3>1, <3>2, JourneySend
    <3>4. cache'[w] = cache[w]
      BY <1>4, <2>3
    <3> QED BY <1>3, <1>4, <2>1, <3>3, <3>4 DEF NamesLead
  <2> QED BY <1>4, <2>2, <2>3 DEF DecodeInv
<1>6. CASE e = Peer(w)
  <2>1. /\ queue[e] = <<>> /\ out[e] = <<>> /\ inbox[w] = <<>>
        /\ \A k \in 1 .. Len(wire[e]) : wire[e][k] = <<>>
    BY <1>1, <1>2, <1>6 DEF Silent
  <2>2. queue'[e] = <<>>
    <3>1. SubSeq(queue[e], index[e] + 1, Len(queue[e])) = <<>>
      BY <1>1, <2>1
    <3> QED BY <1>1, <1>3, <3>1
  <2>3. /\ out'[e] = <<>> /\ out'[w] = out[w] /\ wire'[w] = wire[w]
        /\ wire'[e] = Append(wire[e], <<>>)
    BY <1>1, <1>2, <1>3, <1>6, <2>1
  <2>4. wire[e] \in Seq(Seq(Messages)) /\ <<>> \in Seq(Messages)
    BY <1>1
  <2>5. \A k \in 1 .. Len(wire'[e]) : wire'[e][k] = <<>>
    <3>1. wire'[e] \in Seq(Seq(Messages)) /\ Len(wire'[e]) = Len(wire[e]) + 1
      BY <2>3, <2>4
    <3>2. ASSUME NEW k \in 1 .. Len(wire'[e]) PROVE wire'[e][k] = <<>>
      <4>1. CASE k = Len(wire[e]) + 1
        BY <2>3, <2>4, <4>1
      <4>2. CASE k # Len(wire[e]) + 1
        <5>1. k \in 1 .. Len(wire[e])
          BY <2>4, <3>1, <4>2
        <5> QED BY <2>1, <2>3, <2>4, <5>1
      <4> QED BY <4>1, <4>2
    <3> QED BY <3>2
  <2>6. Silent(Peer(w))'
    BY <1>2, <1>3, <1>6, <2>1, <2>2, <2>3, <2>5 DEF Silent
  <2>7. (~polluted[w] => NamesLead(w))'
    BY <1>3, <1>4, <2>3 DEF DecodeInv, NamesLead
  <2> QED BY <1>4, <2>6, <2>7 DEF DecodeInv
<1> QED BY <1>2, <1>5, <1>6

\* Giving up on the first event: its packet was empty.
LEMMA FirstEventTooBigDecodes ==
    ASSUME NEW w \in Ends, DecodeInv(w), EventInv', NEW e \in Ends, FirstEventTooBig(e)
    PROVE  DecodeInv(w)'
<1>1. /\ out \in [Ends -> Seq(Messages)] /\ index[e] = 0 /\ mode[e] = "writing"
      /\ PacketIsQueueFront
  BY DEF DecodeInv, EventInv, TypeOK, FirstEventTooBig
<1>2. out[e] = <<>>
  <2>1. Len(out[e]) = 0
    BY <1>1 DEF PacketIsQueueFront
  <2> QED BY <1>1, <2>1
<1>3. LeaveLoop(e) /\ UNCHANGED <<queue, wire, inbox>> /\ out' = [out EXCEPT ![e] = <<>>]
  BY DEF FirstEventTooBig, Leave
<1>4. out' = out
  BY <1>1, <1>2, <1>3
<1>5. /\ cache'[Peer(w)] = cache[Peer(w)] /\ KnownHeld(cache[w])'
      /\ ~polluted'[w] => ~polluted[w] /\ cache'[w] = cache[w]
  BY <1>3, LoopLeft
<1>6. Silent(Peer(w))'
  BY <1>3, <1>4 DEF DecodeInv, Silent
<1>7. (~polluted[w] => NamesLead(w))'
  BY <1>3, <1>4, <1>5 DEF DecodeInv, NamesLead
<1> QED BY <1>5, <1>6, <1>7 DEF DecodeInv

LEMMA BeginReadDecodes ==
    ASSUME NEW w \in Ends, DecodeInv(w), EventInv', NEW e \in Ends, BeginRead(e)
    PROVE  DecodeInv(w)'
<1>1. /\ inbox \in [Ends -> Seq(Messages)] /\ wire \in [Ends -> Seq(Seq(Messages))]
      /\ cache \in [Ends -> Caches] /\ Silent(Peer(w))
  BY DEF DecodeInv, EventInv, TypeOK
<1>2. /\ w \in Ends /\ Peer(w) \in Ends /\ Peer(w) # w /\ Ends = {w, Peer(w)}
      /\ Peer(Peer(w)) = w
  BY DEF Ends, Peer
<1>3. /\ inbox[e] = <<>> /\ wire[Peer(e)] # <<>>
      /\ inbox' = [inbox EXCEPT ![e] = Head(wire[Peer(e)])]
      /\ wire' = [wire EXCEPT ![Peer(e)] = Tail(wire[Peer(e)])]
      /\ UNCHANGED <<queue, cache, out, polluted>>
  BY DEF BeginRead, Idle
<1>4. KnownHeld(cache[w])'
  BY <1>3 DEF DecodeInv, KnownHeld, Knows, LookupByString
<1>5. CASE e = w
  <2> DEFINE r == Peer(w)
  <2>1. /\ wire[r] # <<>> /\ wire[r] \in Seq(Seq(Messages))
        /\ \A k \in 1 .. Len(wire[r]) : wire[r][k] = <<>>
    BY <1>1, <1>2, <1>3, <1>5 DEF Silent
  <2>2. /\ inbox'[w] = Head(wire[r]) /\ inbox'[r] = inbox[r]
        /\ wire'[w] = wire[w] /\ wire'[r] = Tail(wire[r])
    BY <1>1, <1>2, <1>3, <1>5
  <2> HIDE DEF r
  <2>3. /\ Len(wire[r]) \in Nat \ {0} /\ Len(Tail(wire[r])) = Len(wire[r]) - 1
        /\ \A k \in 1 .. Len(wire[r]) - 1 : Tail(wire[r])[k] = wire[r][k + 1]
        /\ Head(wire[r]) = wire[r][1]
    BY <2>1
  <2>4. \A k \in 1 .. Len(wire'[r]) : wire'[r][k] = <<>>
    <3> SUFFICES ASSUME NEW k \in 1 .. Len(wire'[r]) PROVE wire'[r][k] = <<>>
      OBVIOUS
    <3>1. k \in 1 .. Len(wire[r]) - 1 /\ k + 1 \in 1 .. Len(wire[r])
      BY <2>2, <2>3
    <3> QED BY <2>1, <2>2, <2>3, <3>1
  <2>5. inbox'[w] = <<>>
    BY <2>1, <2>2, <2>3
  <2>6. Silent(Peer(w))'
    BY <1>1, <1>2, <1>3, <2>4, <2>5 DEF Silent, r
  <2>7. (~polluted[w] => NamesLead(w))'
    BY <1>3, <2>2 DEF DecodeInv, NamesLead, r
  <2> QED BY <1>4, <2>6, <2>7 DEF DecodeInv
<1>6. CASE e = Peer(w)
  <2>1. /\ inbox'[e] = Head(wire[w]) /\ inbox'[w] = inbox[w]
        /\ wire'[w] = Tail(wire[w]) /\ wire'[e] = wire[e]
        /\ inbox[e] = <<>> /\ wire[w] # <<>>
    BY <1>1, <1>2, <1>3, <1>6
  <2>2. Silent(Peer(w))'
    BY <1>1, <1>2, <1>3, <1>6, <2>1 DEF Silent
  <2>3. ASSUME ~polluted'[w] PROVE NamesLead(w)'
    <3>1. Journey(Caches, Messages, NameSteps, cache[e], <<>>, wire[w], out[w], cache[w])
      BY <1>3, <1>6, <2>1, <2>3 DEF DecodeInv, NamesLead
    <3>2. cache[e] \in Caches /\ wire[w] \in Seq(Seq(Messages))
      BY <1>1
    <3>3. Journey(Caches, Messages, NameSteps, cache[e],
                  Head(wire[w]), Tail(wire[w]), out[w], cache[w])
      BY <2>1, <3>1, <3>2, JourneyTake
    <3> QED BY <1>3, <1>6, <2>1, <3>3 DEF NamesLead
  <2> QED BY <1>4, <2>2, <2>3 DEF DecodeInv
<1> QED BY <1>2, <1>5, <1>6

\* Unless the sender's cache is polluted, the message at the head of what the
\* reader reads is read as the name of its event.
LEMMA HeadIsUnderstood ==
    ASSUME NEW w \in Ends, DecodeInv(w), ~polluted[w], inbox[Peer(w)] # <<>>
    PROVE  LET r == Peer(w)
           IN  /\ DecodedName(r) = TypeName[Head(inbox[r]).event]
               /\ Journey(Caches, Messages, NameSteps,
                          AfterRead(cache[r], Head(inbox[r]).name),
                          Tail(inbox[r]), wire[w], out[w], cache[w])
<1> DEFINE r == Peer(w)
<1>1. r \in Ends
  BY PeerType
<1>2. inbox[r] \in Seq(Messages) /\ inbox[r] # <<>>
  BY <1>1 DEF DecodeInv, EventInv, TypeOK
<1>3. Journey(Caches, Messages, NameSteps, cache[r], inbox[r], wire[w], out[w], cache[w])
  BY DEF DecodeInv, NamesLead
<1> HIDE DEF r
<1>4. PICK m \in Caches :
          /\ <<cache[r], Head(inbox[r]), m>> \in NameSteps
          /\ Journey(Caches, Messages, NameSteps, m, Tail(inbox[r]), wire[w], out[w], cache[w])
  BY <1>2, <1>3, JourneyRead
<1>5. /\ ReadString(cache[r], Head(inbox[r]).name) = TypeName[Head(inbox[r]).event]
      /\ m = AfterRead(cache[r], Head(inbox[r]).name)
  BY <1>4 DEF NameSteps
<1> QED BY <1>4, <1>5 DEF DecodedName, r

LEMMA ParseDecodes ==
    ASSUME NEW w \in Ends, DecodeInv(w), EventInv', NEW e \in Ends, Parse(e)
    PROVE  DecodeInv(w)'
<1>1. /\ inbox \in [Ends -> Seq(Messages)] /\ cache \in [Ends -> Caches]
      /\ Silent(Peer(w)) /\ inbox[e] # <<>>
  BY DEF DecodeInv, EventInv, TypeOK, Parse, ReadEvent, UnknownType, WrongType
<1>2. /\ w \in Ends /\ Peer(w) \in Ends /\ Peer(w) # w /\ Ends = {w, Peer(w)}
      /\ Peer(Peer(w)) = w
  BY DEF Ends, Peer
<1>3. e = Peer(w)
  BY <1>1, <1>2 DEF Silent
<1>4. /\ cache' = [cache EXCEPT ![e] = AfterRead(cache[e], Head(inbox[e]).name)]
      /\ inbox' \in {[inbox EXCEPT ![e] = Tail(inbox[e])], [inbox EXCEPT ![e] = <<>>]}
      /\ UNCHANGED <<queue, mode, bits, index, out, wire, polluted>>
  BY DEF Parse, ReadEvent, UnknownType, WrongType
<1>5. /\ cache'[w] = cache[w] /\ inbox'[w] = inbox[w]
      /\ cache'[e] = AfterRead(cache[e], Head(inbox[e]).name)
  BY <1>1, <1>2, <1>3, <1>4
<1>6. KnownHeld(cache[w])'
  BY <1>5 DEF DecodeInv, KnownHeld, Knows, LookupByString
<1>7. Silent(Peer(w))'
  BY <1>1, <1>2, <1>4, <1>5 DEF Silent
<1>8. ASSUME ~polluted'[w] PROVE NamesLead(w)'
  <2>1. ~polluted[w]
    BY <1>4, <1>8
  <2>2. /\ DecodedName(e) = TypeName[Head(inbox[e]).event]
        /\ Journey(Caches, Messages, NameSteps,
                   AfterRead(cache[e], Head(inbox[e]).name),
                   Tail(inbox[e]), wire[w], out[w], cache[w])
    BY <1>1, <1>3, <2>1, HeadIsUnderstood
  <2>3. TypeName[Head(inbox[e]).event] # NoString
    <3>1. Head(inbox[e]) \in Messages
      BY <1>1
    <3>2. TypeName[Head(inbox[e]).event] \in Strings
      BY <3>1, EventAssumption DEF Messages
    <3> QED BY <3>2, CacheAssumption
  <2>4. inbox' = [inbox EXCEPT ![e] = Tail(inbox[e])]
    BY <2>2, <2>3 DEF Parse, ReadEvent, UnknownType, WrongType
  <2>5. inbox'[e] = Tail(inbox[e])
    BY <1>1, <2>4
  <2> QED BY <1>3, <1>4, <1>5, <2>2, <2>5 DEF NamesLead
<1> QED BY <1>6, <1>7, <1>8 DEF DecodeInv

LEMMA DecodeNext ==
    ASSUME NEW w \in Ends, Posters \subseteq {w}
    PROVE  DecodeInv(w) /\ [Next]_vars => DecodeInv(w)'
<1> SUFFICES ASSUME DecodeInv(w), [Next]_vars PROVE DecodeInv(w)'
  OBVIOUS
<1>1. EventInv'
  BY EventNext DEF DecodeInv
<1>2. CASE UNCHANGED vars
  <2>1. UNCHANGED <<queue, cache, polluted, out, wire, inbox>>
    BY <1>2 DEF vars
  <2> QED BY <1>1, <2>1, NothingMoves
<1>3. CASE Next
  <2>1. PICK e \in Ends : \/ e \in Posters /\ \E ev \in Events : Post(e, ev)
                          \/ BeginPacket(e) \/ Write(e)
                          \/ BeginRead(e) \/ Parse(e)
    BY <1>3 DEF Next
  <2>2. CASE e \in Posters /\ \E ev \in Events : Post(e, ev)
    <3>1. PICK ev \in Events : Post(e, ev)
      BY <2>2
    <3>2. e = w /\ Peer(w) # w /\ Peer(w) \in Ends
      BY <2>2, PeerType
    <3>3. queue'[Peer(w)] = queue[Peer(w)]
      BY <3>1, <3>2 DEF Post, DecodeInv, EventInv, TypeOK
    <3>4. UNCHANGED <<cache, polluted, out, wire, inbox>>
      BY <3>1 DEF Post
    <3> QED BY <1>1, <3>3, <3>4, NothingMoves
  <2>3. CASE BeginPacket(e)
    <3>1. UNCHANGED <<queue, cache, polluted, out, wire, inbox>>
      BY <2>3 DEF BeginPacket
    <3> QED BY <1>1, <3>1, NothingMoves
  <2>4. CASE Write(e)
    BY <1>1, <2>4, WriteEventDecodes, SendPacketDecodes, FirstEventTooBigDecodes DEF Write
  <2>5. CASE BeginRead(e)
    BY <1>1, <2>5, BeginReadDecodes
  <2>6. CASE Parse(e)
    BY <1>1, <2>6, ParseDecodes
  <2> QED BY <2>1, <2>2, <2>3, <2>4, <2>5, <2>6
<1> QED BY <1>2, <1>3

LEMMA DecodeInvariant ==
    ASSUME NEW w \in Ends, Posters \subseteq {w}
    PROVE  Spec => []DecodeInv(w)
<1>1. Init => DecodeInv(w)
  BY DecodeInit
<1>2. DecodeInv(w) /\ [Next]_vars => DecodeInv(w)'
  BY DecodeNext
<1> QED BY <1>1, <1>2, PTL DEF Spec

\* When only one end posts, an event arrives as the event that was posted,
\* however often ids have been redefined since its name was first sent, unless
\* the sender has rolled back a definition (EventConnection.as:43-75, 99-120).
THEOREM EventsDecode ==
    ASSUME NEW w \in Ends, Posters \subseteq {w}
    PROVE  Spec => []DecodesUnlessPolluted
<1>1. DecodeInv(w) => DecodesUnlessPolluted
  <2> SUFFICES ASSUME DecodeInv(w), NEW e \in Ends,
                      inbox[e] # <<>>, ~polluted[Peer(e)]
               PROVE  DecodedName(e) = TypeName[Head(inbox[e]).event]
    BY DEF DecodesUnlessPolluted
  <2>1. e \in {w, Peer(w)} /\ Peer(Peer(w)) = w
    BY DEF Ends, Peer
  <2>2. e = Peer(w) /\ ~polluted[w]
    BY <2>1 DEF DecodeInv, Silent
  <2> QED BY <2>2, HeadIsUnderstood
<1>2. Spec => []DecodeInv(w)
  BY DecodeInvariant
<1> QED BY <1>1, <1>2, PTL

-----------------------------------------------------------------------------
(* The channel to the client: what every step does to the events in        *)
(* transit.                                                                *)

LEMMA EventsOfType ==
    ASSUME NEW s \in Seq(Messages) PROVE EventsOf(s) \in Seq(Events)
<1>1. \A k \in 1 .. Len(s) : s[k].event \in Events
  <2> SUFFICES ASSUME NEW k \in 1 .. Len(s) PROVE s[k].event \in Events
    OBVIOUS
  <2>1. s[k] \in Messages
    OBVIOUS
  <2> QED BY <2>1 DEF Messages
<1> QED BY <1>1 DEF EventsOf

LEMMA EventsOfJoined ==
    ASSUME NEW s \in Seq(Messages), NEW t \in Seq(Messages)
    PROVE  EventsOf(s \o t) = EventsOf(s) \o EventsOf(t)
<1>1. Len(s \o t) = Len(s) + Len(t) /\ Len(EventsOf(s)) = Len(s) /\ Len(EventsOf(t)) = Len(t)
  BY DEF EventsOf
<1>2. ASSUME NEW k \in 1 .. Len(s) + Len(t)
      PROVE  (s \o t)[k].event = (EventsOf(s) \o EventsOf(t))[k]
  BY <1>1, <1>2 DEF EventsOf
<1>3. EventsOf(s \o t) \in Seq(Events) /\ EventsOf(s) \o EventsOf(t) \in Seq(Events)
  <2>1. s \o t \in Seq(Messages)
    OBVIOUS
  <2>2. EventsOf(s \o t) \in Seq(Events)
    BY <2>1, EventsOfType
  <2>3. EventsOf(s) \in Seq(Events) /\ EventsOf(t) \in Seq(Events)
    BY EventsOfType
  <2> QED BY <2>2, <2>3
<1>4. Len(EventsOf(s \o t)) = Len(EventsOf(s) \o EventsOf(t))
  BY <1>1 DEF EventsOf
<1>5. \A k \in 1 .. Len(EventsOf(s \o t)) :
         EventsOf(s \o t)[k] = (EventsOf(s) \o EventsOf(t))[k]
  BY <1>1, <1>2 DEF EventsOf
<1> QED BY <1>3, <1>4, <1>5, SeqEqual

LEMMA EventsOfRead ==
    ASSUME NEW s \in Seq(Messages), s # <<>>
    PROVE  /\ EventsOf(s) # <<>> /\ Head(EventsOf(s)) = Head(s).event
           /\ Tail(EventsOf(s)) = EventsOf(Tail(s))
<1>1. Len(s) \in Nat \ {0} /\ Len(Tail(s)) = Len(s) - 1
      /\ \A k \in 1 .. Len(s) - 1 : Tail(s)[k] = s[k + 1]
  OBVIOUS
<1> QED BY <1>1 DEF EventsOf

ChannelStep == ToClient!Next \/ UNCHANGED <<InTransit("server"), got["client"], polluted["server"]>>

\* The state of the direction from the server to the client, step by step.
LEMMA SameTraffic ==
    ASSUME UNCHANGED <<inbox["client"], wire["server"], queue["server"], got["client"]>>,
           polluted["server"] \in BOOLEAN, polluted["server"]' \in BOOLEAN,
           polluted["server"] => polluted["server"]'
    PROVE  ChannelStep
<1>1. InTransit("server")' = InTransit("server")
  BY DEF InTransit, Peer
<1>2. CASE polluted["server"]'
  BY <1>2 DEF ChannelStep, ToClient!Next
<1>3. CASE ~polluted["server"]'
  BY <1>1, <1>3 DEF ChannelStep
<1> QED BY <1>2, <1>3

LEMMA PostIsVisible ==
    ASSUME EventInv, NEW e \in Ends, NEW ev \in Events, Post(e, ev)
    PROVE  ChannelStep
<1>1. /\ inbox \in [Ends -> Seq(Messages)] /\ wire \in [Ends -> Seq(Seq(Messages))]
      /\ queue \in [Ends -> Seq(Events)] /\ polluted \in [Ends -> BOOLEAN]
      /\ "server" \in Ends /\ "client" \in Ends /\ Peer("server") = "client"
  BY DEF EventInv, TypeOK, Ends, Peer
<1>2. UNCHANGED <<inbox, wire, got, polluted>> /\ queue' = [queue EXCEPT ![e] = Append(@, ev)]
  BY DEF Post
<1>3. CASE e = "server"
  <2> DEFINE s == inbox["client"] \o FlattenSeq(wire["server"])
  <2>1. s \in Seq(Messages)
    <3>1. FlattenSeq(wire["server"]) \in Seq(Messages) /\ inbox["client"] \in Seq(Messages)
      BY <1>1, FlattenType
    <3> QED BY <3>1
  <2>2. s' = s
    BY <1>2
  <2> HIDE DEF s
  <2>3. EventsOf(s) \in Seq(Events)
    BY <2>1, EventsOfType
  <2>4. queue'["server"] = Append(queue["server"], ev) /\ queue["server"] \in Seq(Events)
    BY <1>1, <1>2, <1>3
  <2>5. EventsOf(s) \o Append(queue["server"], ev) = Append(EventsOf(s) \o queue["server"], ev)
    BY <2>3, <2>4
  <2>6. InTransit("server") = EventsOf(s) \o queue["server"]
    BY <1>1 DEF InTransit, s
  <2>7. InTransit("server")' = EventsOf(s) \o queue'["server"]
    BY <1>1, <2>2 DEF InTransit, s
  <2>8. InTransit("server")' = Append(InTransit("server"), ev)
    BY <2>4, <2>5, <2>6, <2>7
  <2>9. ToClient!Post
    BY <1>2, <2>8 DEF ToClient!Post
  <2> QED BY <2>9 DEF ChannelStep, ToClient!Next
<1>4. CASE e # "server"
  <2>1. queue'["server"] = queue["server"]
    BY <1>1, <1>2, <1>4
  <2> QED BY <1>1, <1>2, <2>1, SameTraffic
<1> QED BY <1>3, <1>4

\* EventConnection.as:82, 92: what leaves the queue is what goes on the wire.
LEMMA SendIsInvisible ==
    ASSUME EventInv, EventInv', NEW e \in Ends, SendPacket(e)
    PROVE  ChannelStep
<1>1. /\ inbox \in [Ends -> Seq(Messages)] /\ wire \in [Ends -> Seq(Seq(Messages))]
      /\ queue \in [Ends -> Seq(Events)] /\ polluted \in [Ends -> BOOLEAN]
      /\ polluted' \in [Ends -> BOOLEAN] /\ out \in [Ends -> Seq(Messages)]
      /\ index \in [Ends -> Nat]
      /\ "server" \in Ends /\ "client" \in Ends /\ Peer("server") = "client"
  BY DEF EventInv, TypeOK, Ends, Peer
<1>2. /\ UNCHANGED <<inbox, got>>
      /\ queue' = [queue EXCEPT ![e] = SubSeq(@, index[e] + 1, Len(@))]
      /\ wire' = [wire EXCEPT ![e] = Append(@, out[e])]
      /\ mode[e] = "writing"
  BY DEF SendPacket
<1>3. polluted["server"] => polluted["server"]'
  <2>1. \A f \in Ends : polluted[f] => polluted'[f]
    BY <1>1 DEF SendPacket, LeaveLoop, RollBack
  <2> QED BY <1>1, <2>1
<1>4. CASE e # "server"
  <2>1. queue'["server"] = queue["server"] /\ wire'["server"] = wire["server"]
    BY <1>1, <1>2, <1>4
  <2>2. UNCHANGED <<inbox["client"], wire["server"], queue["server"], got["client"]>>
    BY <1>2, <2>1
  <2> QED BY <1>1, <1>3, <2>2, SameTraffic
<1>5. CASE e = "server"
  <2> DEFINE q == queue["server"]
             n == index["server"]
             in == inbox["client"]
             fl == FlattenSeq(wire["server"])
             o == out["server"]
             rest == SubSeq(q, n + 1, Len(q))
  <2>1. /\ q \in Seq(Events) /\ n \in Nat /\ n <= Len(q) /\ Len(o) = n /\ o \in Seq(Messages)
        /\ in \in Seq(Messages) /\ \A k \in 1 .. n : o[k].event = q[k]
    BY <1>1, <1>2, <1>5 DEF EventInv, PacketIsQueueFront
  <2>2. fl \in Seq(Messages)
    BY <1>1, FlattenType
  <2>3. FlattenSeq(wire["server"])' = fl \o o
    <3>1. wire'["server"] = Append(wire["server"], o)
      BY <1>1, <1>2, <1>5
    <3>2. wire["server"] \in Seq(Seq(Messages))
      BY <1>1
    <3> QED BY <2>1, <3>1, <3>2, FlattenAppend
  <2>4. InTransit("server") = EventsOf(in \o fl) \o q
    BY <1>1 DEF InTransit
  <2>5. InTransit("server")' = EventsOf(in \o (fl \o o)) \o rest
    <3>1. queue'["server"] = rest /\ inbox'["client"] = in
      BY <1>1, <1>2, <1>5
    <3> QED BY <1>1, <2>3, <3>1 DEF InTransit
  <2> HIDE DEF in, fl, o, rest, q, n
  <2>6. EventsOf(o) \o rest = q
    <3>1. EventsOf(o) \in Seq(Events) /\ Len(EventsOf(o)) = n
      BY <2>1, EventsOfType DEF EventsOf
    <3>2. \A k \in 1 .. n : EventsOf(o)[k] = q[k]
      BY <2>1 DEF EventsOf
    <3> QED BY <2>1, <3>1, <3>2, FrontAndRest DEF rest
  <2>7. EventsOf(in \o (fl \o o)) = EventsOf(in \o fl) \o EventsOf(o)
    <3>1. in \o (fl \o o) = (in \o fl) \o o
      <4>1. \A x, y, z \in Seq(Messages) : (x \o y) \o z = x \o (y \o z)
        <5> SUFFICES ASSUME NEW x \in Seq(Messages), NEW y \in Seq(Messages),
                            NEW z \in Seq(Messages)
                     PROVE  (x \o y) \o z = x \o (y \o z)
          OBVIOUS
        <5> QED OBVIOUS
      <4> QED BY <2>1, <2>2, <4>1, Zenon
    <3>2. in \o fl \in Seq(Messages)
      BY <2>1, <2>2
    <3> QED BY <2>1, <3>1, <3>2, EventsOfJoined
  <2>8. (EventsOf(in \o fl) \o EventsOf(o)) \o rest = EventsOf(in \o fl) \o (EventsOf(o) \o rest)
    <3>1. in \o fl \in Seq(Messages) /\ o \in Seq(Messages)
      BY <2>1, <2>2
    <3>2. EventsOf(in \o fl) \in Seq(Events) /\ EventsOf(o) \in Seq(Events)
      BY <3>1, EventsOfType
    <3>3. rest \in Seq(Events)
      BY <2>1 DEF rest
    <3> QED BY <3>2, <3>3, JoinAssociates
  <2>9. InTransit("server")' = InTransit("server")
    BY <2>4, <2>5, <2>6, <2>7, <2>8
  <2>10. CASE polluted'["server"]
    BY <2>10 DEF ChannelStep, ToClient!Next
  <2>11. CASE ~polluted'["server"]
    <3>1. polluted'["server"] = polluted["server"]
      BY <1>1, <1>3, <2>11
    <3> QED BY <1>2, <2>9, <3>1 DEF ChannelStep
  <2> QED BY <2>10, <2>11
<1> QED BY <1>4, <1>5

\* EventConnection.as:96-99: the next packet is read where the last one ended.
LEMMA TakingIsInvisible ==
    ASSUME EventInv, EventInv', NEW e \in Ends, BeginRead(e)
    PROVE  ChannelStep
<1>1. /\ inbox \in [Ends -> Seq(Messages)] /\ wire \in [Ends -> Seq(Seq(Messages))]
      /\ queue \in [Ends -> Seq(Events)] /\ polluted \in [Ends -> BOOLEAN]
      /\ "server" \in Ends /\ "client" \in Ends /\ Peer("server") = "client"
      /\ Peer("client") = "server" /\ Ends = {"client", "server"}
  BY DEF EventInv, TypeOK, Ends, Peer
<1>2. /\ UNCHANGED <<queue, got, polluted>>
      /\ inbox' = [inbox EXCEPT ![e] = Head(wire[Peer(e)])]
      /\ wire' = [wire EXCEPT ![Peer(e)] = Tail(@)]
      /\ inbox[e] = <<>> /\ wire[Peer(e)] # <<>>
  BY DEF BeginRead, Idle
<1>3. CASE e = "server"
  <2>1. inbox'["client"] = inbox["client"] /\ wire'["server"] = wire["server"]
    BY <1>1, <1>2, <1>3
  <2> QED BY <1>1, <1>2, <2>1, SameTraffic
<1>4. CASE e = "client"
  <2> DEFINE w == wire["server"]
  <2>1. /\ w \in Seq(Seq(Messages)) /\ w # <<>> /\ inbox["client"] = <<>>
        /\ inbox'["client"] = Head(w) /\ wire'["server"] = Tail(w)
    BY <1>1, <1>2, <1>4
  <2> HIDE DEF w
  <2>2. FlattenSeq(w) = Head(w) \o FlattenSeq(Tail(w))
    BY <2>1, FlattenFirst
  <2>3. FlattenSeq(w) \in Seq(Messages)
    BY <2>1, FlattenType
  <2>4. <<>> \o FlattenSeq(w) = FlattenSeq(w)
    BY <2>3
  <2>5. InTransit("server")' = InTransit("server")
    BY <1>1, <1>2, <2>1, <2>2, <2>4 DEF InTransit, w
  <2> QED BY <1>2, <2>5 DEF ChannelStep
<1> QED BY <1>1, <1>3, <1>4

\* EventConnection.as:99-120: an event that is processed is the oldest one.
LEMMA ParseProcesses ==
    ASSUME DecodeInv("server"), EventInv', NEW e \in Ends, Parse(e)
    PROVE  ChannelStep
<1>1. /\ inbox \in [Ends -> Seq(Messages)] /\ wire \in [Ends -> Seq(Seq(Messages))]
      /\ queue \in [Ends -> Seq(Events)] /\ polluted \in [Ends -> BOOLEAN]
      /\ got \in [Ends -> Events \cup {NoEvent, Garbled}]
      /\ "server" \in Ends /\ "client" \in Ends /\ Peer("server") = "client"
      /\ Peer("client") = "server" /\ Ends = {"client", "server"}
  BY DEF DecodeInv, EventInv, TypeOK, Ends, Peer
<1>2. UNCHANGED <<queue, wire, polluted>> /\ inbox[e] # <<>>
  BY DEF Parse, ReadEvent, UnknownType, WrongType
<1>3. e = "client"
  BY <1>1, <1>2 DEF DecodeInv, Silent
<1>4. CASE polluted["server"]
  BY <1>2, <1>4 DEF ChannelStep, ToClient!Next
<1>5. CASE ~polluted["server"]
  <2> DEFINE in == inbox["client"]
             fl == FlattenSeq(wire["server"])
             s == in \o fl
  <2>1. in \in Seq(Messages) /\ in # <<>> /\ queue["server"] \in Seq(Events)
    BY <1>1, <1>2, <1>3
  <2>2. fl \in Seq(Messages)
    BY <1>1, FlattenType
  <2>3. DecodedName(e) = TypeName[Head(in).event] /\ TypeName[Head(in).event] # NoString
    <3>1. DecodedName(e) = TypeName[Head(inbox[e]).event]
      BY <1>1, <1>2, <1>3, <1>5, HeadIsUnderstood
    <3>2. Head(in) \in Messages
      BY <2>1
    <3>3. TypeName[Head(in).event] \in Strings
      BY <3>2, EventAssumption DEF Messages
    <3> QED BY <1>3, <3>1, <3>3, CacheAssumption
  <2>4. ReadEvent(e)
    BY <1>3, <2>3 DEF Parse, UnknownType, WrongType
  <2>5. got'["client"] = Head(in).event /\ inbox'["client"] = Tail(in)
    BY <1>1, <1>3, <2>4 DEF ReadEvent
  <2> HIDE DEF in, fl
  <2>6. s \in Seq(Messages) /\ s # <<>> /\ Head(s) = Head(in) /\ Tail(s) = Tail(in) \o fl
    BY <2>1, <2>2
  <2>7. InTransit("server") = EventsOf(s) \o queue["server"]
    BY <1>1 DEF InTransit, in, fl
  <2>8. InTransit("server")' = EventsOf(Tail(s)) \o queue["server"]
    BY <1>1, <1>2, <2>5, <2>6 DEF InTransit, fl
  <2> HIDE DEF s
  <2>9. /\ EventsOf(s) # <<>> /\ EventsOf(s) \in Seq(Events)
        /\ Head(EventsOf(s)) = Head(s).event
        /\ Tail(EventsOf(s)) = EventsOf(Tail(s))
    BY <2>6, EventsOfType, EventsOfRead
  <2>10. /\ EventsOf(s) \o queue["server"] # <<>>
         /\ Head(EventsOf(s) \o queue["server"]) = Head(EventsOf(s))
         /\ Tail(EventsOf(s) \o queue["server"]) = Tail(EventsOf(s)) \o queue["server"]
    BY <2>1, <2>9
  <2>11. ToClient!Process
    BY <1>2, <1>5, <2>5, <2>6, <2>7, <2>8, <2>9, <2>10 DEF ToClient!Process
  <2> QED BY <2>11 DEF ChannelStep, ToClient!Next
<1> QED BY <1>4, <1>5

LEMMA ChannelSimulated ==
    ASSUME DecodeInv("server"), Posters \subseteq {"server"}, [Next]_vars
    PROVE  ChannelStep
<1>1. EventInv /\ EventInv'
  BY EventNext DEF DecodeInv
<1>2. /\ polluted \in [Ends -> BOOLEAN] /\ polluted' \in [Ends -> BOOLEAN]
      /\ "server" \in Ends
  BY <1>1 DEF EventInv, TypeOK, Ends
<1>3. CASE UNCHANGED vars
  BY <1>2, <1>3, SameTraffic DEF vars
<1>4. CASE Next
  <2>1. PICK e \in Ends : \/ e \in Posters /\ \E ev \in Events : Post(e, ev)
                          \/ BeginPacket(e) \/ Write(e)
                          \/ BeginRead(e) \/ Parse(e)
    BY <1>4 DEF Next
  <2>2. CASE \E ev \in Events : Post(e, ev)
    BY <1>1, <2>2, PostIsVisible
  <2>3. CASE BeginPacket(e) \/ WriteEvent(e)
    <3>1. UNCHANGED <<queue, wire, inbox, got, polluted>>
      BY <2>3 DEF BeginPacket, WriteEvent
    <3> QED BY <1>2, <3>1, SameTraffic
  <2>4. CASE SendPacket(e)
    BY <1>1, <2>4, SendIsInvisible
  <2>5. CASE FirstEventTooBig(e)
    <3>1. UNCHANGED <<queue, wire, inbox, got>>
      BY <2>5 DEF FirstEventTooBig
    <3>2. polluted["server"] => polluted["server"]'
      BY <1>2, <2>5 DEF FirstEventTooBig, LeaveLoop, RollBack
    <3> QED BY <1>2, <3>1, <3>2, SameTraffic
  <2>6. CASE BeginRead(e)
    BY <1>1, <2>6, TakingIsInvisible
  <2>7. CASE Parse(e)
    BY <1>1, <2>7, ParseProcesses
  <2> QED BY <2>1, <2>2, <2>3, <2>4, <2>5, <2>6, <2>7 DEF Write
<1> QED BY <1>3, <1>4

\* When only the server posts, every step is a postEvent, the processing of
\* the oldest event, or invisible to the program, until the definition of a
\* name is rolled back: the safety part of ToClientImplementsChannel (its
\* fairness stays with the model checker).
THEOREM ConnectionImplementsChannel ==
    ASSUME Posters \subseteq {"server"}
    PROVE  Spec => /\ ToClient!Init
                   /\ [][ToClient!Next]_<<InTransit("server"), got["client"],
                                          polluted["server"]>>
<1>1. Init => ToClient!Init
  <2> SUFFICES ASSUME Init PROVE ToClient!Init
    OBVIOUS
  <2>1. /\ inbox["client"] = <<>> /\ wire["server"] = <<>> /\ queue["server"] = <<>>
        /\ got["client"] = NoEvent /\ polluted["server"] = FALSE
    BY DEF Init, Ends
  <2>2. <<>> \o FlattenSeq(<<>>) = <<>>
    BY FlattenEmpty
  <2>3. EventsOf(<<>>) \o <<>> = <<>>
    BY DEF EventsOf
  <2>4. InTransit("server") = <<>>
    BY <2>1, <2>2, <2>3 DEF InTransit, Peer
  <2> QED BY <2>1, <2>4 DEF ToClient!Init
<1>2. DecodeInv("server") /\ [Next]_vars
        => [ToClient!Next]_<<InTransit("server"), got["client"], polluted["server"]>>
  BY ChannelSimulated DEF ChannelStep
<1>3. "server" \in Ends
  BY DEF Ends
<1>4. Init => DecodeInv("server")
  BY <1>3, DecodeInit
<1>5. DecodeInv("server") /\ [Next]_vars => DecodeInv("server")'
  BY <1>3, DecodeNext
<1> QED BY <1>1, <1>2, <1>4, <1>5, PTL DEF Spec
=============================================================================
