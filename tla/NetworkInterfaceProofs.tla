------------------------ MODULE NetworkInterfaceProofs -----------------------
(***************************************************************************)
(* For any number of connections, and every interleaving of ticks, sockets  *)
(* and the game, which may open a connection object again at any time: of   *)
(* the objects that were opened once, one with a live socket is in the      *)
(* array, once, and none is removed that is not there.                      *)
(***************************************************************************)
EXTENDS NetworkInterface, NaturalsInduction, SequenceTheorems,
        WellFoundedInduction, TLAPS

\* splice(): what stands behind the place moves up by one.
LEMMA SplicedFacts ==
    ASSUME NEW B, NEW s \in Seq(B), NEW i \in 1 .. Len(s)
    PROVE  /\ Spliced(s, i) \in Seq(B)
           /\ Len(Spliced(s, i)) = Len(s) - 1
           /\ \A k \in 1 .. Len(s) - 1 :
                 Spliced(s, i)[k] = IF k < i THEN s[k] ELSE s[k + 1]
<1> DEFINE front == SubSeq(s, 1, i - 1)
           back  == SubSeq(s, i + 1, Len(s))
<1>1. Len(s) \in Nat /\ i \in Nat /\ 1 <= i /\ i <= Len(s)
  BY LenProperties
<1>2. \A k \in 1 .. Len(s) : s[k] \in B
  BY ElementOfSeq
<1>3. /\ front \in Seq(B)
      /\ Len(front) = IF 1 <= i - 1 THEN (i - 1) - 1 + 1 ELSE 0
      /\ \A k \in 1 .. (i - 1) - 1 + 1 : front[k] = s[1 + k - 1]
  <2>1. \A k \in 1 .. i - 1 : s[k] \in B
    BY <1>1, <1>2
  <2>2. i - 1 \in Int
    BY <1>1
  <2> QED BY <1>1, <2>1, <2>2, SubSeqProperties
<1>4. Len(front) = i - 1 /\ \A k \in 1 .. i - 1 : front[k] = s[k]
  BY <1>1, <1>3
<1>5. /\ back \in Seq(B)
      /\ Len(back) = IF i + 1 <= Len(s) THEN Len(s) - (i + 1) + 1 ELSE 0
      /\ \A k \in 1 .. Len(s) - (i + 1) + 1 : back[k] = s[(i + 1) + k - 1]
  <2>1. \A k \in i + 1 .. Len(s) : s[k] \in B
    BY <1>1, <1>2
  <2> QED BY <1>1, <2>1, SubSeqProperties
<1>6. Len(back) = Len(s) - i /\ \A k \in 1 .. Len(s) - i : back[k] = s[i + k]
  BY <1>1, <1>5
<1>7. front \in Seq(B) /\ back \in Seq(B)
  BY <1>3, <1>5
<1>8. Spliced(s, i) = front \o back
  BY DEF Spliced
<1> HIDE DEF front, back
<1> DEFINE all == front \o back
<1>9. /\ all \in Seq(B) /\ Len(all) = Len(front) + Len(back)
      /\ \A k \in 1 .. Len(front) + Len(back) :
            all[k] = IF k <= Len(front) THEN front[k] ELSE back[k - Len(front)]
  BY <1>7, ConcatProperties
<1> HIDE DEF all
<1>10. Len(all) = Len(s) - 1
  BY <1>1, <1>4, <1>6, <1>9
<1>11. ASSUME NEW k \in 1 .. Len(s) - 1
       PROVE  all[k] = IF k < i THEN s[k] ELSE s[k + 1]
  <2>1. k \in 1 .. Len(front) + Len(back) /\ k \in Nat
    BY <1>1, <1>4, <1>6, <1>11
  <2>2. CASE k < i
    <3>1. k <= Len(front) /\ k \in 1 .. i - 1
      BY <1>1, <1>4, <1>11, <2>1, <2>2
    <3> QED BY <1>4, <1>9, <2>1, <2>2, <3>1
  <2>3. CASE ~(k < i)
    <3>1. ~(k <= Len(front)) /\ k - Len(front) \in 1 .. Len(s) - i
      BY <1>1, <1>4, <1>11, <2>1, <2>3
    <3>2. all[k] = s[i + (k - Len(front))]
      BY <1>6, <1>9, <2>1, <3>1
    <3>3. i + (k - Len(front)) = k + 1
      BY <1>1, <1>4, <2>1
    <3> QED BY <2>3, <3>2, <3>3
  <2> QED BY <2>2, <2>3
<1> QED BY <1>8, <1>9, <1>10, <1>11 DEF all

-----------------------------------------------------------------------------
\* A connection that was opened once has no former socket, and it was not
\* connected if its socket is still to be made or to connect.
OneSocket ==
    \A c \in Connections \ reused :
        /\ former[c] = [waiting |-> 0, connected |-> 0]
        /\ socket[c] \in {"none", "waiting"} => ~wasConnected[c]

InterfaceInv == TypeOK /\ LiveAreListedOnce /\ RemovesOnlyListed /\ OneSocket

LEMMA LeastPlace ==
    ASSUME NEW D \in SUBSET Nat, D # {}
    PROVE  \E x \in D : \A y \in D : x <= y
<1>1. PICK x \in D : \A y \in D : ~ (<<y, x>> \in OpToRel(<, Nat))
  <2>1. IsWellFoundedOn(OpToRel(<, Nat), Nat)
    BY NatLessThanWellFounded
  <2> QED BY ONLY <2>1, D \subseteq Nat, D # {}, WFMin, Zenon
<1>2. \A y \in D : ~(y < x)
  <2>1. \A y \in Nat : y < x => <<y, x>> \in OpToRel(<, Nat)
    BY Zenon DEF OpToRel
  <2> QED BY <1>1, <2>1, Zenon
<1> QED BY <1>2

\* indexOf() finds what is there.
LEMMA IndexFacts ==
    ASSUME connections \in Seq(Connections), NEW c \in Connections, Listed(c)
    PROVE  IndexOf(c) \in 1 .. Len(connections) /\ connections[IndexOf(c)] = c
<1> DEFINE n == Len(connections)
           D == {i \in 1 .. n : connections[i] = c}
<1>1. n \in Nat
  BY LenProperties
<1>2. D \in SUBSET Nat /\ D # {}
  BY <1>1 DEF Listed
<1>3. PICK i \in D : \A j \in D : i <= j
  BY <1>2, LeastPlace
<1>4. i \in 1 .. n /\ connections[i] = c /\ i \in Nat
  BY <1>1, <1>3
<1>5. \A j \in 1 .. i - 1 : connections[j] # c
  <2> SUFFICES ASSUME NEW j \in 1 .. i - 1, connections[j] = c PROVE FALSE
    OBVIOUS
  <2>1. j \in 1 .. n /\ ~(i <= j)
    BY <1>1, <1>4
  <2> QED BY <1>3, <2>1
<1> QED BY <1>4, <1>5 DEF IndexOf

\* removeConnection() of what is listed takes out one place of it, and nothing
\* else.
LEMMA RemoveFacts ==
    ASSUME connections \in Seq(Connections),
           NEW c \in Connections, Listed(c), RemoveConnection(c)
    PROVE  /\ connections' \in Seq(Connections) /\ missing' = missing
           /\ \A d \in Connections : ~ListedTwice(d) => ~ListedTwice(d)'
           /\ \A d \in Connections \ {c} : Listed(d) => Listed(d)'
<1> DEFINE n == Len(connections)
<1>1. n \in Nat
  BY LenProperties
<1> DEFINE i == IndexOf(c)
<1>2. i \in 1 .. n /\ connections[i] = c
  BY IndexFacts
<1>3. connections' = Spliced(connections, i) /\ missing' = missing
  BY DEF RemoveConnection
<1> HIDE DEF i
<1>4. /\ connections' \in Seq(Connections)
      /\ Len(connections') = n - 1
      /\ \A k \in 1 .. n - 1 :
            connections'[k] = IF k < i THEN connections[k] ELSE connections[k + 1]
  BY <1>2, <1>3, SplicedFacts
<1>5. ASSUME NEW d \in Connections, ListedTwice(d)' PROVE ListedTwice(d)
  <2>1. PICK j \in 1 .. n - 1, k \in 1 .. n - 1 :
            j # k /\ connections'[j] = d /\ connections'[k] = d
    BY <1>4, <1>5 DEF ListedTwice
  <2> DEFINE J == IF j < i THEN j ELSE j + 1
             K == IF k < i THEN k ELSE k + 1
  <2>2. J \in 1 .. n /\ K \in 1 .. n /\ J # K
    BY <1>1, <1>2, <2>1
  <2>3. connections[J] = d /\ connections[K] = d
    BY <1>4, <2>1
  <2> QED BY <2>2, <2>3 DEF ListedTwice
<1>6. ASSUME NEW d \in Connections \ {c}, Listed(d) PROVE Listed(d)'
  <2>1. PICK j \in 1 .. n : connections[j] = d
    BY <1>6 DEF Listed
  <2>2. j # i
    BY <1>2, <1>6, <2>1
  <2> DEFINE k == IF j < i THEN j ELSE j - 1
  <2>3. k \in 1 .. n - 1
    BY <1>1, <1>2, <2>1, <2>2
  <2>4. connections'[k] = connections[j]
    <3>1. CASE j < i
      BY <1>4, <2>3, <3>1
    <3>2. CASE ~(j < i)
      <4>1. ~(j - 1 < i) /\ (j - 1) + 1 = j /\ j - 1 \in 1 .. n - 1
        BY <1>1, <1>2, <2>1, <2>2, <2>3, <3>2
      <4> QED BY <1>4, <3>2, <4>1
    <3> QED BY <3>1, <3>2
  <2> QED BY <1>4, <2>1, <2>3, <2>4 DEF Listed
<1> QED BY <1>3, <1>4, <1>5, <1>6

\* addConnection() puts a connection in, whatever is there already.
LEMMA AddFacts ==
    ASSUME connections \in Seq(Connections), NEW c \in Connections, AddConnection(c)
    PROVE  /\ connections' \in Seq(Connections) /\ Listed(c)'
           /\ \A d \in Connections : Listed(d) => Listed(d)'
           /\ \A d \in Connections \ {c} : ~ListedTwice(d) => ~ListedTwice(d)'
           /\ ~Listed(c) => ~ListedTwice(c)'
<1> DEFINE n == Len(connections)
<1>1. n \in Nat
  BY LenProperties
<1>2. connections' = Append(connections, c)
  BY DEF AddConnection
<1>3. /\ connections' \in Seq(Connections) /\ Len(connections') = n + 1
      /\ connections'[n + 1] = c
      /\ \A k \in 1 .. n : connections'[k] = connections[k]
  BY <1>2, AppendProperties
<1>4. Listed(c)'
  BY <1>1, <1>3 DEF Listed
<1>5. \A d \in Connections : Listed(d) => Listed(d)'
  BY <1>1, <1>3 DEF Listed
<1>6. ASSUME NEW d \in Connections \ {c}, ListedTwice(d)' PROVE ListedTwice(d)
  <2>1. PICK j \in 1 .. n + 1, k \in 1 .. n + 1 :
            j # k /\ connections'[j] = d /\ connections'[k] = d
    BY <1>3, <1>6 DEF ListedTwice
  <2>2. j \in 1 .. n /\ k \in 1 .. n
    BY <1>1, <1>3, <1>6, <2>1
  <2> QED BY <1>3, <2>1, <2>2 DEF ListedTwice
<1>7. ASSUME ListedTwice(c)' PROVE Listed(c)
  <2>1. PICK j \in 1 .. n + 1, k \in 1 .. n + 1 :
            j # k /\ connections'[j] = c /\ connections'[k] = c
    BY <1>3, <1>7 DEF ListedTwice
  <2>2. j \in 1 .. n \/ k \in 1 .. n
    BY <1>1, <2>1
  <2> QED BY <1>3, <2>1, <2>2 DEF Listed
<1> QED BY <1>3, <1>4, <1>5, <1>6, <1>7

LEMMA InterfaceInit == Init => InterfaceInv
<1> SUFFICES ASSUME Init PROVE InterfaceInv
  OBVIOUS
<1>1. connections \in Seq(Connections) /\ Len(connections) = 0
  BY EmptySeq DEF Init
<1>2. TypeOK /\ OneSocket /\ RemovesOnlyListed
  BY <1>1 DEF Init, TypeOK, OneSocket, RemovesOnlyListed, SocketStates
<1>3. LiveAreListedOnce
  <2>1. \A c \in Connections : ~ListedTwice(c)
    BY <1>1 DEF ListedTwice
  <2>2. \A c \in Connections : socket[c] = "none"
    BY DEF Init
  <2> QED BY <2>1, <2>2 DEF LiveAreListedOnce
<1> QED BY <1>2, <1>3 DEF InterfaceInv

\* A step that opens a connection, for the first time or again.
LEMMA OpensStep ==
    ASSUME InterfaceInv, NEW c \in Connections, Opens(c)
    PROVE  InterfaceInv'
<1> USE DEF InterfaceInv, TypeOK, SocketStates
<1>1. /\ AddConnection(c)
      /\ UNCHANGED <<at, served, threw, missing>>
      /\ interval' = TRUE /\ opens' \in Nat
      /\ reused' = IF Fresh(c) THEN reused ELSE reused \cup {c}
  BY DEF Opens, Accept, ConnectToServer, AddConnection, tick
<1>2. /\ connections' \in Seq(Connections) /\ Listed(c)'
      /\ \A d \in Connections : Listed(d) => Listed(d)'
      /\ \A d \in Connections \ {c} : ~ListedTwice(d) => ~ListedTwice(d)'
      /\ ~Listed(c) => ~ListedTwice(c)'
  BY <1>1, AddFacts
<1>3. /\ socket' \in [Connections -> SocketStates]
      /\ former' \in [Connections -> [waiting : Nat, connected : Nat]]
      /\ wasConnected' \in [Connections -> BOOLEAN]
  <2>1. CASE Accept(c)
    BY <2>1 DEF Accept
  <2>2. CASE ConnectToServer(c) /\ UNCHANGED <<socket, former>>
    BY <2>2 DEF ConnectToServer
  <2>3. ASSUME ConnectToServer(c), NEW state \in {"virgin", "waiting"}, NewSocket(c, state)
        PROVE  /\ socket' \in [Connections -> SocketStates]
               /\ former' \in [Connections -> [waiting : Nat, connected : Nat]]
               /\ wasConnected' \in [Connections -> BOOLEAN]
    BY <2>3 DEF ConnectToServer, NewSocket
  <2> QED BY <2>1, <2>2, <2>3 DEF Opens, ConnectToServer
<1>4. \A d \in Connections \ {c} :
          /\ socket'[d] = socket[d] /\ former'[d] = former[d]
          /\ wasConnected'[d] = wasConnected[d]
  <2>1. CASE Accept(c)
    BY <2>1 DEF Accept
  <2>2. CASE ConnectToServer(c)
    BY <2>2 DEF ConnectToServer, NewSocket
  <2> QED BY <2>1, <2>2 DEF Opens
<1>5. Fresh(c) => /\ former' = former
                  /\ socket'[c] \in {"none", "waiting"} /\ ~wasConnected[c]
                       => ~wasConnected'[c]
  <2>1. CASE Accept(c)
    BY <2>1 DEF Accept
  <2>2. CASE ConnectToServer(c)
    BY <2>2 DEF ConnectToServer, NewSocket, Fresh
  <2> QED BY <2>1, <2>2 DEF Opens
<1>6. TypeOK'
  BY <1>1, <1>2, <1>3
<1>7. c \notin reused' => Fresh(c) /\ c \notin reused
  BY <1>1
<1>8. OneSocket'
  <2> SUFFICES ASSUME NEW d \in Connections, d \notin reused'
               PROVE  /\ former'[d] = [waiting |-> 0, connected |-> 0]
                      /\ socket'[d] \in {"none", "waiting"} => ~wasConnected'[d]
    BY DEF OneSocket
  <2>1. d \notin reused
    BY <1>1
  <2>2. /\ former[d] = [waiting |-> 0, connected |-> 0]
        /\ socket[d] \in {"none", "waiting"} => ~wasConnected[d]
    BY <2>1 DEF OneSocket
  <2>3. CASE d = c
    <3>1. Fresh(c) /\ socket[c] = "none"
      BY <1>7, <2>3 DEF Fresh
    <3>2. former[c] = [waiting |-> 0, connected |-> 0] /\ ~wasConnected[c]
      BY <2>2, <2>3, <3>1
    <3> QED BY <1>5, <2>3, <3>1, <3>2
  <2>4. CASE d # c
    BY <1>4, <2>2, <2>4
  <2> QED BY <2>3, <2>4
<1>9. LiveAreListedOnce'
  BY <1>1, <1>2, <1>4, <1>7 DEF LiveAreListedOnce, Fresh
<1> QED BY <1>1, <1>6, <1>8, <1>9 DEF RemovesOnlyListed

\* A step that opens nothing, leaves the array alone and makes no socket live
\* that was not.
LEMMA QuietStep ==
    ASSUME InterfaceInv, TypeOK', UNCHANGED <<connections, missing, reused>>, OneSocket',
           \A d \in Connections \ reused :
               socket'[d] \in {"waiting", "connected"}
                  => socket[d] \in {"waiting", "connected"}
    PROVE  InterfaceInv'
<1>1. \A d \in Connections : /\ Listed(d)' <=> Listed(d)
                             /\ ListedTwice(d)' <=> ListedTwice(d)
  BY DEF Listed, ListedTwice
<1> QED BY <1>1 DEF InterfaceInv, LiveAreListedOnce, RemovesOnlyListed

\* A socket that changes its state is a connection's own, if that was opened
\* once.
LEMMA MovesFacts ==
    ASSUME InterfaceInv, NEW c \in Connections,
           NEW from \in {"waiting", "connected"}, NEW to \in {"virgin", "connected"},
           SocketMoves(c, from, to)
    PROVE  /\ socket' \in [Connections -> SocketStates]
           /\ former' \in [Connections -> [waiting : Nat, connected : Nat]]
           /\ wasConnected' \in [Connections -> BOOLEAN]
           /\ OneSocket'
           /\ UNCHANGED <<interval, at, served, threw, opens, reused>>
           /\ c \notin reused => socket[c] = from /\ socket'[c] = to
           /\ \A d \in Connections \ {c} : socket'[d] = socket[d]
<1> USE DEF InterfaceInv, TypeOK, SocketStates
<1>1. /\ wasConnected' = [wasConnected EXCEPT ![c] = TRUE]
      /\ UNCHANGED <<interval, at, served, threw, opens, reused>>
  BY DEF SocketMoves, tick, opening
<1>2. CASE /\ socket[c] = from
           /\ socket' = [socket EXCEPT ![c] = to]
           /\ UNCHANGED former
  BY <1>1, <1>2 DEF OneSocket
<1>3. CASE /\ former[c][from] > 0
           /\ former' = [former EXCEPT ![c] =
                 [s \in DOMAIN former[c] |-> former[c][s] + (IF s = to THEN 1 ELSE 0)
                                                 - (IF s = from THEN 1 ELSE 0)]]
           /\ UNCHANGED socket
  <2>1. c \in reused
    BY <1>3 DEF OneSocket
  <2>2. former' \in [Connections -> [waiting : Nat, connected : Nat]]
    <3> DEFINE moved == [s \in DOMAIN former[c] |->
                            former[c][s] + (IF s = to THEN 1 ELSE 0)
                                         - (IF s = from THEN 1 ELSE 0)]
    <3>1. /\ former[c] \in [waiting : Nat, connected : Nat]
          /\ DOMAIN former[c] = {"waiting", "connected"}
      OBVIOUS
    <3>2. former[c][from] \in Nat /\ former[c][from] > 0
      BY <1>3, <3>1
    <3>3. /\ moved["waiting"] \in Nat /\ moved["connected"] \in Nat
          /\ DOMAIN moved = {"waiting", "connected"}
      BY <3>1, <3>2
    <3>4. moved \in [waiting : Nat, connected : Nat]
      BY <3>3
    <3> QED BY <1>3, <3>4
  <2>3. \A d \in Connections \ {c} : former'[d] = former[d]
    BY <1>3
  <2>4. OneSocket'
    BY <1>1, <1>3, <2>1, <2>3 DEF OneSocket
  <2> QED BY <1>1, <1>3, <2>1, <2>2, <2>4
<1> QED BY <1>1, <1>2, <1>3 DEF SocketMoves

LEMMA HeartbeatStep ==
    ASSUME InterfaceInv, NEW c \in Connections, Heartbeat(c)
    PROVE  InterfaceInv'
<1>1. ASSUME NEW to \in {"virgin", "connected"}, SocketMoves(c, "waiting", to),
             UNCHANGED <<connections, missing>>
      PROVE  InterfaceInv'
  <2>1. /\ TypeOK' /\ OneSocket' /\ reused' = reused
        /\ \A d \in Connections \ reused :
              socket'[d] \in {"waiting", "connected"}
                 => socket[d] \in {"waiting", "connected"}
    BY <1>1, MovesFacts DEF InterfaceInv, TypeOK
  <2> QED BY <1>1, <2>1, QuietStep
<1>2. CASE SocketCloses(c)
  <2> USE DEF InterfaceInv
  <2>1. /\ socket' \in [Connections -> SocketStates]
        /\ former' \in [Connections -> [waiting : Nat, connected : Nat]]
        /\ wasConnected' \in [Connections -> BOOLEAN]
        /\ OneSocket'
        /\ UNCHANGED <<interval, at, served, threw, opens, reused>>
        /\ c \notin reused => socket[c] = "connected" /\ socket'[c] = "virgin"
        /\ \A d \in Connections \ {c} : socket'[d] = socket[d]
    BY <1>2, MovesFacts DEF SocketCloses
  <2>2. RemoveConnection(c) /\ connections \in Seq(Connections)
    BY <1>2 DEF SocketCloses, TypeOK
  <2>3. CASE Listed(c)
    <3>1. /\ connections' \in Seq(Connections) /\ missing' = missing
          /\ \A d \in Connections : ~ListedTwice(d) => ~ListedTwice(d)'
          /\ \A d \in Connections \ {c} : Listed(d) => Listed(d)'
      BY <2>2, <2>3, RemoveFacts
    <3>2. TypeOK' /\ RemovesOnlyListed'
      BY <2>1, <3>1 DEF TypeOK, RemovesOnlyListed
    <3>3. LiveAreListedOnce'
      BY <2>1, <3>1 DEF LiveAreListedOnce
    <3> QED BY <2>1, <3>2, <3>3
  <2>4. CASE ~Listed(c)
    <3>1. c \in reused
      BY <2>1, <2>4 DEF LiveAreListedOnce
    <3>2. connections' = connections /\ missing' = missing \cup {c}
      BY <2>2, <2>4 DEF RemoveConnection
    <3>3. TypeOK' /\ RemovesOnlyListed'
      BY <2>1, <3>1, <3>2 DEF TypeOK, RemovesOnlyListed
    <3>4. \A d \in Connections : /\ Listed(d)' <=> Listed(d)
                                 /\ ListedTwice(d)' <=> ListedTwice(d)
      BY <3>2 DEF Listed, ListedTwice
    <3>5. LiveAreListedOnce'
      BY <2>1, <3>1, <3>4 DEF LiveAreListedOnce
    <3> QED BY <2>1, <3>3, <3>5
  <2> QED BY <2>3, <2>4
<1> QED BY <1>1, <1>2 DEF Heartbeat, SocketConnects, SocketFailsToConnect

LEMMA TickStep ==
    ASSUME InterfaceInv, Tick
    PROVE  InterfaceInv'
<1>1. Ticking => Ticked \in Connections /\ Listed(Ticked) /\ at \in Nat
  <2> SUFFICES ASSUME Ticking PROVE Ticked \in Connections /\ Listed(Ticked) /\ at \in Nat
    OBVIOUS
  <2>1. at \in Nat /\ connections \in Seq(Connections) /\ Len(connections) \in Nat
    BY LenProperties DEF InterfaceInv, TypeOK
  <2>2. at \in 1 .. Len(connections)
    BY <2>1 DEF Ticking
  <2>3. connections[at] \in Connections
    BY <2>1, <2>2, ElementOfSeq
  <2> QED BY <2>1, <2>2, <2>3 DEF Ticked, Listed
<1>2. CASE TickBegins \/ TickEnds \/ TickWaits
  <2>1. at' \in Nat /\ served' \subseteq Connections /\ threw' \in BOOLEAN
    <3>1. CASE TickBegins
      BY <3>1 DEF TickBegins, InterfaceInv, TypeOK
    <3>2. CASE TickEnds
      BY <3>2 DEF TickEnds, InterfaceInv, TypeOK
    <3>3. CASE TickWaits
      BY <1>1, <3>3 DEF TickWaits, InterfaceInv, TypeOK
    <3> QED BY <1>2, <3>1, <3>2, <3>3
  <2>2. UNCHANGED <<connections, interval, socket, former, wasConnected, opens, reused, missing>>
    BY <1>2 DEF TickBegins, TickEnds, TickWaits, sockets, opening
  <2>3. TypeOK' /\ OneSocket'
    BY <2>1, <2>2 DEF OneSocket, InterfaceInv, TypeOK
  <2> QED BY <2>2, <2>3, QuietStep
<1>3. CASE TickSends \/ TickThrows
  <2> DEFINE c == Ticked
  <2>1. c \in Connections /\ at \in Nat
    BY <1>1, <1>3 DEF TickSends, TickThrows
  <2>2. /\ \/ wasConnected' = wasConnected
           \/ socket[c] = "connected" /\ wasConnected' = [wasConnected EXCEPT ![c] = TRUE]
        /\ at' \in {0, at + 1} /\ served' \in {served, served \cup {c}}
        /\ threw' \in BOOLEAN
        /\ UNCHANGED <<connections, interval, socket, former, opens, reused, missing>>
    BY <1>3 DEF TickSends, TickThrows, opening, InterfaceInv, TypeOK
  <2> HIDE DEF c
  <2>3. TypeOK'
    <3>1. at' \in Nat /\ served' \subseteq Connections
      BY <2>1, <2>2 DEF InterfaceInv, TypeOK
    <3>2. wasConnected' \in [Connections -> BOOLEAN]
      BY <2>2 DEF InterfaceInv, TypeOK
    <3> QED BY <2>2, <3>1, <3>2 DEF InterfaceInv, TypeOK
  <2>4. OneSocket'
    BY <2>1, <2>2 DEF OneSocket, InterfaceInv, TypeOK, SocketStates
  <2> QED BY <2>2, <2>3, <2>4, QuietStep
<1>4. CASE TickRemoves
  <2> DEFINE c == Ticked
  <2>1. /\ c \in Connections /\ Listed(c) /\ at \in Nat
        /\ socket[c] \in {"virgin", "waiting"} /\ wasConnected[c]
        /\ RemoveConnection(c) /\ at' = at + 1
        /\ UNCHANGED <<interval, socket, former, wasConnected, served, threw, opens, reused>>
    BY <1>1, <1>4 DEF TickRemoves, sockets, opening
  <2> HIDE DEF c
  <2> USE DEF InterfaceInv
  <2>2. c \notin reused => socket[c] = "virgin"
    BY <2>1 DEF OneSocket
  <2>3. /\ connections' \in Seq(Connections) /\ missing' = missing
        /\ \A d \in Connections : ~ListedTwice(d) => ~ListedTwice(d)'
        /\ \A d \in Connections \ {c} : Listed(d) => Listed(d)'
    BY <2>1, RemoveFacts DEF TypeOK
  <2>4. TypeOK' /\ OneSocket' /\ RemovesOnlyListed'
    BY <2>1, <2>3 DEF OneSocket, TypeOK, RemovesOnlyListed
  <2>5. LiveAreListedOnce'
    BY <2>1, <2>2, <2>3 DEF LiveAreListedOnce
  <2> QED BY <2>4, <2>5
<1> QED BY <1>2, <1>3, <1>4 DEF Tick

LEMMA InterfaceNext == InterfaceInv /\ [Next]_vars => InterfaceInv'
<1> SUFFICES ASSUME InterfaceInv, [Next]_vars PROVE InterfaceInv'
  OBVIOUS
<1>1. CASE UNCHANGED vars
  <2>1. UNCHANGED <<connections, interval, socket, former, wasConnected, at, served,
                    threw, opens, reused, missing>>
    BY <1>1 DEF vars, sockets, tick, opening
  <2>2. TypeOK' /\ OneSocket'
    BY <2>1 DEF OneSocket, InterfaceInv, TypeOK
  <2> QED BY <2>1, <2>2, QuietStep
<1>2. CASE Tick
  BY <1>2, TickStep
<1>3. CASE \E c \in Connections : Opens(c) \/ Heartbeat(c)
  BY <1>3, OpensStep, HeartbeatStep
<1> QED BY <1>1, <1>2, <1>3 DEF Next

LEMMA InterfaceInductive == Spec => []InterfaceInv
<1> QED BY InterfaceInit, InterfaceNext, PTL DEF Spec

(* The array, tick()'s place in it and the sockets keep their types, for    *)
(* any number of connections, and however often each is opened.             *)
THEOREM InterfaceTypeCorrect == Spec => []TypeOK
<1>1. InterfaceInv => TypeOK
  BY DEF InterfaceInv
<1> QED BY <1>1, InterfaceInductive, PTL

(* NetworkInterface.as:47: "Tried to remove a non-existent connection!" is  *)
(* thrown for no connection object but one that was opened again, although  *)
(* a tick and a closing socket both remove.                                 *)
THEOREM RemovalsAreOfListed == Spec => []RemovesOnlyListed
<1>1. InterfaceInv => RemovesOnlyListed
  BY DEF InterfaceInv
<1> QED BY <1>1, InterfaceInductive, PTL

(* NetworkInterface.as:31, 48: a connection object that was opened once is  *)
(* in the array while its socket is live, and never twice; objects that are *)
(* opened again cannot take it out.                                         *)
THEOREM LiveConnectionsAreListed == Spec => []LiveAreListedOnce
<1>1. InterfaceInv => LiveAreListedOnce
  BY DEF InterfaceInv
<1> QED BY <1>1, InterfaceInductive, PTL
==============================================================================
