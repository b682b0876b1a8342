--------------------------- MODULE NetworkInterface --------------------------
(***************************************************************************)
(* The connections of a program and the loop that serves them:              *)
(* core/NetworkInterface.as, the part of core/NetworkConnection.as that     *)
(* joins and leaves it, and the server's main loop (serverMain.as,          *)
(* Thane.as).  All of it runs in one thread.  Sockets appear with the state *)
(* ThaneSocket gives them; the handlers their heartbeats call are part of    *)
(* the actions.  tick() walks over the array while it may lose elements.    *)
(*                                                                          *)
(* Every dispatch and every heartbeat catches exceptions (EventDispatcher   *)
(* .as:71, Thane.as:91), so that one ends the handler it comes out of and   *)
(* nothing else.                                                            *)
(***************************************************************************)
EXTENDS Integers, Sequences

CONSTANTS
    Connections,    \* the NetworkConnection objects of the program
    MaxOpens        \* bound on the calls that open a connection

VARIABLES
    connections,    \* connections
    interval,       \* interval: tick() has been scheduled
    socket,         \* each connection's socket: none yet, or its _state
    former,         \* live sockets a connection had before, by their _state
    wasConnected,   \* _wasConnected
    at,             \* tick()'s place in the array, or 0 between ticks
    served,         \* connections the present or last tick sent a packet on
    threw,          \* the present or last tick ended in an exception
    opens,          \* auxiliary: calls that opened a connection
    reused,         \* auxiliary: connections opened more than once
    missing         \* auxiliary: those removeConnection() did not find

sockets == <<socket, former, wasConnected>>
tick    == <<at, served, threw>>
opening == <<opens, reused>>
vars    == <<connections, interval, sockets, tick, opening, missing>>

Listed(c) == \E i \in 1..Len(connections) : connections[i] = c

\* c stands in the array more than once.
ListedTwice(c) ==
    \E i, j \in 1..Len(connections) :
        i # j /\ connections[i] = c /\ connections[j] = c

Init ==
    /\ connections = <<>>
    /\ interval = FALSE
    /\ socket = [c \in Connections |-> "none"]
    /\ former = [c \in Connections |-> [waiting |-> 0, connected |-> 0]]
    /\ wasConnected = [c \in Connections |-> FALSE]
    /\ at = 0
    /\ served = {}
    /\ threw = FALSE
    /\ opens = 0
    /\ reused = {}
    /\ missing = {}

(* A connection object as the game has just made it.                        *)
Fresh(c) == socket[c] = "none" /\ ~Listed(c)

(* addConnection() pushes, without a look at what is there.                 *)
AddConnection(c) ==
    /\ connections' = Append(connections, c)
    /\ interval' = TRUE
    /\ opens < MaxOpens /\ opens' = opens + 1
    /\ reused' = IF Fresh(c) THEN reused ELSE reused \cup {c}

\* The first place of c, and the array without its i-th element.
IndexOf(c) ==
    CHOOSE i \in 1..Len(connections) :
        connections[i] = c /\ \A j \in 1..i-1 : connections[j] # c

Spliced(s, i) == SubSeq(s, 1, i - 1) \o SubSeq(s, i + 1, Len(s))

(* removeConnection(): splice the connection out, or throw.                 *)
RemoveConnection(c) ==
    IF Listed(c)
    THEN /\ connections' = Spliced(connections, IndexOf(c))
         /\ UNCHANGED missing
    ELSE missing' = missing \cup {c} /\ UNCHANGED connections

-----------------------------------------------------------------------------
(* The main loop accepts a socket and tells the game, whose onConnection()  *)
(* makes a connection of it and sends a first packet at once.  The function *)
(* is "only called once on a connection".                                   *)
Accept(c) ==
    /\ at = 0 /\ Fresh(c)
    /\ AddConnection(c)
    /\ socket' = [socket EXCEPT ![c] = "connected"]
    /\ wasConnected' = [wasConnected EXCEPT ![c] = TRUE]
    /\ UNCHANGED <<former, tick, missing>>

(* The connection takes a new socket; the one it had lives on in the main   *)
(* loop, with the connection's handlers.                                    *)
NewSocket(c, state) ==
    /\ socket' = [socket EXCEPT ![c] = state]
    /\ former' = IF socket[c] \in {"waiting", "connected"}
                 THEN [former EXCEPT ![c][socket[c]] = @ + 1]
                 ELSE former

(* connectToServer(), on any connection and as often as the game likes: it   *)
(* is listed before its socket is made.  Making it throws if the host is     *)
(* empty, and does not connect it without a host and a port.                *)
ConnectToServer(c) ==
    /\ at = 0
    /\ AddConnection(c)
    /\ \/ UNCHANGED <<socket, former>>
       \/ \E state \in {"virgin", "waiting"} : NewSocket(c, state)
    /\ UNCHANGED <<wasConnected, tick, missing>>

(* The sockets' heartbeats, with NetworkConnection's handlers.  The socket  *)
(* that was in the state "from" is the connection's own or a former one; it *)
(* takes the state "to".                                                    *)
SocketMoves(c, from, to) ==
    /\ at = 0
    /\ \/ /\ socket[c] = from
          /\ socket' = [socket EXCEPT ![c] = to]
          /\ UNCHANGED former
       \/ /\ former[c][from] > 0
          /\ former' = [former EXCEPT ![c] =
                 [s \in DOMAIN @ |-> @[s] + (IF s = to THEN 1 ELSE 0)
                                          - (IF s = from THEN 1 ELSE 0)]]
          /\ UNCHANGED socket
    /\ wasConnected' = [wasConnected EXCEPT ![c] = TRUE]
    /\ UNCHANGED <<interval, tick, opening>>

SocketConnects(c) ==
    SocketMoves(c, "waiting", "connected") /\ UNCHANGED <<connections, missing>>

(* IO_ERROR, and no CLOSE.                                                  *)
SocketFailsToConnect(c) ==
    SocketMoves(c, "waiting", "virgin") /\ UNCHANGED <<connections, missing>>

(* CLOSE, with or without an IO_ERROR before it.                            *)
SocketCloses(c) ==
    SocketMoves(c, "connected", "virgin") /\ RemoveConnection(c)

-----------------------------------------------------------------------------
(* tick(), called by a timer's heartbeat.                                   *)
TickBegins ==
    /\ at = 0 /\ interval
    /\ at' = 1
    /\ served' = {}
    /\ threw' = FALSE
    /\ UNCHANGED <<connections, interval, sockets, opening, missing>>

Ticked == connections[at]
Ticking == at > 0 /\ at <= Len(connections)

TickWaits_Returns ==                                            \* mutant
    /\ Ticking
    /\ socket[Ticked] \in {"virgin", "waiting"} /\ ~wasConnected[Ticked]
    /\ at' = Len(connections) + 1
    /\ UNCHANGED <<connections, interval, sockets, served, threw,
                   opening, missing>>

(* sendPacket() for the connection at hand: it waits for a socket that never *)
(* was connected, ...                                                       *)
TickWaits ==
    /\ Ticking
    /\ socket[Ticked] \in {"virgin", "waiting"} /\ ~wasConnected[Ticked]
    /\ at' = at + 1
    /\ UNCHANGED <<connections, interval, sockets, served, threw,
                   opening, missing>>

TickRemoves_NeverConnected ==                                   \* mutant
    /\ Ticking
    /\ socket[Ticked] \in {"virgin", "waiting"}
    /\ RemoveConnection(Ticked)
    /\ at' = at + 1
    /\ UNCHANGED <<interval, sockets, served, threw, opening>>

TickRemoves_OnlyLogs ==                                         \* mutant
    /\ Ticking
    /\ socket[Ticked] \in {"virgin", "waiting"} /\ wasConnected[Ticked]
    /\ UNCHANGED <<connections, missing>>
    /\ at' = at + 1
    /\ UNCHANGED <<interval, sockets, served, threw, opening>>

(* ... removes a connection whose socket is gone, upon which the array      *)
(* closes up while the iteration moves on, ...                              *)
TickRemoves ==
    /\ Ticking
    /\ socket[Ticked] \in {"virgin", "waiting"} /\ wasConnected[Ticked]
    /\ RemoveConnection(Ticked)
    /\ at' = at + 1
    /\ UNCHANGED <<interval, sockets, served, threw, opening>>

(* ... or writes and transmits a packet, ...                                *)
TickSends ==
    /\ Ticking
    /\ socket[Ticked] = "connected"
    /\ wasConnected' = [wasConnected EXCEPT ![Ticked] = TRUE]
    /\ served' = served \cup {Ticked}
    /\ at' = at + 1
    /\ UNCHANGED <<connections, interval, socket, former, threw,
                   opening, missing>>

(* ... unless an exception ends the tick: there is no socket, or            *)
(* writePacket() throws, depending on what the game has posted and changed. *)
TickThrows ==
    /\ Ticking
    /\ \/ socket[Ticked] = "none" /\ UNCHANGED wasConnected
       \/ /\ socket[Ticked] = "connected"
          /\ wasConnected' = [wasConnected EXCEPT ![Ticked] = TRUE]
    /\ at' = 0
    /\ threw' = TRUE
    /\ UNCHANGED <<connections, interval, socket, former, served,
                   opening, missing>>

TickEnds_BeforeFirst ==                                         \* mutant
    /\ at > Len(connections)
    /\ at' = -1
    /\ UNCHANGED <<connections, interval, sockets, served, threw,
                   opening, missing>>

TickEnds ==
    /\ at > Len(connections)
    /\ at' = 0
    /\ UNCHANGED <<connections, interval, sockets, served, threw,
                   opening, missing>>

Tick == TickBegins \/ TickWaits \/ TickRemoves \/ TickSends \/ TickThrows \/ TickEnds

Opens(c) == Accept(c) \/ ConnectToServer(c)
Heartbeat(c) == SocketConnects(c) \/ SocketFailsToConnect(c) \/ SocketCloses(c)

Next ==
    \/ \E c \in Connections : Opens(c) \/ Heartbeat(c)
    \/ Tick

(* Timer.heartbeat() runs once in every turn of the main loop.              *)
Spec == Init /\ [][Next]_vars /\ WF_vars(Tick)

-----------------------------------------------------------------------------
SocketStates == {"none", "virgin", "waiting", "connected"}

TypeOK ==
    /\ connections \in Seq(Connections)
    /\ interval \in BOOLEAN
    /\ socket \in [Connections -> SocketStates]
    /\ former \in [Connections -> [waiting : Nat, connected : Nat]]
    /\ wasConnected \in [Connections -> BOOLEAN]
    /\ served \subseteq Connections
    /\ at \in Nat
    /\ threw \in BOOLEAN
    /\ opens \in Nat
    /\ reused \subseteq Connections /\ missing \subseteq Connections

(* NetworkInterface.as:47: the error "Tried to remove a non-existent         *)
(* connection!" is never thrown for a connection object that was opened     *)
(* once, although both a tick and the end of a socket remove connections,   *)
(* and whatever happens to objects that are opened again.                   *)
RemovesOnlyListed == missing \subseteq reused

(* NetworkInterface.as:31, 48; NetworkConnection.as:132, 305: a connection   *)
(* that was opened once and has a live socket is in the array, and is not   *)
(* there twice, so that it is never beyond the reach of tick() or served    *)
(* twice by it.  What becomes of an object that is opened again is in the   *)
(* README.                                                                  *)
LiveAreListedOnce ==
    \A c \in Connections \ reused :
        /\ socket[c] \in {"waiting", "connected"} => Listed(c)
        /\ ~ListedTwice(c)

(* NetworkInterface.as:63: a connection in the array that stays connected   *)
(* is sent packets, even though the removal of the one before it makes a    *)
(* tick pass over it, unless a tick ends in an exception.  An object that   *)
(* was opened again may be taken out by the end of its former socket.       *)
ConnectedAreServed ==
    \A c \in Connections :
        socket[c] = "connected" /\ Listed(c) ~>
            c \in served \/ threw \/ socket[c] # "connected" \/ ~Listed(c)

(* NetworkConnection.as:126-133: a connection that lost its socket, or could *)
(* not connect it, leaves the array, unless a tick ends in an exception or  *)
(* the game opens it again.                                                 *)
DeadLeave ==
    \A c \in Connections :
        socket[c] = "virgin" /\ wasConnected[c] ~>
            ~Listed(c) \/ threw \/ socket[c] # "virgin" \/ ListedTwice(c)
==============================================================================
