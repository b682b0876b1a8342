----------------------------- MODULE ThaneSocket -----------------------------
(***************************************************************************)
(* One socket of the server runtime: flash/net/Socket.as over              *)
(* shell/SocketGlue.cpp, driven by Thane.heartbeat().  Everything runs in   *)
(* one thread.  A heartbeat that dispatches an event runs the program's     *)
(* handler in the middle of itself, and the handler may call the socket     *)
(* again; `pc' says which dispatch the heartbeat is in.                     *)
(*                                                                          *)
(* The bytes of each direction are numbered: a byte of the output is its    *)
(* place among the bytes the program wrote, a byte of the input its place   *)
(* among those taken from the network.  The environment is the kernel,      *)
(* which takes any part of what it is offered, and the other end, which     *)
(* sends, closes, or resets the connection.  Accepted sockets are           *)
(* non-blocking because they inherit that from the listening one, as they   *)
(* do on the two platforms the server is built for, Windows and OS X.       *)
(***************************************************************************)
EXTENDS ByteArrayFile

CONSTANTS
    SOCK_BUF_SZ,    \* bytes a single recv() can return
    SwitchAt,       \* a buffer is replaced when its pointer is this far (64k)
    Chunks,         \* sizes of the program's reads and writes
    MaxWritten,     \* bound on the bytes the program writes
    MaxReceived,    \* bound on the bytes the other end sends
    MaxConnects     \* bound on the program's calls of connect()

ASSUME SocketAssumption ==
    /\ SOCK_BUF_SZ \in Nat \ {0}
    /\ SwitchAt \in Nat
    /\ Chunks \subseteq Nat \ {0}
    /\ MaxWritten \in Nat
    /\ MaxReceived \in Nat
    /\ MaxConnects \in Nat

VARIABLES
    state,      \* _state
    ref,        \* m_socket_ref: no descriptor, connecting, or connected
    oBuf,       \* _oBuf
    oPos,       \* _oPos
    iBuf,       \* _iBuf
    pc,         \* the dispatch the heartbeat is in, or "idle"
    inNet,      \* bytes in the kernel, not yet received
    peer,       \* what the other end did: open, closed or reset
    connects,   \* calls of connect() so far
    written,    \* auxiliary: bytes the program has written
    sent,       \* auxiliary: the bytes the kernel has taken, in order
    backlog,    \* auxiliary: the last heartbeat left output unsent
    clobbered,  \* auxiliary: the program has written while there was a backlog
    received,   \* auxiliary: bytes taken from the network
    consumed,   \* auxiliary: bytes the program has read
    attempt     \* auxiliary: a connect() that nothing was reported of yet

outVars == <<oBuf, oPos, written, sent, backlog, clobbered>>
inVars  == <<iBuf, received, consumed>>
netVars == <<inNet, peer>>
vars == <<state, ref, pc, connects, attempt, outVars, inVars, netVars>>

Bytes == Nat \ {0}
Upto(n) == [k \in 1..n |-> k]
\* The numbers of the n bytes that follow the first m.
Following(m, n) == [k \in 1..n |-> m + k]

\* What the other end has not been sent of the output, as the next heartbeat
\* will see it.
Unsent == From(oBuf.arr, oPos)

-----------------------------------------------------------------------------
(* A socket is either made by the program, or accepted by the server, which *)
(* attaches the descriptor and calls forceConnected().                      *)
Init ==
    /\ \/ state = "virgin"    /\ ref = "none" /\ peer = "reset"
       \/ state = "connected" /\ ref = "open" /\ peer = "open"
    /\ pc = "idle"
    /\ oBuf = NewFile /\ oPos = 0 /\ written = 0 /\ sent = <<>>
    /\ backlog = FALSE /\ clobbered = FALSE
    /\ iBuf = NewFile /\ received = 0 /\ consumed = 0
    /\ inNet = 0
    /\ connects = 0 /\ attempt = "none"

(* connect(): ignored while an attempt is under way, whatever its host;     *)
(* closes a connected socket first.                                         *)
Connect ==
    /\ connects < MaxConnects
    /\ connects' = connects + 1
    /\ attempt' = IF pc \in {"readError", "connectError"} THEN "inErrorHandler"
                                                          ELSE "made"
    /\ state' = "waiting"
    /\ IF state = "connected"
          THEN ref' = "none" /\ inNet' = 0 /\ peer' = "reset"
          ELSE UNCHANGED <<ref, netVars>>
    /\ UNCHANGED <<pc, outVars, inVars>>

(* close() throws unless the socket is connected, and dispatches nothing.   *)
Close ==
    /\ state = "connected"
    /\ state' = "virgin"
    /\ ref' = "none" /\ inNet' = 0 /\ peer' = "reset"
    /\ attempt' = "none"
    /\ UNCHANGED <<pc, connects, outVars, inVars>>

(* writeBytes(): in every state, at the output buffer's pointer.            *)
WriteBytes ==
    \E n \in Chunks :
        /\ written + n <= MaxWritten
        /\ oBuf' = Write(oBuf, Following(written, n))
        /\ written' = written + n
        /\ clobbered' = (clobbered \/ backlog)
        /\ UNCHANGED <<state, ref, pc, connects, attempt, oPos, sent, backlog,
                       inVars, netVars>>

ReadBytes ==
    \E n \in Chunks :
        /\ CanRead(iBuf, n)
        /\ iBuf' = AfterRead(iBuf, n)
        /\ consumed' = consumed + n
        /\ UNCHANGED <<state, ref, pc, connects, attempt, received,
                       outVars, netVars>>

-----------------------------------------------------------------------------
SeesEnd_ResetOnly == peer = "reset" /\ inNet % SOCK_BUF_SZ = 0  \* mutant

(* nb_read() calls recv() until one call returns less than a full buffer,   *)
(* so that it sees the end of the connection only when the bytes before it  *)
(* end with a full one.                                                     *)
SeesEnd == peer # "open" /\ inNet % SOCK_BUF_SZ = 0

Filled_AtPointer == Write(iBuf, Following(received, inNet))     \* mutant

Filled == Push(iBuf, Following(received, inNet))

Massaged_PointerKept(buffer) ==                                 \* mutant
    IF buffer.fp < SwitchAt \/ 4 * buffer.fp < Len(buffer.arr)
    THEN buffer
    ELSE [arr |-> Unread(buffer), fp |-> buffer.fp]

(* massageBuffer(): a new buffer of the unread bytes, once at least SwitchAt *)
(* bytes and a quarter of the buffer lie before the pointer.                *)
Massaged(buffer) ==
    IF buffer.fp < SwitchAt \/ 4 * buffer.fp < Len(buffer.arr)
    THEN buffer
    ELSE [arr |-> Unread(buffer), fp |-> 0]

Transfer_PositionBeforeSwitch ==                                \* mutant
    /\ pc = "idle" /\ state = "connected" /\ ~SeesEnd
    /\ \E k \in 0..Len(Unsent) :        \* what send() takes; an error takes 0
        /\ sent' = sent \o SubSeq(Unsent, 1, k)
        /\ oBuf' = Massaged(Seek(oBuf, oPos + k))
        /\ backlog' = (k < Len(Unsent))
        /\ oPos' = oPos + k
    /\ iBuf' = Massaged(Filled)
    /\ received' = received + inNet
    /\ inNet' = 0
    /\ pc' = IF inNet > 0 THEN "data" ELSE pc
    /\ UNCHANGED <<state, ref, peer, connects, attempt, written, clobbered,
                   consumed>>

Transfer_StopsAfterPartial ==                                   \* mutant
    /\ pc = "idle" /\ state = "connected" /\ ~SeesEnd
    /\ \E k \in (IF backlog THEN {0} ELSE 0..Len(Unsent)) :
        /\ sent' = sent \o SubSeq(Unsent, 1, k)
        /\ oBuf' = Massaged(Seek(oBuf, oPos + k))
        /\ backlog' = (k < Len(Unsent))
    /\ oPos' = oBuf'.fp
    /\ iBuf' = Massaged(Filled)
    /\ received' = received + inNet
    /\ inNet' = 0
    /\ pc' = IF inNet > 0 THEN "data" ELSE pc
    /\ UNCHANGED <<state, ref, peer, connects, attempt, written, clobbered,
                   consumed>>

(* heartbeat(), connected: receive, then send, then tell the program.       *)
Transfer ==
    /\ pc = "idle" /\ state = "connected" /\ ~SeesEnd
    /\ \E k \in 0..Len(Unsent) :        \* what send() takes; an error takes 0
        /\ sent' = sent \o SubSeq(Unsent, 1, k)
        /\ oBuf' = Massaged(Seek(oBuf, oPos + k))
        /\ backlog' = (k < Len(Unsent))
    /\ oPos' = oBuf'.fp
    /\ iBuf' = Massaged(Filled)
    /\ received' = received + inNet
    /\ inNet' = 0
    /\ pc' = IF inNet > 0 THEN "data" ELSE pc
    /\ UNCHANGED <<state, ref, peer, connects, attempt, written, clobbered,
                   consumed>>

Disconnected_DescriptorKept == UNCHANGED <<ref, inNet, peer>> /\ state' = "virgin" \* mutant

Disconnected == ref' = "none" /\ inNet' = 0 /\ peer' = "reset" /\ state' = "virgin"

(* heartbeat(), connected: the other end is gone.  An error is reported     *)
(* before the descriptor is closed.                                         *)
ReceiveEnd ==
    /\ pc = "idle" /\ state = "connected" /\ SeesEnd
    /\ iBuf' = Filled
    /\ received' = received + inNet
    /\ oBuf' = Seek(oBuf, oPos)
    /\ backlog' = (Unsent # <<>>)
    /\ IF peer = "closed"
          THEN pc' = "close" /\ Disconnected
          ELSE pc' = "readError" /\ inNet' = 0 /\ UNCHANGED <<state, ref, peer>>
    /\ UNCHANGED <<connects, attempt, oPos, written, sent, clobbered, consumed>>

(* The handlers of that error have returned: disconnect, dispatch CLOSE.    *)
AfterReadError ==
    /\ pc = "readError"
    /\ pc' = "close"
    /\ Disconnected
    /\ UNCHANGED <<connects, attempt, outVars, inVars>>

(* heartbeat(), waiting: nb_connect() resolves the host, opens a descriptor *)
(* and connects it; each may have to be tried again, and each may fail.     *)
KeepTrying ==
    /\ pc = "idle" /\ state = "waiting"
    /\ ref' \in (IF ref = "none" THEN {"none", "opening"} ELSE {"opening"})
    /\ UNCHANGED <<state, pc, connects, attempt, outVars, inVars, netVars>>

Connected ==
    /\ pc = "idle" /\ state = "waiting"
    /\ ref' = "open"
    /\ state' = "connected"
    /\ pc' = "connect"
    /\ peer' = "open" /\ inNet' = 0
    /\ attempt' = "none"
    /\ UNCHANGED <<connects, outVars, inVars>>

ConnectFails ==
    /\ pc = "idle" /\ state = "waiting"
    /\ ref' = "none"
    /\ pc' = "connectError"
    /\ attempt' = "none"
    /\ UNCHANGED <<state, connects, outVars, inVars, netVars>>

(* The handlers of that error have returned.                                *)
AfterConnectError ==
    /\ pc = "connectError"
    /\ pc' = "idle"
    /\ state' = "virgin"
    /\ UNCHANGED <<ref, connects, attempt, outVars, inVars, netVars>>

AfterEvent_StateAfterHandlers ==                                \* mutant
    /\ pc \in {"data", "connect", "close"}
    /\ pc' = "idle"
    /\ state' = IF pc = "close" THEN "virgin" ELSE state
    /\ UNCHANGED <<ref, connects, attempt, outVars, inVars, netVars>>

(* The handlers of an event that ends the heartbeat have returned.          *)
AfterEvent ==
    /\ pc \in {"data", "connect", "close"}
    /\ pc' = "idle"
    /\ UNCHANGED <<state, ref, connects, attempt, outVars, inVars, netVars>>

Heartbeat == Transfer \/ ReceiveEnd \/ Connected \/ ConnectFails \/ KeepTrying
Return == AfterReadError \/ AfterConnectError \/ AfterEvent

-----------------------------------------------------------------------------
(* The other end and the network.  A reset may destroy what was not yet     *)
(* received.                                                                *)
PeerSends ==
    /\ ref = "open" /\ peer = "open"
    /\ \E n \in Chunks :
        /\ received + inNet + n <= MaxReceived
        /\ inNet' = inNet + n
    /\ UNCHANGED <<state, ref, pc, connects, attempt, outVars, inVars, peer>>

PeerLeaves ==
    /\ ref = "open" /\ peer = "open"
    /\ \/ peer' = "closed" /\ UNCHANGED inNet
       \/ peer' = "reset" /\ inNet' \in {inNet, 0}
    /\ UNCHANGED <<state, ref, pc, connects, attempt, outVars, inVars>>

Program == Connect \/ Close \/ WriteBytes \/ ReadBytes
Environment == PeerSends \/ PeerLeaves

Next == Program \/ Heartbeat \/ Return \/ Environment

(* Heartbeats never cease, handlers return, and the other end takes what it *)
(* is offered sooner or later.                                              *)
SendsSome == Transfer /\ Len(sent') > Len(sent)

Spec ==
    /\ Init /\ [][Next]_vars
    /\ WF_vars(Heartbeat) /\ WF_vars(Return)
    /\ SF_vars(SendsSome)

-----------------------------------------------------------------------------
TypeOK ==
    /\ state \in {"virgin", "waiting", "connected"}
    /\ ref \in {"none", "opening", "open"}
    /\ pc \in {"idle", "data", "readError", "close", "connect", "connectError"}
    /\ peer \in {"open", "closed", "reset"}
    /\ attempt \in {"none", "made", "inErrorHandler"}
    /\ oBuf \in Files(Bytes) /\ oPos \in Nat
    /\ iBuf \in Files(Bytes)
    /\ oPos <= oBuf.fp /\ oBuf.fp <= Len(oBuf.arr) /\ iBuf.fp <= Len(iBuf.arr)
    /\ sent \in Seq(Bytes)
    /\ backlog \in BOOLEAN /\ clobbered \in BOOLEAN
    /\ {inNet, connects, written, received, consumed} \subseteq Nat

(* Socket.as:87, 124: what the other end is sent is what the program wrote, *)
(* byte for byte and over any number of partial sends and buffer switches,  *)
(* as long as the program does not write while a heartbeat has left output  *)
(* unsent.                                                                  *)
OutputIntact == ~clobbered => sent \o Unsent = Upto(written)

(* Socket.as:121, SocketGlue.cpp:223: what the program can read is what was *)
(* received and not read yet, whatever is pushed behind the pointer and     *)
(* however often the buffer is switched.                                    *)
InputIntact == Unread(iBuf) = Following(consumed, received - consumed)

(* Socket.as:71, 101, SocketGlue.cpp:182: a descriptor is open exactly while *)
(* the socket counts as connected, whatever handlers do in between; none is *)
(* leaked and none is used after it was closed.                             *)
DescriptorMatchesState ==
    /\ state = "connected" <=> ref = "open"
    /\ state = "virgin" => ref = "none"

(* Socket.as:48, 59, 102, 142: a connect() that nothing was reported of is  *)
(* under way between heartbeats, unless it was called by a handler of       *)
(* IO_ERROR, whose heartbeat goes on to give it up.                         *)
AttemptIsUnderWay == pc = "idle" /\ attempt = "made" => state = "waiting"

(* Socket.as:91: the end of a connection is noticed, even behind data and   *)
(* with a program that does nothing about it.                               *)
EndIsNoticed == state = "connected" /\ peer # "open" ~> state # "connected"

(* Socket.as:113: output does not stay behind in the buffer.                *)
OutputDrains ==
    state = "connected" /\ Unsent # <<>> ~> state # "connected" \/ Unsent = <<>>
==============================================================================
