# PBNetworking: verification project

PBNetworking is a networking library in ActionScript 3 (`src/com/pblabs/networking`)
for a Flash client and a server that runs in a modified Tamarin shell (`server/`).
A connection carries two kinds of traffic in fixed-size packets: *events*
(queued messages, each delivered once and in order) and *ghosts* (server objects
mirrored on the client, sent by priority as far as they fit).  Strings that repeat
go through a string cache that both ends update in step.  On the server the packets
pass through the runtime's own non-blocking socket.

This directory holds TLA+ models of the library and of that socket, TLC configurations
for small instances, and proofs checked by TLAPS for every value of the constants.

Paths below are relative to `src/com/pblabs/networking` unless they start with
another directory of the repository.  `shell/` is
`server/tamarin-source/tamarin-central/shell/`.


## 1. Inventory

| Component | State | Operations | Modelled |
|---|---|---|---|
| `NetStringCache` (`core/NetStringCache.as`) | array of entries, string to entry map, doubly linked list from the entry defined last to the one defined first | `write`, `read`, `lookupByString`, `lookupById`, `getOldestEntry`, `reuseEntry`, `bringToFront` | yes |
| `EventConnection` (`events/`) | `eventQueue` | `postEvent`, `writePacket`, `readPacket`, `process` of events | yes, payloads as a number of bits |
| `GhostManager`, `Ghost`, `GhostInfo`, `TrackedProperty`, `GhostComponent` (`ghosting/`) | server: slots (`ghostMap`), a `GhostInfo` per ghost (dirty flags, priority, `isGhosted`, `shouldKill`), `_attachedGhosts`, `pendingUpdates`; client: slots | scope query, attach, detach, check of the tracked properties, `writePacket`, `readPacket` | one server manager and one client |
| `GhostConnection` (`ghosting/GhostConnection.as`) | a manager to send, one to receive | events first, then ghosts, in one packet with one string cache | yes |
| `NetworkConnection` (`core/NetworkConnection.as`) | socket, `stringCache`, `firstResponse`, `_wasConnected` | connecting, `tick`, `sendPacket`, `transmitPacket`, `readPackets`, socket handlers | yes, but for the helpers the tests use |
| `NetworkInterface` (`core/NetworkInterface.as`) | array of connections, timer | `addConnection`, `removeConnection`, `tick` | yes |
| `BitStream` (`core/BitStream.as`) | byte array, bit position | flags, integers, ranged integers, floats, strings, cached strings | encodings as operators; plain strings and bytes are not |
| `NetRoot` and `elements/` | tree of elements with dirty flags | `serialize`, `deserialize`, flag numbering, dirty bits | yes, but for string elements |
| Server runtime (`server/tamarin-source/server/serverMain.as`, `shell/`) | sockets with input and output buffers, their file pointers and positions | heartbeat, connect, close, read, write, accepting | the socket, its byte arrays, accepting |
| Demo game (`airServerDemo/src`) | objects, level | `ServerGame.scopeObjects`, `onConnection`, chat and circle events | the scoper and the accepting |
| Debug visualizer, MXML registration | none that the protocol sees | | no |
| Tamarin, zlib, pcre, ... below `server/` | third-party | | no |

### How the parts interact

The server's main loop accepts sockets, hands each to the game, which makes a connection of it, and
runs the heartbeats of the timers and of the sockets.  A timer's heartbeat calls
`NetworkInterface.tick`, which calls `tick` of each connection in its array.
`NetworkConnection.sendPacket` removes the connection if its socket is gone; otherwise it makes a
`BitStream` of `PACKETSIZE` bytes with the connection's string cache and calls `writePacket`:
`EventConnection` writes events while they fit, `GhostConnection` then lets the `GhostManager` write
into what is left.  The packet goes to the socket in one piece, with its length before it.

The server's socket keeps what it is given in a growing byte array with one file
pointer, which both the program's writes and the socket's sends move.  A heartbeat receives what
there is, sends what the kernel takes, and then dispatches the event that is due; the handlers run in
the middle of the heartbeat and may call the socket again.  The other end is a Flash Player,
whose socket is not in the repository.

At the receiving end `SOCKET_DATA` calls `readPackets`, which first looks whether the bytes are a
policy request, then reads whole packets, events first.  `process` of an event runs game code, which may
post events on the connection it came from.  The game changes its objects between ticks;
`GhostComponent.onTick` and the scoper call `checkTrackedProperties`, which compares each tracked
property with the last value seen and marks what changed dirty in every `GhostInfo`.  An update
serializes the ghost's tree of elements: a dirty flag says whether the group under it follows.

Both ends are single threaded.  The concurrency is between the two ends, since what one writes is read by the
other any number of packets later; between the program and the network, which moves any part of
what it is given; and between a heartbeat, or a tick that walks over the array, and the handlers called in
the middle of it.  TCP keeps order and loses nothing, and the
protocol has no acknowledgements; all agreement between the ends rests on both applying the same
updates in the same order.

### What is hard

* **Roll-back.**  Writing stops by running off the end of the stream.  The bit
  position is restored; whatever else the failed write changed is not, notably the string cache.
* **One cache, two directions.**  The cache that decides the ids for what an end writes is also
  changed by what it reads.
* **Nothing on the wire says what an update is.**  The client tells a new ghost from a known one
  by its own slot being empty; ids are reused as soon as a kill is *written*.
* **Bits at the boundary.**  Whether a packet that is full to its last bit has room
  for the flag that ends it.
* **Delay.**  A kill or an update that does not fit waits in the `GhostInfo`, while
  the game changes the property again, and scope comes and goes.
* **Exceptions.**  An error out of `writePacket` comes after some of the packet has been recorded
  as sent, and ends the tick for all connections behind it.
* **Partial sends.**  The kernel takes part of the output; pointer and position have to agree on
  where the rest begins, also when the buffer is replaced by a shorter one.
* **Cut streams.**  Packets arrive in pieces and several at a time, and only the next piece makes
  the receiver look again.
* **Handlers in the middle.**  A handler of `IO_ERROR` or `CLOSE` connects or closes the socket whose
  heartbeat goes on to set the state.
* **An array that shrinks under its iteration.**
* **Nested and shared dirty flags**, a 32-bit word of them, and values that do not fit their fields.

`PROJECT.json` lists these at their lines under `hazards`, each with the properties that would
catch it going wrong, or the reason why there is none.

### What makes each component correct

* *String cache*: the list is the order of insertion in both directions; the map never names
  an entry that holds another string; on one direction of a connection, every string is read as
  it was written.
* *Events*: what is spliced off the queue is what the packet carries; a packet always has room for
  its final flag; every posted event is processed once, in order and as what it is.
* *Ghosts*: slots, `GhostInfo`s and the count of slots agree; the client takes every record for what
  it is; whatever differs at the client is marked dirty; what the client shows in a slot is one ghost as it
  was at one moment, never the fields of two moments or of two ghosts; when the game settles, the
  client comes to show exactly what is in scope.
* *Events and ghosts together*: neither disturbs the other, although they share packet and cache.
* *Socket*: no byte is lost, repeated or reordered in either direction; a descriptor is open exactly
  while the socket is connected; an attempt to connect is not forgotten; the end is noticed and output drains.
* *Packets*: those read are those sent, none waits when it is whole, a policy request is answered once.
* *Connections*: of the objects opened once none is removed twice or lost; the connected are served and the dead leave.
* *Elements*: the reader stays in frame, shows nothing out of range, and shows clean fields as they are.


## 2. The modules

| Module | Models |
|---|---|
| `NetStringCache` | the cache as a value; `read`, `write` and their helpers as operators |
| `SharedStringCache` | a cache that serves its own writes and *any* message the wire format allows |
| `StringChannel` | abstract: an order-preserving channel of strings |
| `StringCacheLink` | one direction of a connection: sender's cache, wire, receiver's cache; implements `StringChannel` |
| `EventChannel` | abstract: each posted event is processed once, in order, until the sender's cache is damaged |
| `EventConnection` | both ends of an `EventConnection` with their caches; the server's direction implements `EventChannel` |
| `GhostMirror` | abstract: a slot shows one ghost in a whole state it had, states and ghosts in the order in which the server decided them |
| `GhostManager` | the sending manager, the ghosts and the game on the server; the receiving manager on the client; implements `GhostMirror` |
| `GhostConnection` | composes `GhostManager` with a queue of events: one packet, one cache; implements `GhostMirror` and `EventChannel` at once |
| `ByteArrayFile` | the runtime's byte array with a file pointer, as operators |
| `ThaneSocket` | a socket of the server runtime with its heartbeat, its program, the kernel and the other end |
| `PacketStream` | `readPackets` over a stream that arrives in pieces, and the packets that are sent |
| `GameStream` | composes `ThaneSocket` and `PacketStream`: packets from the server's program, or from a Flash Player, to the reader |
| `NetworkInterface` | the array of connections, the tick over it, accepting, connecting, the ends of sockets |
| `BitStream` | the encodings of flags, integers, ranges and floats, as operators |
| `NetRoot` | a tree of elements: dirty bits, serialization, deserialization, as operators |
| `GhostProtocol` | one ghost with a nested protocol, and its copy at the client |
| `NetStringCacheProofs`, `SharedStringCacheProofs`, `StringCacheLinkProofs`, `EventConnectionProofs`, `GhostConnectionProofs`, `GhostProtocolProofs`, `GameStreamProofs`, `NetworkInterfaceProofs` | theorems and their proofs; `GhostConnectionProofs` has those about `GhostManager` too, `GameStreamProofs` those about `ThaneSocket` |
| `MC...` | constants for TLC |

### State and actions against the code

**NetStringCache.**  A cache is a record: `value` (the entries' strings), `hash` (the map),
`next` and `prev` (the links).  The two sentinels of the list are the integers -1 and `EntryCount`
around the ids, so that the constructor's list is `i + 1` and `i - 1`.  `LinkedNext` and
`LinkedPrev` perform the six assignments of `bringToFront` in the code's order, on a list that may
have any shape.  `Written` is what `write` puts in the stream, `AfterWrite` the
cache afterwards; `ReadString` and `AfterRead` likewise for `read`.  Usage statistics are left out.

**EventConnection.**  `queue`, `cache`, `index` (`curEventIdx`), `bits` (what is left of the
stream) and `out` are one per end.  `Post` is `postEvent`; `BeginPacket` is `tick` and
`sendPacket`; `WriteEvent` is one turn of the loop; `SendPacket` and `FirstEventTooBig` are the two ways
out of `writePacket` (`LeaveLoop` says why the loop ended, and does the roll-back, which leaves
the name in the cache); `BeginRead`, `ReadEvent`, `UnknownType` and `WrongType` are `readPackets` and
`readPacket`.  An event is its type name and a number of bits.  A name that decodes to another
type parses a wrong payload and loses alignment: `WrongType` gives up the rest of the packet there.

**GhostManager.**  `object` and `scope` are the game: property values, and the
priority the scoper would give to each object.  `protocol` holds the values last seen by
`checkTrackedProperties`, which are those the ghost serializes.  `ghostMap`, `info`, `attachedGhosts`,
`scopePriority`, `inScope`, `pending` and `bits` are the code's fields and locals.  `writePacket` is a loop and
is modelled in steps: `BeginPacket` (scoping and marking for death), `AttachGhost` or
`RefreshPriority` for each ghost of the selection by priority, `BuildPendingUpdates`,
`WriteKill`, `WriteUpdate` or `RunOutOfRoom` for each pending ghost by priority, and
`SendPacket` or `FinalFlagThrows`.  The game's actions wait for `mode = "idle"`,
because the server is single threaded.  The client's actions are the branches of `readPacket`.
`Misread` is the point from which on the client parses bits that mean something else; the model
stops the client there.  Ghost tokens are the set `inScope`; the sort by priority is a guard that
leaves the order of equal priorities open.

Four definitions map it to `GhostMirror`: the truth is `protocol`, what the client shows is `copies`; `Given` is the
ghost that the client has been told to show in each slot (a slot the server has filled counts from the
first update on), and `Coming` is what the records under way tell, one for one.  A record carries only the fields that were
dirty, and yet tells a whole state, that of the ghost when it was written: that the client can make that state of it is what
the refinement shows.  An update of no field tells the state again.

**GhostConnection.**  The ghosts are `GhostManager`'s actions, used as they are; `WriteEvents` is
`EventConnection.writePacket` for events of one type and gives `BeginPacket` the bits it leaves, after the
final flag.  `carried`, `mail` and `letters` are the events of the packet being written, on the wire and being read.
`Transmit` sends both parts; `Abandon` is the exception out of the ghosts' half, which loses both.  At the client
the events come first, and one that cannot be read takes the ghosts of its packet with it
(`ReadEventThrows`).

**ThaneSocket.**  `state`, `ref`, `oBuf`, `oPos` and `iBuf` are `_state`, the descriptor, `_oBuf`,
`_oPos` and `_iBuf`.  A byte is its number in its direction, so that "what was sent is what was written" is
`sent \o Unsent = 1..written`.  `Transfer` is a heartbeat that receives, sends any part of the output, and
sets the position back from the pointer; `Massaged` is `massageBuffer`; `SeesEnd` says when
`nb_read` meets the end of the connection: in the call that returned the bytes before it only if those ended with
a full buffer.  `pc` is the dispatch the heartbeat is in: `ReceiveEnd`, `Connected`, `ConnectFails` dispatch, the
program's actions (`Connect`, `Close`, `WriteBytes`, `ReadBytes`) may come in between, and
`AfterReadError`, `AfterConnectError`, `AfterEvent` are what the code does when the handlers have returned.
`backlog` and `clobbered` are auxiliary: output was left unsent, and the program wrote while it was.

**PacketStream and GameStream.**  `wire` is what the network holds, `buf` what the reader's socket holds;
`SocketData` moves any piece.  `readPackets` is one action per branch: `AnswerPolicyRequest`,
`HoldFirstLength` (the length of the first packet is read ahead, `held` is `firstDataLen`), `LookNoFurther`, then
the loop's `ReadPacket`, `SkipEmpty`, `ReadPacketThrows`, `ReadTorn` (`readBytes` throws for want of bytes) and
`ReadEnds`.  A packet is a run of numbered bytes.  In `GameStream` the server's packets are `WriteBytes` of
`ThaneSocket`, and its heartbeats move them to `wire`; a Flash Player's go there at once.

**NetworkInterface.**  `connections` is the array, `at` the place of the iteration in it (0 between ticks),
`socket` and `wasConnected` each connection's.  `AddConnection` pushes, as the code does, whatever is in the array already.
`ConnectToServer` may be called on any connection at any time between ticks: it puts a new socket in the place of the
old one, and the old one, if it was still alive, goes on calling the connection's handlers (`former` counts those by their state).
`Accept` is for objects never opened, since `acceptClientConnection` is "only called once on a connection"
(`core/NetworkConnection.as:60-62`).  `reused` and `missing` are auxiliary: the objects opened more than once, and those that
`removeConnection` was to remove and did not find.  Each branch of `sendPacket` is an action of the tick: `TickWaits`,
`TickRemoves`, `TickSends`, `TickThrows`.  `Accept` and `ConnectToServer` list a connection, and
`SocketConnects`, `SocketFailsToConnect`, `SocketCloses` are the handlers that the sockets' heartbeats call.

**BitStream, NetRoot and GhostProtocol.**  A tree is the sequence of its elements in the order in which they are
visited, with the container of each.  `Serialize` and `Deserialize` walk it: an element is visited if all flags above
it are set, the reader going by the flags *it* has just read.  `FlagBit` wraps at the width of an int.
`GhostProtocol` is `Ghost`'s `checkTrackedProperties`, `serialize` and `deserialize` over such a tree, for one ghost;
`GhostManager` has many ghosts with flat protocols.  `SerializeElement` and `DeserializeElement` are what one element does,
`Stream` and `Reading` what is written and read up to each.  Numbers do not wrap in `BitStream`: a field has at most
30 bits, and a range less than 2^30 numbers.

Where the code has an initial state by construction (`new NetStringCache`, an empty
queue, empty slots), `Init` is that state.  The initial values of the objects and of the scope are arbitrary
among those the game can give them (`Objects`, `Scopes`, `Settings`).

A mutated definition, named `X_Something` and marked `\* mutant`, stands before some definitions
`X`.  No action uses it; it is a plausible bug that the property named in `PROJECT.json` rejects.


## 3. The runs

Runs that pass, with the distinct states TLC finds:

* `string_caches` (22 thousand) - three entries, four strings, three strings in flight.  Two questions in one run, whose
  initial state decides which of them it is about.  A cache with arbitrary reads: three entries are the fewest in which one can be first, last, or
  inside with neighbours that are not sentinels, which is what the assignments of `bringToFront` distinguish, and what the other end defines puts
  one string into several entries, the case in which the map could go stale.  One direction of a connection: entries are
  redefined while bare ids that mean the old string are still on the wire; checks that the link
  implements `StringChannel`, so that every string is read as it was written, and in the end, and that the caches are equal when drained.
* `events` (650 thousand) - the server posts.  Two type names compete for one cache entry, three events wait, two
  packets are in flight; a packet of eight bits holds one event that defines its name or two that do not, and one event
  (`big`) is too big for a packet until another event has defined its name.  Checks the queue, the final flag, and
  that the direction implements `EventChannel`, liveness included: what is posted is processed, as long as no
  definition is rolled back.
* `ghosts` (120 thousand) - three ghosts for two slots; the oldest is shown only while the youngest
  is out of scope, so slots are freed and given again.  The youngest changes in two fields, which can be dirty together or
  one after the other has been sent.  Packets let in nothing (3 bits: the loop stops before
  a packet with no more than the bits of an id and five others, also for a kill), a new ghost to the last bit (15), or a new ghost and the final flag (16).  Safety, and under fairness
  `EventuallyConsistent` and `ImplementsMirror`: the client shows whole states only, in order, and shows what it has
  been told in the end.
* `connection` (320 thousand) - three events and two ghosts, one cache entry taken in turn by the name of the events and
  the ghosts' prototype name.  Two events may leave one bit.  Checks that the ghosts stay in step and the events are
  accounted for until a packet is abandoned, that every event arrives, and that each step is one of a mirror of the ghosts and one
  of a channel of events, or a stutter of either (`ServesGameAndProgram`).
* `socket` (80 thousand) - two connects, four bytes out, three in, a receive buffer of two bytes and buffers switched
  from their third byte on: partial sends, switches, full buffers, ends behind data, and every call from inside every handler.
* `stream` (120 thousand) - three packets of six bytes, from the server or from a Flash Player, or a policy request of five; the
  first read looks ahead when three bytes are there, which cuts a packet, and a second look is due behind the answer to a policy request;
  the server's buffer is switched from seven bytes on, in the middle
  of a packet; the stream is cut everywhere, and `readPacket` may throw each time.
* `interface` (230 thousand) - three connections: one that is removed, one that is passed over for it, and one
  behind both; four calls open them, so that one is opened again, while it is connecting, connected, failed or closed.
* `elements` (170 thousand) - eight elements: dirty flags under dirty flags, under plain flags, and two that share
  a bit of a two-bit word; a range of three values in two bits, with values above it, that does not hold the value its element starts with;
  floats of two bits.

Runs in which TLC finds that the code does not do what a comment or a test says (see `findings`):

* `cache_policy` - the cache has "an LRU cache eviction policy", so that hot strings stay
  (`core/NetStringCache.as:8, 22-23`), but a hit does not move an entry: after three writes the next string to be evicted is the one
  just used.
* `events_duplex` - both ends define a name at the same time, under the same id, and an event is taken for one of another type
  ("no mixups").
* `connection_events_lost` - the events of a packet leave the queue before the ghosts write; if the ghosts' final
  flag does not fit, the exception loses the packet, and the events are never processed.
* `stream_lost` - a packet transmitted behind a partial send is written over the unsent bytes.

Each of these has a passing counterpart.  `ListIsInsertionOrder` says which policy the cache has.  The others hold up to exactly the event: `DecodesUnlessPolluted`
and `ToClientImplementsChannel` for one posting end, `EventsAccountedFor` until a packet is abandoned, `PacketsIntact` until the
program writes behind a partial send (or the first packet is read before it is there).

### What reading the code shows and no run checks

* `core/NetworkConnection.as:213`: when more than ten bytes are there, the length of the first packet is read ahead, and its length and
  nothing else lets the loop in.  If the rest of the packet has not arrived, `readBytes` throws with the length consumed, and from then
  on the connection takes the middle of packets for their beginnings.  The properties of `stream` except it (`torn`).
* `core/NetworkConnection.as:81-91`: `connectToServer` has no guard against a second call on the same object, and `_wasConnected` is never
  reset.  After an `IO_ERROR` the object is then in the array twice, or a tick takes it out while its new socket is still
  connecting; it is served by no tick, and when its socket closes, `core/NetworkInterface.as:47` throws "Tried to remove a non-existent connection!".
  `RemovesOnlyListed` and `LiveAreListedOnce` are about objects opened once (`reused`); the demo's clients and the server make a new one for
  each connection.  `ConnectedAreServed` and `DeadLeave` speak of what is in the array, reused or not.
* `events/EventConnection.as:72` rolls back the stream and not the cache, so a name defined only in the rolled-back part is
  later sent as a bare id.  The properties of `events` except it (`polluted`).
* `ghosting/GhostManager.as:142` writes its terminating flag without the guard that `EventConnection` has; the packet
  is abandoned after its records were marked as sent.  The properties of `ghosts` except it (`lost`), and
  `connection_events_lost` shows what it does to events.
* `ghosting/GhostInfo.as:30-33`: `timesSkipped`, which is to see that updates make it through, is never used; a ghost of low
  priority can wait for as long as others change.
* `ghosting/Ghost.as:182`: a property with `initialUpdateOnly` is never copied from the object, so the first
  update carries the element's default.  `GhostManager` has it as `InitialFields`.
* `shouldKill` is never cleared: a ghost that leaves scope and is back before its kill was written is killed
  at the client and created anew.  `EventuallyConsistent` holds with this detour.
* A dirty flag under a plain flag: its bit is cleared when the plain flag hides it, and the change is not sent when the flag
  is set again.  `CleanFieldsAreShown` speaks of fields that are not under such a flag (`Covered`).
* `elements/RangedIntElement.as:13` starts with 1, and 41-45 set the range without a look at it.  A field whose range is elsewhere
  and that no update has brought shows 1 at the client, out of its range.  `ShownInRange` excepts this value (`Fresh`).
* An `IO_ERROR` handler that calls `connect()` starts an attempt that the heartbeat then gives up.
  `AttemptIsUnderWay` excepts it (`attempt = "inErrorHandler"`).
* A connection that throws at every tick starves those behind it in the array; `ConnectedAreServed` and `DeadLeave` except
  ticks that threw.

### Bounds

| Constant | Bounds | Why it is enough |
|---|---|---|
| `MaxWire` | strings, packets or updates in flight | the ends differ by what is in flight; one packet holds several records, and three strings in flight can redefine every entry of the cache |
| `MaxQueue`, `MaxEvents` | events waiting, events posted | three are two that fit into a packet and one that is rolled back |
| `EntryCount`, `Strings` | cache entries and strings | more strings than entries for eviction; duplicates come from what the other end defines |
| `PacketBits`, `Rooms` and the bit widths | sizes of packets and fields | with two fields a kill takes 3 bits, an update 7 or 9, a new ghost 12, or 15 if it defines its name (with one field an update takes 6, a new ghost 9 or 12): each room decides which fit and which fill it exactly |
| `Ghosts`, `MaxGhostCount`, `Objects`, `Scopes` | ghosts, slots, what the game and the scoper do | three ghosts for two slots: one waits for a slot, one changes and loses its slot, one stays; in the connection two ghosts, two slots and no changes, since there it is the packet and the cache that interact |
| `Values`, `Fields` | property values | two values for a change and a change back; two fields, of which one, the other or both are dirty (`elements` has several, nested) |
| `Chunks`, `MaxWritten`, `MaxReceived` | what the program and the other end move | more than one buffer switch and more than one partial send in each direction |
| `MaxConnects` | connects | the second comes from a handler, or replaces a connection |
| `SOCK_BUF_SZ`, `SwitchAt` | 64k and the receive buffer of the code | small, so that they are reached; nothing in the code depends on how large they are |
| `LENGTHFIELDSIZE`, `PACKETSIZE`, `FirstLook`, `RequestSize`, `MaxPackets` | sizes of packets | the order `length <= look < request < packet` is the code's (2, 10, 23, 102 bytes) |
| `Connections` | three | one removed, one passed over, one more |
| `MaxOpens` | calls that open a connection | four for three connections: each of them opened, and one of them, in whatever state it is, again |
| `Kind`, `Parent`, `IntBits`, `FloatBits`, `Grain` | a tree of eight elements | each kind of nesting once; two-bit words so that flags wrap |

Deadlock is checked in every run but those of the socket and the streams: there, a program that has written and
read what the bounds allow has nothing left to do, and the network with it.

### Fairness

* `WF_linkVars(Receive)` in `StringCacheLink`, `WF_vars(Process)` in the abstract channel, `WF_vars(Receive)` in the abstract mirror: the event loop
  serves the socket, and a handler reads what has arrived.
* In `EventConnection`, weak fairness of the steps inside a handler (a handler runs to its end), strong
  fairness of beginning one: the interval timer and the socket are served again and again, but each may find the
  end busy in between.
* In `GhostManager`, weak fairness of `WritePacket` and `ReadPacket`; `SF_vars(BeginPacket(room))` for each
  room says in addition that the events in front of the ghosts do not take the same room for ever.  Without
  it ghosts need not make progress, since events go first.
* In `GhostConnection`, `SF(Send)` and `WF(ReadNext)`: the timer and the client's socket are served.
* In `ThaneSocket`, `WF(Heartbeat)` and `WF(Return)`: the main loop runs heartbeats for ever, and handlers return.
  `SF(SendsSome)`: a kernel that is offered output again and again takes some of it; a peer that never
  reads is not promised anything.
* In `GameStream`, `WF(Receives)` and `SF(SendsMore)`, for the same reasons.
* In `NetworkInterface`, `WF(Tick)`: a timer's heartbeat runs in every turn of the main loop.
* Nothing is assumed of the game, the scoper, the program or `CheckTrackedProperties`: liveness is claimed only of
  behaviours in which the game settles (`EventuallyConsistent` says so in its premises).
* `GhostProtocol` claims no liveness: that updates are written is `GhostManager`'s business.


## 4. The proofs

All theorems hold for every value of the constants that satisfies the named assumptions
(`CacheAssumption`, `MaxWireAssumption`, `EventAssumption`, `GhostAssumption`, `NoInfoAssumption`, `EmptyAssumption`,
`ConnectionAssumption`, `SocketAssumption`, `PacketAssumption`, `GrainAssumption`, `NetRootAssumption`, `ProtocolAssumption`): positive entry and slot counts, finite sets of ghosts and
fields, sizes that are natural numbers, marker values that are not members of the sets they mark, the order of the
packet sizes, and that a sequence of elements is a tree in the order in which it is visited.  TLC evaluates each assumption in the runs.

Four theorems have a hypothesis of their own.  `EventsDecode` is for connections on which one end posts, and
`ConnectionImplementsChannel` for those on which only the server does: with two posting ends the property is false, as
`events_duplex` shows.  `EventsStayAccountedFor` and `ConnectionServesGameAndProgram` are for ghosts none of which has a prototype called what the events are
called.  Without this they are false, too: TLC finds `EventsAccountedFor` violated with such a name (`EventName = p1`, two entries, packets of 12
bits), because a prototype name that is rolled back leaves the server sure that the client knows it, and the next event
goes as a bare id.  In the repository, the events are called `chat` and `circle` (`airServerDemo/src/ServerGame.as:55-56`), and ghosts are called
after templates of the level.

| Theorem | Says |
|---|---|
| `SharedTypeCorrect`, `EvictionIsByInsertion`, `ReferencesAreSound` | typing; the list is the insertion order; the map names the entry that holds the string - under arbitrary reads |
| `LinkTypeCorrect`, `MapsAlwaysAgree`, `CoherentWhenDrained`, `ReadsAreRight`, `LinkImplementsChannel` | one direction: typing, sound tables (`MapsAgree`), equal caches when drained, every read is right (`NextReadIsRight`), and `Init` and each step map to `StringChannel` |
| `EventTypeCorrect`, `FinalFlagFits`, `PacketIsFront` | events: typing, a bit is always left for the final flag, the packet is the front of the queue |
| `EventsDecode`, `ConnectionImplementsChannel` | events in one direction: each is decoded as what was posted; `Init` and each step map to `EventChannel` |
| `GhostTypeCorrect`, `SlotsAlwaysMatch` | ghosts: typing, slots, `GhostInfo`s and the count agree |
| `ClientAlwaysInStep`, `DirtyFlagsAlwaysTrue` | ghosts at both ends: the client takes each record for what it is; what it does not have is marked dirty |
| `GhostsAreMirrored` | `Init` and each step of the ghosts map to `GhostMirror` |
| `ConnectionTypeCorrect`, `GhostsStayInStep`, `EventsStayAccountedFor` | both in one packet and one cache: typing; the ghosts are in step as before; each event is processed once, in order, or under way |
| `ConnectionServesGameAndProgram` | both in one packet: `Init` and each step map to `GhostMirror` for the game, and to `EventChannel` for the program |
| `ProtocolTypeCorrect`, `ReaderStaysInFrame`, `ShownStaysInRange`, `CleanFieldsShown` | one ghost with any tree of elements: typing; the reader reads an update to its last bit; nothing out of range is shown; clean fields are shown as they are |
| `SocketTypeCorrect`, `OutputStaysIntact`, `InputStaysIntact`, `DescriptorFollowsState`, `AttemptsAreKept` | the socket: typing; both directions keep every byte; descriptor and state agree; attempts are not forgotten |
| `StreamStaysIntact`, `NoPacketWaits`, `RequestAnsweredOnce` | packets: those read are those sent; none waits when it is whole; a policy request is answered exactly once |
| `InterfaceTypeCorrect`, `RemovalsAreOfListed`, `LiveConnectionsAreListed` | the array: typing; no removal fails of a connection opened once; such a connection, if live, is in it, once |

**The cache.**  `NetStringCacheProofs` shows of `ReuseEntry` that it maps caches to caches and
keeps `WellLinked`, `KnownHeld` and (if the string was unknown) `HeldKnown`.  `WellLinked` says that the
two directions of the list are inverse and that the list is not empty; it is what makes `getOldestEntry` return an
entry and not a sentinel, and it survives the redefinition of any entry.  `ListIsInsertionOrder` is
stronger: it names the order.  It is inductive together with `inserted` being a permutation of the ids.

**The link.**  The invariant relates the caches along the wire: `after` (auxiliary) holds the
sender's cache after each string in flight, the last of which is the sender's cache now; applying the
read of each element to the cache before it gives the next.  The two lemmas that
carry it are that `read` undoes `write`, as a string and as a change of the cache.  The
receiver is always where the sender was.

**Events.**  `RoomForFinalFlag` and `PacketIsQueueFront` are inductive only with `IdleIsClean` (no
stream, no index outside `writePacket`), since they speak of a packet from its first bit on, and
with `CachesWellLinked` for typing.  These theorems do not restrict who posts.

**What is under way.**  That the receiver is right about what it reads cannot be said of the two ends alone: it
depends on everything between them.  `Path` in `NetStringCacheProofs` says that a sequence of items leads a receiver from one
state to another by given steps, and `Journey` that the packet being read, the packets on the wire and the packet being
written do so one after the other.  Writing an item that fits moves the far end of the journey, reading one moves the near end, and
sending moves an item from one part to another; these are lemmas about any items and any states.  The same journey is used with
events and string caches (`NamesLead`), ghost records and string caches (`NamesFollow`), and ghost records and the client's
copies (`CopiesFollow`).  In `StringCacheLink` the states along the wire are an auxiliary variable instead.

**Decoding events.**  `DecodeInv` adds the journey of the names to `EventInv`, and that the other end writes nothing but empty
packets.  A roll-back ends it, which is why the property excepts a polluted cache.  `ConnectionImplementsChannel` follows step by step:
what the channel holds is the letters on the way, in order, and then the queue, and all steps but posting and processing leave this
sequence of sequences as it is.  The laws of `FlattenSeq` that this takes are proved by induction over the length.

**Ghosts.**  `GhostInv` adds to typing and `SlotsMatchInfos` that pending ghosts are attached and that
both caches are well linked.  Typing needs the slots (the count stays within 0 and `MaxGhostCount`,
because a kill is written for a ghost that sits in a slot), and the slots need that what is pending has a
`GhostInfo`, because `WriteKill` empties the slot it finds for it.  There is no assumption that packets arrive or
that the client follows.

**The client's ghosts.**  `CopiesFollow` says that what is under way leads the client from the copies it has to copies that
agree with what the server has recorded (`Agrees`): each slot of a ghosted ghost holds that ghost, with the server's value in
each field that is not marked dirty, and every other slot is empty.  The journey is of copies, so the properties
are its near end (`ClientInStep`: each record meets the slot it expects) and its far end (`DirtyFlagsTellTheTruth`).  A change in
the game marks the field dirty and the agreement holds for want of a claim; an update takes the flags away and brings the values
along; a kill empties slot and claim together, so that the slot can be reused before the client has read of it.
`FlagsMeanWell` is needed beside it: what the client does not have is all dirty, and what is sent only once is not dirty
after that.

**The mirror.**  Each action tells the client nothing, to hide a ghost, or to show one as it is now; or the client does what it
was told the longest time ago (`Mirrors`).  What the server does follows from the slots: what is given is what is in a slot and ghosted, a
kill empties it, and an update leaves it or fills it with a ghost that sits in no other.  What the client does needs `Whole`, which the
steps of the copies' journey carry: the copy that a record leads to has the whole state of the ghost at the time of the record, in
the fields the record brings because it brings them, and in the others because they were not dirty, so that the copies it
is applied to agree with the server in them.  Nothing of it is lost when a packet of records is sent or taken, because the records
under way, laid end to end, stay the same.  For the connection the same steps are used; an event read at the client changes no copy, and no event is
thrown at, so no ghost is lost with one.

**Events and ghosts in one packet.**  A packet is now a pair, and leads the client's cache over its events and then over
its ghosts.  `Way` is the journey of such packets, and `Leg` its two-part step; each action of `GhostManager` keeps
the ghosts' half by the lemmas about `GhostManager` alone, for any room that the events have left.  `GhostsInStep` is
stated for the moments at which the client has read the events of a packet, since the cache decodes the names of its ghosts only then.

**Every event accounted for.**  Up to the abandoned packet, `EventsSurvive` counts: what was processed, then what is in packets, then
the queue, are the numbers from 1 to `posted`.  The step that could break it is an event that the client cannot read.
It does not happen, although rolling back a prototype's name damages the caches' agreement for good: for this the
invariant follows, instead of the caches, the set of their entries that hold the events' name (`HoldersLead`).  A
definition of the events' name adds its entry to the set at both ends, a definition of another name takes its entry out at
both, and a definition that is rolled back or lost, which is one of another name, takes it out at the writer only.  So the
writer's set is always contained in the set that the reader will have, and an event goes as a bare id only from the writer's set.
The channel follows: posting appends to the events under way, reading takes the first of them (`Posts`, `Processes`), and whatever
packs, sends, takes or loses packets leaves them as they are.

**Elements.**  What `serialize` and `deserialize` do to one element is given by definitions that are not recursive, and `Stream` and `Reading`
follow them over the tree.  That these two recursive functions exist and satisfy their equations, and all that is true of them
up to each element, is proved by induction over the numbers, which `NatSetInduction` gets from well-founded sets.  Three facts carry
the rest.  `VisitedAlike`: which elements are visited is decided by visited flags before them, so the reader, which
has read those, visits what the writer did, whatever else its tree holds.  `StreamAt`: a visited element's bits are where the
reader is when it comes to it.  `DecodedWritten`: what it finds there is the value modulo the width of the field (`Dec`).
Together they give `DeserializeFacts`: an update is read to its last bit, and the tree is then the update's values where it
brought any and the old ones elsewhere (`Merged`), or the reader throws.

For `CleanFieldsAreShown` the invariant says where the value of a field is that is not fully dirty, is covered and is visible: it is
in the last update under way that brings the field, or, if none does, at the client (`Arrives`).  When an update is written
that leaves the field out, a dirty flag above it is off, so it was not fully dirty before and the claim was made already.  When a change is
marked, the changed field is fully dirty; so is every field below a changed plain flag, because, being covered, it has all its dirty
flags in common with that flag - this is what `Covered` is for.  Two dirty flags that share a bit only send more.

**The socket.**  The three concerns are separate invariants over separate variables.  For the output, `OutInv`
says that the pointer is at the end of the array unless there is a backlog, and that, while nothing was clobbered, the bytes sent and those behind the position are numbered through (`OutputAt`):
a write at the end extends the numbers, a partial send moves the border, a switch drops what lies before it.  The input's
invariant (`InputAt`) is the same with the reader's pointer.  `DescriptorMatchesState` and
`AttemptIsUnderWay` need the heartbeat's place in them: which attempts each `pc` leaves possible, and
that the state is still `waiting`, and the descriptor gone, while the handlers of a failed attempt run
(`FailedAttempt`).

**Packets.**  `Numbered` says where the bytes are: the packets read, the length read ahead, the reader's buffer and the wire
hold the first bytes of the stream in this order, and nothing else was sent (`Total`).  It holds while nothing is torn or
clobbered, and each action moves the border between two of its parts.  What the heartbeat puts on the wire continues it
because of `OutInv`, which is how the socket's invariant is used.  That a packet is never taken for an empty one follows from
its length being the first of `Size` bytes.  For the policy request, either it is unanswered and what has arrived is
too short to be looked at once a look is over, or it is answered and its first byte is nowhere to be seen again.

**Connections.**  `LiveAreListedOnce` and `RemovesOnlyListed` are inductive with one more fact about the objects opened once: they have no
former socket, and if their socket does not exist or is still waiting, it was never connected (`OneSocket`), so that what a tick removes has no
live socket.  That such an object is in the array at most once is not a guard of `AddConnection`: it was not in it when it was opened, and any other
push or splice, of objects that may be there several times, leaves the number of its places alone or lowers it; this is what the lemmas about the array
(`IndexFacts`, `RemoveFacts`, `AddFacts`) say.  A second opening takes the object out of what is claimed, and nothing puts it back.  The tick's
place in the array plays no part in it.

Only model-checked: liveness and refinement under fairness (`ImplementsChannel`,
`ToClientImplementsChannel` and `ImplementsMirror` beyond single steps, `EventuallyConsistent`, `EventsArrive`, `EndIsNoticed`, `OutputDrains`,
`EveryPacketRead`, `ConnectedAreServed`, `DeadLeave`), because ENABLED is beyond the installed provers.  Every invariant
of the runs that pass is stated by a theorem.


## 5. Not modelled, and plan

Not modelled:

* A client object that destroys itself: its kill then throws before the slot is cleared
  (`ghosting/GhostManager.as:174`).  Several managers that share a `Ghost`'s scope token and priority.
* Plain strings and bytes in `BitStream`, string elements in a tree: those that the repository declares are in events, the message of
  `chat` (`airServerDemo/src/ServerGame.as:37-39`, `demo/src/ServerGame.as:32-34`) and the payload of the test event, and an event's payload is a number of
  bits in `EventConnection`; no ghost has one.
  XML parsing and deep copies of protocols, which only build trees.
* `sendPacketToBuffer` and `readPacketsFromBuffer`, which serve the tests, and `sendPackets`, which nothing calls.
* The runtime's AMF, domains and the timers' own lists; usage statistics; the debug visualizer; game play.
* Third-party code below `server/`.

To add: several managers in `GhostManager`, and objects that the client destroys.


## 6. Running

    tlc -workers 2 -config MCGhosts.cfg MCGhostManager
    tlapm GhostProtocolProofs.tla

`PROJECT.json` lists for each run its module, configuration, properties and expected outcome, the lines of the
repository each definition models (`map`), the mutants, findings, hazards and theorems.
