---------------------------- MODULE GhostProtocol ----------------------------
(***************************************************************************)
(* One ghost and its copy at the client, with all its updates over one      *)
(* connection: Ghost.as and TrackedProperty.as over the trees of NetRoot.   *)
(* GhostManager has any number of ghosts with flat protocols; here is one   *)
(* ghost, slots and packets aside, whose protocol nests flags and dirty     *)
(* flags, shares a dirty bit between two flags, and encodes what it sends.  *)
(*                                                                          *)
(* A property may be set to what its field cannot hold.  writeRangedInt()   *)
(* does not look: the client reads another value, or throws.                *)
(***************************************************************************)
EXTENDS NetRoot

CONSTANTS
    Tracked,    \* the protocol fields of trackedProperties
    Settings,   \* the values the game gives to each
    NotSeen,    \* a lastValue or a property that was never set
    MaxWire     \* bound on the updates in flight

ASSUME ProtocolAssumption ==
    /\ Tracked \subseteq Elements \ DirtyFlags
    /\ \A e \in Tracked : Settings[e] \subseteq IF Kind[e] = "flag" THEN {0, 1} ELSE Int
    /\ MaxWire \in Nat

VARIABLES
    object,     \* the properties of the server's object
    lastValue,  \* TrackedProperty.lastValue
    protocol,   \* the values of the server's NetRoot
    dirtyFlags, \* GhostInfo.dirtyFlags
    isGhosted,  \* GhostInfo.isGhosted
    wire,       \* updates sent and not read
    copy,       \* the values of the client's NetRoot
    shown,      \* the properties of the client's object
    failed      \* auxiliary: an update ended in an exception

vars == <<object, lastValue, protocol, dirtyFlags, isGhosted, wire, copy, shown,
          failed>>

\* The values of a fresh NetRoot: RangedIntElement starts with 1.
Fresh == [e \in Elements |-> IF Kind[e] = "rangedint" THEN 1 ELSE 0]

Init ==
    /\ object \in {o \in [Tracked -> UNION {Settings[e] : e \in Tracked}] :
                      \A e \in Tracked : o[e] \in Settings[e]}
    /\ lastValue = [e \in Tracked |-> NotSeen]
    /\ protocol = Fresh
    /\ dirtyFlags = AllDirty
    /\ isGhosted = FALSE
    /\ wire = <<>>
    /\ copy = Fresh
    /\ shown = [e \in Tracked |-> NotSeen]
    /\ failed = FALSE

ChangeProperty(e, v) ==
    /\ v # object[e]
    /\ object' = [object EXCEPT ![e] = v]
    /\ UNCHANGED <<lastValue, protocol, dirtyFlags, isGhosted, wire, copy, shown,
                   failed>>

Changed == {e \in Tracked : object[e] # lastValue[e]}

(* checkTrackedProperties(), and markDirty() of the one GhostInfo.          *)
CheckTrackedProperties ==
    /\ protocol' = [e \in Elements |-> IF e \in Changed THEN object[e]
                                                        ELSE protocol[e]]
    /\ lastValue' = object
    /\ dirtyFlags' = dirtyFlags \cup UNION {GetElementDirtyBits(e) : e \in Changed}
    /\ UNCHANGED <<object, isGhosted, wire, copy, shown, failed>>

NeedsUpdate == ~isGhosted \/ dirtyFlags # {}

(* Ghost.serialize() and markUpdated().                                     *)
WriteUpdate ==
    /\ NeedsUpdate /\ Len(wire) < MaxWire
    /\ protocol' = SetDirtyState(protocol, dirtyFlags)
    /\ wire' = Append(wire, Serialize(protocol'))
    /\ dirtyFlags' = {}
    /\ isGhosted' = TRUE
    /\ UNCHANGED <<object, lastValue, copy, shown, failed>>

Read == Deserialize(Head(wire), copy)

(* Ghost.deserialize(): all tracked properties are set, or, after an        *)
(* exception, none.                                                         *)
ReadUpdate ==
    /\ wire # <<>>
    /\ wire' = Tail(wire)
    /\ copy' = Read.value
    /\ shown' = IF Read.threw THEN shown ELSE [e \in Tracked |-> copy'[e]]
    /\ failed' = (failed \/ Read.threw)
    /\ UNCHANGED <<object, lastValue, protocol, dirtyFlags, isGhosted>>

Next ==
    \/ \E e \in Tracked : \E v \in Settings[e] : ChangeProperty(e, v)
    \/ CheckTrackedProperties \/ WriteUpdate \/ ReadUpdate

Spec == Init /\ [][Next]_vars

-----------------------------------------------------------------------------
TypeOK ==
    /\ \A e \in Tracked : object[e] \in Settings[e]
    /\ {protocol, copy} \subseteq [Elements -> Int]
    /\ dirtyFlags \subseteq AllDirty
    /\ wire \in Seq(Seq({0, 1}))
    /\ {isGhosted, failed} \subseteq BOOLEAN

\* A field whose changes are marked, in a group that the flags above it do not
\* hide: no dirty flag lies under a plain flag.
Covered(e) ==
    /\ GetElementDirtyBits(e) # {}
    /\ \A d \in Path[e] \cap DirtyFlags : Path[d] \subseteq DirtyFlags

\* The values that the field has room for; a float is between 0 and 1.
Holds(e, v) == CASE Kind[e] = "rangedint" -> v \in RangeMin[e]..RangeMax[e]
                 [] Kind[e] = "float"     -> v \in 0 .. Grain * (Bit[FloatBits] - 1)
                 [] OTHER                 -> v \in {0, 1}

\* The flags above a field are set, dirty flags aside.
Visible(e) == \A c \in Path[e] \ (DirtyFlags \cup {e}) : protocol[c] = 1

\* What the client shows is what the server has, less than a step of the
\* encoding below it if it is a float.
Shows(e, v) == IF Kind[e] = "float" THEN v \in shown[e] .. shown[e] + Grain - 1
                                    ELSE v = shown[e]

\* NetElementContainer.as:22-32, FlagElement.as:17-27: the client, which has
\* nothing but its own tree and the flags it has just read to go by, reads
\* exactly the bits of an update, so that it finds the next ghost of the packet
\* behind them, whatever the values of either tree before.
InFrame == wire # <<>> => Read.threw \/ Read.pos = Len(Head(wire))

\* BitStream.as:194-212: whatever the server was given, no value out of its
\* range reaches the client's object, but the one that the field starts with:
\* RangedIntElement.as:13 makes it 1, whatever the range is (41-45).
ShownInRange ==
    \A e \in Tracked : shown[e] \in {NotSeen, Fresh[e]} \/ Holds(e, shown[e])

\* Ghost.as:167-218, NetRoot.as:135-209: when no field is dirty and all is read,
\* the client shows every covered and visible field as it is, although values
\* are written only with the groups that changed, fields hidden by a flag are
\* left out when they change, and dirty flags may share a bit; unless an update
\* ended in an exception.
CleanFieldsAreShown ==
    isGhosted /\ dirtyFlags = {} /\ wire = <<>> /\ ~failed =>
        \A e \in Tracked :
            Covered(e) /\ Visible(e) /\ Holds(e, protocol[e])
                => Shows(e, protocol[e])
==============================================================================
