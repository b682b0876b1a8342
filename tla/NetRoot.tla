------------------------------- MODULE NetRoot -------------------------------
(***************************************************************************)
(* A protocol: the tree of elements under a NetRoot (elements/*.as).  An    *)
(* element is its place in the order in which serialize() and deserialize() *)
(* visit the tree, every container before what it contains.  A value is an  *)
(* integer for every kind of element, 0 or 1 for a flag.  Dirty bits are    *)
(* sets of positions in an int.  Strings have no place of their own in the  *)
(* tree: they go through the string cache (NetStringCache).                 *)
(***************************************************************************)
EXTENDS BitStream, FiniteSets

CONSTANTS
    Kind,       \* "flag", "dirtyflag", "rangedint" or "float", of each element
    Parent,     \* the container of each element, 0 for the root
    RangeMin,   \* the range of each rangedint, from ...
    RangeMax,   \* ... to
    FloatBits,  \* bitCount of the floats
    IntBits     \* the width of an int, 32

Size == Len(Kind)
Elements == 1..Size
Containers == {e \in Elements : Kind[e] \in {"flag", "dirtyflag"}}
DirtyFlags == {e \in Elements : Kind[e] = "dirtyflag"}

\* e itself, its container, and so on up.
Path == LET path[e \in 0..Size] == IF e = 0 THEN {} ELSE {e} \cup path[Parent[e]]
        IN  path

ASSUME NetRootAssumption ==
    /\ Kind \in Seq({"flag", "dirtyflag", "rangedint", "float"})
    /\ \A e \in Elements : Parent[e] \in {0} \cup (Containers \cap 1..(e - 1))
    /\ \A e \in Elements \ {Size} : Parent[e + 1] \in {0} \cup Path[e]
    /\ \A e \in Elements : Kind[e] = "rangedint" =>
          /\ RangeMin[e] \in Int /\ RangeMax[e] \in Int
          /\ RangeMin[e] <= RangeMax[e]
    /\ FloatBits \in Nat \ {0} /\ IntBits \in Nat \ {0}

-----------------------------------------------------------------------------
(* updateDirtyFlagMap_r(): dirty flags are numbered as they are visited,    *)
(* and 1 << index wraps around at the width of an int.                      *)
DirtyFlagIndex(e) == Cardinality({d \in DirtyFlags : d < e})
FlagBit_NeverWraps(e) == DirtyFlagIndex(e)                          \* mutant

FlagBit(e) == DirtyFlagIndex(e) % IntBits

GetElementDirtyBits_InnermostOnly(e) ==                             \* mutant
    {FlagBit(d) : d \in {d \in Path[e] \cap DirtyFlags :
                            \A c \in Path[e] \cap DirtyFlags : c <= d}}

(* The dirty flags that an element is nested in.                            *)
GetElementDirtyBits(e) == {FlagBit(d) : d \in Path[e] \cap DirtyFlags}

AllDirty == 0 .. IntBits - 1

SetDirtyState(value, dirty) ==
    [e \in Elements |-> IF e \in DirtyFlags
                        THEN IF FlagBit(e) \in dirty THEN 1 ELSE 0
                        ELSE value[e]]

-----------------------------------------------------------------------------
\* The elements that are visited: all flags above them are set.
Visited(value) ==
    {e \in Elements : \A c \in Path[e] \ {e} : value[c] = 1}

Encoded(e, value) ==
    CASE Kind[e] = "rangedint" -> WriteRangedInt(value[e], RangeMin[e], RangeMax[e])
      [] Kind[e] = "float"     -> WriteFloat(value[e], FloatBits)
      [] OTHER                 -> WriteFlag(value[e])

Width_ExclusiveRange(e) ==                                          \* mutant
    CASE Kind[e] = "rangedint" -> RangeBits(RangeMin[e], RangeMax[e] - 1)
      [] Kind[e] = "float"     -> FloatBits
      [] OTHER                 -> 1

Width(e) ==
    CASE Kind[e] = "rangedint" -> RangeBits(RangeMin[e], RangeMax[e])
      [] Kind[e] = "float"     -> FloatBits
      [] OTHER                 -> 1

Decoded(e, bits, pos) ==
    CASE Kind[e] = "rangedint" -> ReadRangedInt(bits, pos, RangeMin[e], RangeMax[e])
      [] Kind[e] = "float"     -> ReadFloat(bits, pos, FloatBits)
      [] OTHER                 -> ReadFlag(bits, pos)

SerializeElement(e, value) ==
    IF e \in Visited(value) THEN Encoded(e, value) ELSE <<>>

\* What serialize() has written when it has passed each element.
Stream(value) ==
    LET stream[e \in 0..Size] ==
            IF e = 0 THEN <<>> ELSE stream[e - 1] \o SerializeElement(e, value)
    IN  stream

Serialize(value) == Stream(value)[Size]

(* A reader has the values of its tree, a place in the stream, and maybe an *)
(* exception, which ends it.  Without one, it passes an element like this.  *)
DeserializeElement(e, bits, r) ==
    LET v == Decoded(e, bits, r.pos)
    IN  IF r.threw \/ e \notin Visited(r.value) THEN r
        ELSE IF Kind[e] = "rangedint" /\ AboveRange(v, RangeMax[e])
             THEN [r EXCEPT !.threw = TRUE]
             ELSE [r EXCEPT !.value[e] = v, !.pos = @ + Width(e)]

\* The reader when it has passed each element, in a tree with the values `old'.
Reading(bits, old) ==
    LET read[e \in 0..Size] ==
            IF e = 0 THEN [value |-> old, pos |-> 0, threw |-> FALSE]
                     ELSE DeserializeElement(e, bits, read[e - 1])
    IN  read

Deserialize(bits, old) == Reading(bits, old)[Size]
==============================================================================
