--------------------------- MODULE NetStringCache ---------------------------
(***************************************************************************)
(* NetStringCache.as: the table that lets a connection send a short id in  *)
(* place of a string it has sent before.  A cache is a value (a record),   *)
(* and read(), write() and their helpers are operators on it, because the  *)
(* state belongs to the connections that own the caches.                   *)
(*                                                                         *)
(* The two sentinels of the linked list are the integers around the ids,   *)
(* so that a freshly built list is next[i] = i + 1, prev[i] = i - 1.       *)
(***************************************************************************)
EXTENDS Integers

CONSTANTS
    Strings,      \* the strings the program may cache (never null or "")
    NoString,     \* null: what an entry holds before its first use
    EntryCount    \* entryCount, 1 << stringRefBitCount in the code

ASSUME CacheAssumption ==
    /\ EntryCount \in Nat \ {0}
    /\ NoString \notin Strings

Ids == 0 .. EntryCount - 1
LruHead == -1
LruTail == EntryCount
NoEntry == -2             \* lookupByString of a string that is not in the table

Caches == [value : [Ids -> Strings \cup {NoString}],
           hash  : [Strings -> Ids \cup {NoEntry}],
           next  : [Ids \cup {LruHead} -> Ids \cup {LruTail}],
           prev  : [Ids \cup {LruTail} -> Ids \cup {LruHead}]]

\* The constructor: head -> 0 -> 1 -> ... -> EntryCount - 1 -> tail.
NewCache == [value |-> [i \in Ids |-> NoString],
             hash  |-> [s \in Strings |-> NoEntry],
             next  |-> [i \in Ids \cup {LruHead} |-> i + 1],
             prev  |-> [i \in Ids \cup {LruTail} |-> i - 1]]

LookupByString(c, s) == c.hash[s]
LookupById(c, id) == c.value[id]
GetOldestEntry(c) == c.prev[LruTail]

\* bringToFront: unlink e from where it is ...
UnlinkedNext(c, e) == [c.next EXCEPT ![c.prev[e]] = c.next[e]]
UnlinkedPrev(c, e) == [c.prev EXCEPT ![c.next[e]] = c.prev[e]]

\* ... and link it behind the head: the assignments in the code's order.
LinkedNext_SwappedAssignments(c, e) ==        \* mutant
    [[UnlinkedNext(c, e) EXCEPT ![LruHead] = e] EXCEPT ![e] = e]

LinkedNext(c, e) ==
    LET next == UnlinkedNext(c, e)
    IN  [[next EXCEPT ![e] = next[LruHead]] EXCEPT ![LruHead] = e]

LinkedPrev(c, e) ==
    LET first == UnlinkedNext(c, e)[LruHead]
    IN  [[UnlinkedPrev(c, e) EXCEPT ![first] = e] EXCEPT ![e] = LruHead]

Erased_Nothing(c, e) == c.hash                \* mutant

\* The string map without the string that e holds, if it holds one.
Erased(c, e) == IF c.value[e] = NoString THEN c.hash
                ELSE [c.hash EXCEPT ![c.value[e]] = NoEntry]

\* Forget what the entry held, give it a string, move it to the front.
ReuseEntry(c, e, s) ==
    [value |-> [c.value EXCEPT ![e] = s],
     hash  |-> [Erased(c, e) EXCEPT ![s] = e],
     next  |-> LinkedNext(c, e),
     prev  |-> LinkedPrev(c, e)]

-----------------------------------------------------------------------------
(* What goes over the wire for a cached string: the flag, the id, and the  *)
(* string itself when the flag says that the id is being (re)defined.      *)
CachedStrings ==
    {w \in [fresh : BOOLEAN, id : Ids, str : Strings \cup {NoString}] :
        w.fresh <=> w.str # NoString}

Knows(c, s) == LookupByString(c, s) # NoEntry

\* write(): what is put in the stream, and the cache afterwards.
Written(c, s) ==
    IF Knows(c, s)
    THEN [fresh |-> FALSE, id |-> LookupByString(c, s), str |-> NoString]
    ELSE [fresh |-> TRUE,  id |-> GetOldestEntry(c),    str |-> s]

AfterWrite(c, s) ==
    IF Knows(c, s) THEN c ELSE ReuseEntry(c, GetOldestEntry(c), s)

\* read(): the string it returns, and the cache afterwards.
ReadString(c, w) == IF w.fresh THEN w.str ELSE LookupById(c, w.id)

AfterRead_NotMovedToFront(c, w) ==            \* mutant
    IF w.fresh
    THEN [c EXCEPT !.value[w.id] = w.str,
                   !.hash = [Erased(c, w.id) EXCEPT ![w.str] = w.id]]
    ELSE c

AfterRead_IdNotTaken(c, w) ==                 \* mutant
    IF w.fresh THEN ReuseEntry(c, GetOldestEntry(c), w.str) ELSE c

AfterRead(c, w) == IF w.fresh THEN ReuseEntry(c, w.id, w.str) ELSE c

-----------------------------------------------------------------------------
\* The doubly linked list: the two directions are inverse to each other, and
\* the list is not empty, so that getOldestEntry() finds a real entry.
WellLinked(c) ==
    /\ \A i \in Ids \cup {LruHead} : c.prev[c.next[i]] = i
    /\ \A i \in Ids \cup {LruTail} : c.next[c.prev[i]] = i
    /\ c.next[LruHead] # LruTail

\* A string the map knows is held by the entry the map names.
KnownHeld(c) == \A s \in Strings : Knows(c, s) => c.value[c.hash[s]] = s

\* A string that an entry holds is found at that entry.
HeldKnown(c) == \A i \in Ids : c.value[i] # NoString => c.hash[c.value[i]] = i
=============================================================================
