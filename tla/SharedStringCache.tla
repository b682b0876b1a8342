-------------------------- MODULE SharedStringCache --------------------------
(***************************************************************************)
(* The string cache of one connection as that connection uses it.  A       *)
(* NetworkConnection owns a single NetStringCache (NetworkConnection.as    *)
(* line 333) and hands it to the streams it writes and to the streams it   *)
(* reads, so the cache sees its own writes interleaved with whatever the   *)
(* other end defines.  Here the other end is unconstrained: any message    *)
(* the wire format can carry may be read at any time.                      *)
(***************************************************************************)
EXTENDS NetStringCache

VARIABLES
    cache,
    inserted    \* auxiliary: the ids, most recently (re)defined first

vars == <<cache, inserted>>

Orders == [1 .. EntryCount -> Ids]

\* Move id to the front of an order, everything before it one place back.
MoveToFront(order, id) ==
    LET p == CHOOSE n \in 1 .. EntryCount : order[n] = id
    IN  [n \in 1 .. EntryCount |-> IF n = 1 THEN id
                                   ELSE IF n <= p THEN order[n - 1]
                                   ELSE order[n]]

Init == /\ cache = NewCache
        /\ inserted = [n \in 1 .. EntryCount |-> n - 1]

\* The order of insertion after a message on the wire.
Touch(w) == inserted' = IF w.fresh THEN MoveToFront(inserted, w.id) ELSE inserted

Write(s) == cache' = AfterWrite(cache, s) /\ Touch(Written(cache, s))

Read(w) == cache' = AfterRead(cache, w) /\ Touch(w)

Next == (\E s \in Strings : Write(s)) \/ (\E w \in CachedStrings : Read(w))

Spec == Init /\ [][Next]_vars

-----------------------------------------------------------------------------
TypeOK == cache \in Caches /\ inserted \in Orders

\* The linked list is the insertion order, whichever entry is moved and from
\* wherever in the list: front to back along next, back to front along prev.
\* In particular getOldestEntry() is always a real entry, the one defined
\* longest ago (bringToFront, getOldestEntry: NetStringCache.as:185-204).  The
\* documentation has it that it is the one used longest ago: see
\* MCStringCachePolicy.
LinkedAs(c, order) ==
    /\ c.next[LruHead] = order[1] /\ c.prev[order[1]] = LruHead
    /\ \A n \in 1 .. EntryCount - 1 : /\ c.next[order[n]] = order[n + 1]
                                      /\ c.prev[order[n + 1]] = order[n]
    /\ c.next[order[EntryCount]] = LruTail
    /\ c.prev[LruTail] = order[EntryCount]

ListIsInsertionOrder == LinkedAs(cache, inserted)

\* A string the map knows is held by the entry the map names, even when the
\* other end has put the same string into several entries: write() never sends
\* the id of an entry that holds something else (NetStringCache.as:210-227).
KnownStringsAreHeld == KnownHeld(cache)
==============================================================================
