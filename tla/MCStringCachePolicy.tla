------------------------- MODULE MCStringCachePolicy -------------------------
(***************************************************************************)
(* The policy that the documentation of the cache claims.  "used" records  *)
(* when a string was last used, and changes nothing: a message on the wire *)
(* uses the entry it names, whether it defines it or refers to it.         *)
(***************************************************************************)
EXTENDS SharedStringCache

VARIABLE used       \* auxiliary: the ids, most recently used first

\* Written and read as in SharedStringCache; the other end refers to entries
\* that hold a string.
WriteUses(s) == Write(s) /\ used' = MoveToFront(used, Written(cache, s).id)

ReadUses(w) == /\ Read(w) /\ ReadString(cache, w) # NoString
               /\ used' = MoveToFront(used, w.id)

MCInit == Init /\ used = inserted
MCNext == \/ \E s \in Strings : WriteUses(s)
          \/ \E w \in CachedStrings : ReadUses(w)

MCSpec == MCInit /\ [][MCNext]_<<vars, used>>

\* "Uses an LRU cache eviction policy" (NetStringCache.as:8), by which "the
\* "hot" strings are always in the cache" (NetStringCache.as:22-23): the entry
\* that write() redefines next is the one whose string was used least recently.
EvictsLeastRecentlyUsed == GetOldestEntry(cache) = used[EntryCount]
==============================================================================
