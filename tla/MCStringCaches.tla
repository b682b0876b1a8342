--------------------------- MODULE MCStringCaches ----------------------------
(* The cache that both ends write to, and one direction of a connection,   *)
(* side by side: one of the two moves, the other stays as it is.  Three    *)
(* entries have a front, a middle and a back; four strings compete for     *)
(* them, so entries are redefined while references to them are in flight;  *)
(* and what the other end defines can put one string into several entries. *)
EXTENDS SharedStringCache, StringCacheLink

VARIABLE part       \* the one that moves

Shared == part = "shared" /\ Next /\ UNCHANGED <<linkVars, part>>
Linked == part = "link" /\ LinkNext /\ UNCHANGED <<vars, part>>

MCInit == Init /\ LinkInit /\ part \in {"shared", "link"}
MCNext == Shared \/ Linked

MCSpec == MCInit /\ [][MCNext]_<<vars, linkVars, part>> /\ WF_linkVars(Receive)
==============================================================================
