-------------------------- MODULE MCGhostConnection --------------------------
(* An event takes 6 bits of a packet of 16, 9 if it has to define its name:  *)
(* two of them may leave no bit for the ghosts.  The one entry of the cache  *)
(* is taken in turn by the name of the events and that of the ghosts.        *)
EXTENDS GhostConnection

CONSTANTS g1, g2,   \* ghosts
          p1,       \* the prototype name
          x         \* a field

MCSamePrototype == [g \in Ghosts |-> p1]

MCObjects == [Ghosts -> [Fields -> Values]]

\* All ghosts at the same priority, as in ServerGame, or none.
MCEqual == {[g \in Ghosts |-> IF g \in S THEN 1 ELSE 0] : S \in SUBSET Ghosts}
=============================================================================
