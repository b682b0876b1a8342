---------------------------- MODULE MCGhostManager ----------------------------
(* Small packets: with two fields, a ghost id of one bit and the widths of   *)
(* the configuration, a kill takes 3 bits, an update 7 or 9, a new ghost 12  *)
(* or, if its prototype name is not cached yet, 15.                          *)
EXTENDS GhostManager

CONSTANTS g1, g2, g3,   \* ghosts
          p1,           \* the prototype name
          x, y          \* fields

MCPrototype == [g \in Ghosts |-> p1]

\* Only the object of g3 changes, in both fields: they can be dirty together,
\* or either of them while the other has been sent.
MCObjects == {o \in [Ghosts -> [Fields -> Values]] :
                /\ \A g \in {g1, g2}, f \in Fields : o[g][f] = 0
                /\ o[g3][x] >= o[g3][y]}

\* The scoper marks everything or everything but g3, the youngest first: there
\* are two slots, and g1 is shown only while g3 is not marked.
Age(g) == CASE g = g1 -> 1 [] g = g2 -> 2 [] OTHER -> 3
MCScopes == {[g \in Ghosts |-> IF g \in S THEN Age(g) ELSE 0] :
                S \in {Ghosts, Ghosts \ {g3}}}
=============================================================================
