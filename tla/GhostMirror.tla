---------------------------- MODULE GhostMirror ----------------------------
(***************************************************************************)
(* What ghosting promises the game on the client.  A slot there shows      *)
(* nothing, or one ghost with the whole state that it had on the server at *)
(* one moment: never the fields of two moments, or of two ghosts.  What    *)
(* the client is shown comes in the order in which the server decided it,  *)
(* and nothing of it is left out.  The server gives a ghost one slot at a  *)
(* time, and empties a slot before it gives it to another ghost.  The      *)
(* promise holds until something of it is lost; from then on anything may  *)
(* happen.                                                                 *)
(***************************************************************************)
EXTENDS Sequences

CONSTANTS GhostIds, Ghosts, States, Empty

VARIABLES truth,        \* the state of each ghost on the server
          given,        \* slot -> the ghost the client has been given there
          coming,       \* what the client has still to be shown, in order
          shown,        \* slot -> what the client shows
          damaged       \* the promise is off

vars == <<truth, given, coming, shown, damaged>>

Init ==
    /\ truth \in [Ghosts -> States]
    /\ given = [i \in GhostIds |-> Empty]
    /\ coming = <<>>
    /\ shown = [i \in GhostIds |-> Empty]
    /\ damaged = FALSE

Change ==
    /\ truth' \in [Ghosts -> States]
    /\ UNCHANGED <<given, coming, shown, damaged>>

\* A ghost that has a slot stays in it, and one that gets a slot has no other.
Show(i, g) ==
    /\ given[i] \in {Empty, g} /\ \A j \in GhostIds \ {i} : given[j] # g
    /\ given' = [given EXCEPT ![i] = g]
    /\ coming' = Append(coming, [slot |-> i,
                                 copy |-> [ghost |-> g, state |-> truth[g]]])
    /\ UNCHANGED <<truth, shown, damaged>>

Hide(i) ==
    /\ given[i] # Empty
    /\ given' = [given EXCEPT ![i] = Empty]
    /\ coming' = Append(coming, [slot |-> i, copy |-> Empty])
    /\ UNCHANGED <<truth, shown, damaged>>

Receive ==
    /\ ~damaged /\ coming # <<>>
    /\ shown' = [shown EXCEPT ![Head(coming).slot] = Head(coming).copy]
    /\ coming' = Tail(coming)
    /\ UNCHANGED <<truth, given, damaged>>

Next == \/ Change
        \/ \E i \in GhostIds : Hide(i) \/ \E g \in Ghosts : Show(i, g)
        \/ Receive
        \/ damaged'

Spec == Init /\ [][Next]_vars /\ WF_vars(Receive)
=============================================================================
