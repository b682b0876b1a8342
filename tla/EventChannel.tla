---------------------------- MODULE EventChannel ----------------------------
(***************************************************************************)
(* What one direction of an EventConnection promises the program: every    *)
(* posted event is processed at the other end, once, in the order of the   *)
(* postEvent calls.  The promise holds until the sender's string cache is  *)
(* damaged; from then on anything may happen.                              *)
(***************************************************************************)
EXTENDS Sequences

CONSTANTS Events, NoEvent

VARIABLES pending,      \* posted and not processed yet
          processed,    \* the event that was processed last
          damaged       \* the promise is off

vars == <<pending, processed, damaged>>

Init == pending = <<>> /\ processed = NoEvent /\ damaged = FALSE

Post == /\ \E ev \in Events : pending' = Append(pending, ev)
        /\ UNCHANGED <<processed, damaged>>

Process == /\ ~damaged /\ pending # <<>>
           /\ processed' = Head(pending)
           /\ pending' = Tail(pending)
           /\ UNCHANGED damaged

Next == Post \/ Process \/ damaged'

Spec == Init /\ [][Next]_vars /\ WF_vars(Process)
=============================================================================
