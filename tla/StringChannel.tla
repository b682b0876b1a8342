---------------------------- MODULE StringChannel ----------------------------
(***************************************************************************)
(* What a sender and a receiver that share a string cache promise: the     *)
(* receiver reads the strings the sender wrote, each one once, in order.   *)
(***************************************************************************)
EXTENDS Sequences

CONSTANTS Strings, NoString

VARIABLES queue,    \* strings written and not read yet
          got       \* the string the receiver read last

Init == queue = <<>> /\ got = NoString

Put == \E s \in Strings : queue' = Append(queue, s) /\ UNCHANGED got

Take == /\ queue # <<>>
        /\ got' = Head(queue)
        /\ queue' = Tail(queue)

Next == Put \/ Take

Spec == Init /\ [][Next]_<<queue, got>> /\ WF_<<queue, got>>(Take)
=============================================================================
