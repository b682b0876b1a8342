---------------------------- MODULE MCGameStream -----------------------------
(* Packets of six bytes: the first read looks ahead as soon as there are    *)
(* three, which cuts the packet before its end; a policy request of five    *)
(* leaves three behind the answer, enough for a second look, as in the      *)
(* code; and the buffers are switched from seven bytes on, in the middle of *)
(* a packet.                                                                *)
EXTENDS GameStream
==============================================================================
