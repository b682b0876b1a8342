---------------------------- MODULE MCThaneSocket ----------------------------
(* A receive buffer of two bytes and buffers that are switched from their  *)
(* third byte on: every switch and every full buffer happens.              *)
EXTENDS ThaneSocket
==============================================================================
