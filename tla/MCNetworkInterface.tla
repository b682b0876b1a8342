-------------------------- MODULE MCNetworkInterface -------------------------
(* Three connections: one that is removed, one that is passed over for it, *)
(* and one behind both; a fourth call opens one of them again.             *)
EXTENDS NetworkInterface
==============================================================================
