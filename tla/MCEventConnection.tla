-------------------------- MODULE MCEventConnection --------------------------
(* Small packets: one holds one event that defines its name or two that do *)
(* not; big fits only if its name, which it shares with other, is known.   *)
EXTENDS EventConnection

CONSTANTS small, other, big,    \* events
          t1, t2                \* type names

MCPayloadBits == [ev \in Events |-> IF ev = big THEN 5 ELSE 1]
MCTypeName == [ev \in Events |-> IF ev = small THEN t1 ELSE t2]
==============================================================================
