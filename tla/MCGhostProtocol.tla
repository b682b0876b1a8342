--------------------------- MODULE MCGhostProtocol ---------------------------
(* dirtyflag 1 ( flag 2 ( rangedint 3, dirtyflag 4 ( float 5 ) ) ),         *)
(* dirtyflag 6 ( dirtyflag 7 ( float 8 ) ).  With ints of two bits, 1 and 6 *)
(* share a dirty bit, and 4 and 7 do.  Field 3 goes from 2 to 4, and starts with 1: the     *)
(* client throws at 5, and takes 6 for 2.  Field 5 is not covered: a dirty  *)
(* flag under a flag.                                                       *)
EXTENDS GhostProtocol

MCKind == <<"dirtyflag", "flag", "rangedint", "dirtyflag", "float",
            "dirtyflag", "dirtyflag", "float">>
MCParent == <<0, 1, 2, 2, 4, 0, 6, 7>>
MCRangeMin == [e \in Elements |-> 2]
MCRangeMax == [e \in Elements |-> 4]
MCSettings == [e \in Tracked |-> CASE e = 2 -> {0, 1} [] e = 3 -> {2, 5, 6}
                                   [] e = 5 -> {4} [] e = 8 -> {1, 4}]
==============================================================================
