--------------------------- MODULE MCConfigWatch ----------------------------
(* Small instances of ConfigWatch for TLC. *)
EXTENDS ConfigWatch

CONSTANTS k1, k2, g1, v1, v2, x, b1, b2

\* Build b1 takes v1 and not x, b2 the other way round.
MCLoads == [b \in Builds |-> IF b = b1 THEN {v1} ELSE {x}]
=============================================================================
