---------------------------- MODULE MCKeySwitch ----------------------------
(* Small instances of KeySwitch for TLC. *)
EXTENDS KeySwitch, TLC

CONSTANTS k1, k2, u1, u2, i1, i2

OneOwner == [k \in Keys |-> u1]
=============================================================================
