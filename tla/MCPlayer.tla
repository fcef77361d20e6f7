-------------------------------- MODULE MCPlayer --------------------------------
(* Instances of the player for TLC. *)
EXTENDS Player

CONSTANTS c0, c1
=============================================================================
