------------------------------ MODULE MCSdCard ------------------------------
(* One of the recorder and the player with two requests; SdCard_proofs is  *)
(* about any number of both.                                               *)
EXTENDS SdCard
=============================================================================
