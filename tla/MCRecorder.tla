------------------------------- MODULE MCRecorder -------------------------------
(* Instances of the recorder for TLC. *)
EXTENDS Recorder
=============================================================================
