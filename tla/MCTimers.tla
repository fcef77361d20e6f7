-------------------------------- MODULE MCTimers --------------------------------
(* Instances of the timers for TLC: the device's periodic timer, a periodic  *)
(* and a one-shot timer of video, and the manager's delayed start.           *)
EXTENDS Timers

MCOwner == [h \in {"reset", "check", "release", "delayed"} |->
              CASE h = "reset" -> "device" [] h = "delayed" -> "manager" [] OTHER -> "video"]
MCInterval == [h \in {"reset", "check", "release", "delayed"} |-> IF h = "release" THEN 0 ELSE 1]
=============================================================================
