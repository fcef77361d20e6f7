----------------------------- MODULE MCShutdown -----------------------------
(* Servers of the camera with the part of their exit conditions that lies  *)
(* among them: aliyun waits for nobody (ALIYUN_EXIT_CONDITION is 0), audio *)
(* for aliyun (AUDIO_EXIT_CONDITION without the recorder), goke for audio  *)
(* (GOKE_EXIT_CONDITION without video).                                    *)
EXTENDS Shutdown

CONSTANTS manager, client, aliyun, audio, goke

Chain == [s \in Servers |->
            CASE s = aliyun -> {} [] s = audio -> {aliyun} [] s = goke -> {audio}]
=============================================================================
