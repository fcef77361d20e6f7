----------------------------- MODULE MCMsgBuffer ----------------------------
(* The ring at its real size for goke, recorder and player                 *)
(* (MSG_BUFFER_SIZE_SMALL = 8, seven messages), with two messages of which *)
(* one carries an argument.                                                *)
EXTENDS MsgBuffer
=============================================================================
