----------------------------- MODULE MCFileList -----------------------------
(* Five points of time for what a card may already hold, three more for    *)
(* what is recorded, and a list that is full with five recordings.         *)
EXTENDS FileList
=============================================================================
