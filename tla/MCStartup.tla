------------------------------ MODULE MCStartup -----------------------------
(* goke with its two clients, and buffers small enough to overflow.        *)
EXTENDS Startup
=============================================================================
