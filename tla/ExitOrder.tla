----------------------------- MODULE ExitOrder -----------------------------
(***************************************************************************)
(* What the exit protocol of the camera process promises, without its      *)
(* messages: servers give up their resources one after the other, each     *)
(* once, and none before those of its exit condition have answered the     *)
(* manager; the process is over when all have. A server that fails by      *)
(* itself waits for nobody. Module Shutdown implements this.               *)
(***************************************************************************)
CONSTANTS
  Servers,   \* the servers there are
  WaitsFor   \* [server -> its exit condition]

VARIABLES
  started,   \* the servers are there
  failed,    \* servers that have failed by themselves
  released,  \* servers that have given up their resources
  answered,  \* servers that have told the manager that they have quit
  over       \* the manager no longer waits for anyone

vars == <<started, failed, released, answered, over>>

Init ==
  /\ started = FALSE
  /\ failed = {} /\ released = {} /\ answered = {}
  /\ over = FALSE

Start ==
  /\ ~started /\ ~over
  /\ started' = TRUE
  /\ UNCHANGED <<failed, released, answered, over>>

(* A server that is not leaving yet fails.                                 *)
Fail(s) ==
  /\ started
  /\ s \notin released
  /\ failed' = failed \cup {s}
  /\ UNCHANGED <<started, released, answered, over>>

Release(s) ==
  /\ started
  /\ s \notin released
  /\ s \in failed \/ WaitsFor[s] \subseteq answered
  /\ released' = released \cup {s}
  /\ UNCHANGED <<started, failed, answered, over>>

(* A server that fails and is told to exit as well begins once more; it    *)
(* releases a second time.                                                 *)
BeginAgain(s) ==
  /\ s \in released \cap failed
  /\ s \notin answered
  /\ released' = released \ {s}
  /\ UNCHANGED <<started, failed, answered, over>>

Answer(s) ==
  /\ started
  /\ s \notin answered
  /\ answered' = answered \cup {s}
  /\ UNCHANGED <<started, failed, released, over>>

Over ==
  /\ ~over
  /\ started => Servers \subseteq answered
  /\ over' = TRUE
  /\ UNCHANGED <<started, failed, released, answered>>

Next ==
  \/ Start
  \/ \E s \in Servers : Fail(s) \/ Release(s) \/ BeginAgain(s) \/ Answer(s)
  \/ Over

Spec == Init /\ [][Next]_vars
=============================================================================
