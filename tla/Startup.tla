------------------------------- MODULE Startup ------------------------------
(***************************************************************************)
(* How audio and video wait for the media system at start. goke.c brings   *)
(* the system up and, while it is in STATUS_RUN, notifies both of them in  *)
(* every turn of its loop; audio.c and video.c stay in STATUS_INIT until   *)
(* they know that goke runs, and ask for its status in every turn there.   *)
(* A turn ends in server_message_proc, where a server sleeps until a       *)
(* message comes unless its status has just changed, so question,          *)
(* notification and wake-up depend on one another.                         *)
(*                                                                         *)
(* Questions, answers and notifications are lost where the code loses      *)
(* them: a server that has not allocated its buffer yet refuses them, and  *)
(* a full buffer drops its oldest message.                                 *)
(***************************************************************************)
EXTENDS Naturals, Sequences

CONSTANTS
  Goke,        \* SERVER_GOKE
  Clients,     \* SERVER_AUDIO and SERVER_VIDEO
  Capacity,    \* messages a buffer holds
  MaxOther,    \* bound: messages of other kinds, from anywhere
  MaxFaults    \* bound: failures of the voice module, after which goke retries

ASSUME StartupAssumption ==
  /\ Goke \notin Clients
  /\ Capacity \in Nat \ {0}
  /\ MaxOther \in Nat
  /\ MaxFaults \in Nat

VARIABLES
  status,   \* info.status after task_proc; "created" before the buffer exists
  pc,       \* "work", or in server_message_proc: "recv" after a change of
            \* status, "wait" if the thread may block
  inbox,    \* the message buffers
  ready,    \* clients whose init_status has the goke bit
  others,   \* messages of other kinds so far
  faults    \* failures of the voice module so far

vars == <<status, pc, inbox, ready, others, faults>>

Nodes == Clients \cup {Goke}

(* run: arg_in.dog is STATUS_RUN.                                          *)
Message == [type : {"GET", "GET_ACK", "NOTIFY", "OTHER"}, from : Nodes,
            run : BOOLEAN]

Msg(type, from, run) == [type |-> type, from |-> from, run |-> run]

(* Before its buffer is allocated, and once it exits, a server refuses.    *)
Open(n) == status[n] \notin {"created", "ERROR"}

(* msg_buffer_push, overwriting.                                           *)
Push(q, m) == IF Len(q) = Capacity THEN Append(Tail(q), m) ELSE Append(q, m)

Reaches(to, m) == [n \in Nodes |-> IF n \in to /\ Open(n)
                                   THEN Push(inbox[n], m) ELSE inbox[n]]

-----------------------------------------------------------------------------
Init ==
  /\ status = [n \in Nodes |-> "created"]
  /\ pc = [n \in Nodes |-> "work"]
  /\ inbox = [n \in Nodes |-> <<>>]
  /\ ready = {}
  /\ others = 0
  /\ faults = 0

(* server_func up to its loop.                                             *)
ServerInit(n) ==
  /\ status[n] = "created"
  /\ status' = [status EXCEPT ![n] = "NONE"]
  /\ UNCHANGED <<pc, inbox, ready, others, faults>>

(* Faulty: the loop does not sleep when the status has not changed.        *)
WorkAwake(n, from, s) ==
  /\ pc[n] = "work"
  /\ status[n] = from
  /\ status' = [status EXCEPT ![n] = s]
  /\ pc' = [pc EXCEPT ![n] = "recv"]
  /\ UNCHANGED <<ready, others>>

(* state_machine and task_proc, which leave the server in status s.        *)
Work(n, from, s) ==
  /\ pc[n] = "work"
  /\ status[n] = from
  /\ status' = [status EXCEPT ![n] = s]
  /\ pc' = [pc EXCEPT ![n] = IF s = from THEN "wait" ELSE "recv"]
  /\ UNCHANGED <<ready, others>>

Quiet == UNCHANGED <<inbox, faults>>

Begins(n) == Work(n, "NONE", "INIT") /\ Quiet

(* goke waits for nobody in STATUS_INIT.                                   *)
GokeInit == Work(Goke, "INIT", "SETUP") /\ Quiet

GokeSetup == Work(Goke, "SETUP", "START") /\ Quiet

(* The voice module is not registered: the status stays SETUP.             *)
GokeSetupAgain ==
  /\ faults < MaxFaults
  /\ faults' = faults + 1
  /\ Work(Goke, "SETUP", "SETUP")
  /\ UNCHANGED inbox

(* The system cannot be initialised: goke exits, with what it received.    *)
GokeFails ==
  /\ faults < MaxFaults
  /\ faults' = faults + 1
  /\ Work(Goke, "SETUP", "ERROR")
  /\ inbox' = [inbox EXCEPT ![Goke] = <<>>]

(* Faulty: goke notifies once, when it starts to run.                      *)
GokeRunsOnce ==
  \/ /\ Work(Goke, "START", "RUN")
     /\ inbox' = Reaches(Clients, Msg("NOTIFY", Goke, TRUE))
     /\ UNCHANGED faults
  \/ Work(Goke, "RUN", "RUN") /\ Quiet

(* STATUS_START becomes STATUS_RUN, and task_proc notifies in STATUS_RUN.  *)
GokeRuns ==
  /\ Work(Goke, "START", "RUN") \/ Work(Goke, "RUN", "RUN")
  /\ inbox' = Reaches(Clients, Msg("NOTIFY", Goke, TRUE))
  /\ UNCHANGED faults

(* server_init of a client: it asks for goke's status as long as it does   *)
(* not know that goke runs, and then goes on to STATUS_SETUP.              *)
ClientAsks(c) ==
  /\ c \notin ready
  /\ Work(c, "INIT", "INIT")
  /\ inbox' = Reaches({Goke}, Msg("GET", c, FALSE))
  /\ UNCHANGED faults

ClientGoesOn(c) ==
  /\ c \in ready
  /\ Work(c, "INIT", "SETUP")
  /\ Quiet

(* From STATUS_SETUP on a client does not talk to goke; its further        *)
(* statuses are not told apart.                                            *)
ClientWorks(c) == Work(c, "SETUP", "SETUP") /\ Quiet

-----------------------------------------------------------------------------
Pops(n) ==
  /\ pc[n] \in {"recv", "wait"}
  /\ inbox[n] # <<>>
  /\ pc' = [pc EXCEPT ![n] = "work"]
  /\ UNCHANGED <<status, others, faults>>

NothingToPop(n) ==
  /\ pc[n] = "recv"
  /\ inbox[n] = <<>>
  /\ pc' = [pc EXCEPT ![n] = "work"]
  /\ UNCHANGED <<status, inbox, ready, others, faults>>

(* MSG_GOKE_PROPERTY_GET: "if( msg.arg_in.cat = GOKE_PROPERTY_STATUS )"    *)
(* assigns 0 and is false, so the answer carries no status.                *)
GokeAnswers ==
  /\ Pops(Goke)
  /\ LET m == Head(inbox[Goke])
         read == [inbox EXCEPT ![Goke] = Tail(@)]
     IN  inbox' = IF m.type = "GET" /\ Open(m.from)
                  THEN [read EXCEPT ![m.from] =
                          Push(@, Msg("GET_ACK", Goke, FALSE))]
                  ELSE read
  /\ UNCHANGED ready

(* Faulty: any word from goke will do.                                     *)
ClientBelieves(c) ==
  /\ Pops(c)
  /\ inbox' = [inbox EXCEPT ![c] = Tail(@)]
  /\ ready' = IF Head(inbox[c]).from = Goke THEN ready \cup {c} ELSE ready

(* MSG_GOKE_PROPERTY_NOTIFY and MSG_GOKE_PROPERTY_GET_ACK                  *)
ClientHears(c) ==
  /\ Pops(c)
  /\ inbox' = [inbox EXCEPT ![c] = Tail(@)]
  /\ ready' = IF Head(inbox[c]).type \in {"NOTIFY", "GET_ACK"} /\ Head(inbox[c]).run
              THEN ready \cup {c} ELSE ready

-----------------------------------------------------------------------------
(* Timers, requests and dummies reach any server at any time.              *)
Other(n) ==
  /\ others < MaxOther
  /\ others' = others + 1
  /\ inbox' = Reaches({n}, Msg("OTHER", n, FALSE))
  /\ UNCHANGED <<status, pc, ready, faults>>

GokeStep ==
  \/ ServerInit(Goke) \/ Begins(Goke) \/ GokeInit \/ GokeSetup
  \/ GokeSetupAgain \/ GokeFails \/ GokeRuns
  \/ NothingToPop(Goke) \/ GokeAnswers

ClientStep(c) ==
  \/ ServerInit(c) \/ Begins(c) \/ ClientAsks(c) \/ ClientGoesOn(c)
  \/ ClientWorks(c) \/ NothingToPop(c) \/ ClientHears(c)

Next ==
  \/ GokeStep
  \/ \E c \in Clients : ClientStep(c)
  \/ \E n \in Nodes : Other(n)

(* Every server thread is scheduled.                                       *)
Fairness == WF_vars(GokeStep) /\ \A c \in Clients : WF_vars(ClientStep(c))

Spec == Init /\ [][Next]_vars /\ Fairness

-----------------------------------------------------------------------------
(* Type correctness; a buffer never holds more than its capacity.          *)
TypeOK ==
  /\ status \in [Nodes -> {"created", "NONE", "INIT", "SETUP", "START", "RUN",
                           "ERROR"}]
  /\ pc \in [Nodes -> {"work", "recv", "wait"}]
  /\ inbox \in [Nodes -> Seq(Message)]
  /\ \A n \in Nodes : Len(inbox[n]) <= Capacity
  /\ ready \subseteq Clients
  /\ others \in 0 .. MaxOther
  /\ faults \in 0 .. MaxFaults

(* No client goes on to set its devices up before the media system runs,   *)
(* whatever it hears from goke before that.                                *)
SetUpAfterGokeRuns ==
  \A c \in Clients : status[c] = "SETUP" => status[Goke] = "RUN"

(* Once goke runs, every client goes on: whichever of its questions, of    *)
(* goke's notifications and of the messages that wake either of them are   *)
(* refused or dropped, the others make up for it.  It needs buffers that   *)
(* outlast a burst: answers carry no status, so where every notification   *)
(* is pushed out before it is read the questions go on for ever (with one  *)
(* message from elsewhere, at a Capacity of 4; not at 5 or more).          *)
ClientsGoOn ==
  \A c \in Clients : status[Goke] = "RUN" ~> status[c] = "SETUP"

(* goke.c, task_proc: "this message won't be send indefinitely". Although  *)
(* goke notifies in every turn, its turns come to an end: nobody is kept   *)
(* awake once the clients know.                                            *)
NotificationsEnd ==
  <>(status[Goke] = "RUN") => <>[](\A n \in Nodes : inbox[n] = <<>>)

-----------------------------------------------------------------------------
(* What makes the safety property inductive: only a running goke says so.  *)
OnlyRunningSaysRun ==
  /\ \A n \in Nodes : \A i \in DOMAIN inbox[n] :
        inbox[n][i].run => status[Goke] = "RUN"
  /\ ready # {} => status[Goke] = "RUN"
  /\ \A c \in Clients : status[c] = "SETUP" => c \in ready

IInv == TypeOK /\ OnlyRunningSaysRun /\ SetUpAfterGokeRuns
=============================================================================
