------------------------------ MODULE Shutdown ------------------------------
(***************************************************************************)
(* How the camera process starts its servers and shuts them down:          *)
(* the manager (server/manager/manager.c, run by the main thread) and the  *)
(* server threads, which share one loop                                    *)
(*                                                                         *)
(*     state_machine(); task_proc(); server_message_proc();                *)
(*                                                                         *)
(* and one exit protocol. audio.c is the server the definitions follow;    *)
(* goke.c, video.c, aliyun.c and device.c have the same exit states.       *)
(* On a signal the manager sends MSG_MANAGER_EXIT with the set of running  *)
(* servers to each of them. A server holds on to its resources until every *)
(* server of its exit condition has quit, releases them, stops its         *)
(* threads, frees its message buffer, answers MSG_MANAGER_EXIT_ACK and     *)
(* ends. The manager relays each answer to the servers still running and   *)
(* exits the process when none is left.                                    *)
(*                                                                         *)
(* The statuses before STATUS_RUN are one phase, STARTING. Work is one     *)
(* call of state_machine and task_proc, Receive one of                     *)
(* server_message_proc; both touch the thread's own state and otherwise    *)
(* only send, and every send is atomic under the receiver's mutex.         *)
(***************************************************************************)
EXTENDS Naturals, Sequences

CONSTANTS
  Servers,      \* the servers the manager starts
  Manager,      \* SERVER_MANAGER, which is 0 as in a zeroed message
  Client,       \* whoever sends requests and other traffic
  WaitsFor,     \* [server -> its exit condition], e.g. AUDIO_EXIT_CONDITION
  Requestable,  \* servers with a START task that waits for STATUS_RUN
  Threaded,     \* servers that run a thread of their own
  MayFail,      \* servers whose setup or start can fail
  Capacity,     \* messages a buffer holds
  MaxSignals,   \* bound: termination signals
  MaxRequests   \* bound: requests and other messages from clients

ASSUME ServersAssumption ==
  /\ Manager \notin Servers
  /\ Client \notin Servers \cup {Manager}
  /\ WaitsFor \in [Servers -> SUBSET Servers]
  /\ Requestable \subseteq Servers
  /\ Threaded \subseteq Servers
  /\ MayFail \subseteq Servers

ASSUME BoundsAssumption ==
  /\ Capacity \in Nat \ {0}
  /\ MaxSignals \in Nat
  /\ MaxRequests \in Nat

VARIABLES
  phase,     \* info.status of every node, and whether its thread exists
  pc,        \* "work", or in server_message_proc: "recv" if the status has
             \* just changed, "wait" if it has not and the thread may block
  inbox,     \* the message buffers
  task,      \* info.task.msg
  pending,   \* servers whose info.task.type is TASK_TYPE_START
  quit,      \* info.quit_status: servers still to quit first
  threads,   \* the server's own thread and its bit in info.thread_start
  running,   \* the manager's info.thread_start
  early,     \* history: acknowledged MSG_MANAGER_EXIT before quitting
  failed,    \* history: reached STATUS_ERROR
  lost,      \* history: an exit message was dropped
  signals,   \* termination signals so far
  requests   \* client messages so far

vars == <<phase, pc, inbox, task, pending, quit, threads, running, early,
          failed, lost, signals, requests>>

Nodes == Servers \cup {Manager}

(* Only MSG_MANAGER_EXIT has a set of servers in arg_in.cat.               *)
Message ==
  {m \in [type : {"EXIT", "EXIT_ACK", "START", "SIGINT", "OTHER"},
          from : Nodes \cup {Client},
          cat  : SUBSET Servers] : m.type # "EXIT" => m.cat = {}}

Msg(type, from) == [type |-> type, from |-> from, cat |-> {}]

Exit(cat) == [type |-> "EXIT", from |-> Manager, cat |-> cat]

(* The statuses of the exit, in their order. After EXIT_FINISH the loop is *)
(* left, and the answer to the manager is the last act of the thread       *)
(* ("gone"); for the manager "gone" is the exit of the process.            *)
Released == {"EXIT_FINISH", "gone"}
PastThreads == {"EXIT_STAGE2"} \cup Released
PastServers == {"EXIT_STAGE1", "EXIT_THREAD"} \cup PastThreads
Exiting == {"EXIT_INIT", "EXIT_SERVER"} \cup PastServers
Phase == {"off", "created", "NONE", "SETUP", "STARTING", "RUN", "ERROR"}
           \cup Exiting

(* server_*_message refuses while the buffer is not allocated.             *)
Open(n) == phase[n] \notin {"off", "created"} \cup Released

-----------------------------------------------------------------------------
(* msg_buffer_push with msg_overrun = 1: the oldest message makes room.    *)
Push(q, m) == IF Len(q) = Capacity THEN Append(Tail(q), m) ELSE Append(q, m)

Reaches(to, m) == [n \in Nodes |-> IF n \in to /\ Open(n)
                                   THEN Push(inbox[n], m) ELSE inbox[n]]

(* Sending m to the nodes of "to" loses an exit message when it is one and *)
(* a receiver has no buffer yet, or when a full buffer drops one.          *)
IsExit(m) == m.type \in {"EXIT", "EXIT_ACK", "SIGINT"}

Loses(to, m) ==
  \E n \in to :
    \/ phase[n] = "created" /\ IsExit(m)
    \/ Open(n) /\ Len(inbox[n]) = Capacity /\ IsExit(Head(inbox[n]))

Send(to, m) ==
  /\ inbox' = Reaches(to, m)
  /\ lost' = (lost \/ Loses(to, m))

-----------------------------------------------------------------------------
Init ==
  /\ phase = [n \in Nodes |-> IF n = Manager THEN "NONE" ELSE "off"]
  /\ pc = [n \in Nodes |-> "work"]
  /\ inbox = [n \in Nodes |-> <<>>]
  /\ task = [n \in Nodes |-> Msg("OTHER", Manager)]
  /\ pending = {}
  /\ quit = [s \in Servers |-> {}]
  /\ threads = [s \in Servers |-> "none"]
  /\ running = {}
  /\ early = {}
  /\ failed = {}
  /\ lost = FALSE
  /\ signals = 0
  /\ requests = 0

(* server_func up to its loop: the buffer is allocated, then the exit      *)
(* condition is set.                                                       *)
ServerInit(s) ==
  /\ phase[s] = "created"
  /\ phase' = [phase EXCEPT ![s] = "STARTING"]
  /\ quit' = [quit EXCEPT ![s] = WaitsFor[s]]
  /\ UNCHANGED <<pc, inbox, task, pending, threads, running, early, failed,
                 lost, signals, requests>>

(* task_proc with a START task: it is finished when the server runs or has *)
(* failed, and answered to the sender of the last message copied to        *)
(* info.task.msg. MSG_MANAGER_EXIT overwrites that message and leaves the  *)
(* task, so the answer then is MSG_MANAGER_EXIT | 0x1000, that is          *)
(* MSG_MANAGER_EXIT_ACK, to the manager. Answers to clients are left out.  *)
Finishes(s, status) == s \in pending /\ status # "STARTING"
AnswersExit(s, status) == Finishes(s, status) /\ task[s].type = "EXIT"

Answered(s, status) == IF AnswersExit(s, status) THEN {Manager} ELSE {}

(* One call of state_machine that leaves the server in status, followed by *)
(* task_proc; the loop then goes on to server_message_proc. EXIT_FINISH is *)
(* reached by freeing the message buffer with what is still in it.         *)
Work(s, status) ==
  /\ pc[s] = "work"
  /\ phase' = [phase EXCEPT ![s] = status]
  /\ pc' = [pc EXCEPT ![s] = IF status = phase[s] THEN "wait" ELSE "recv"]
  /\ pending' = IF Finishes(s, status) THEN pending \ {s} ELSE pending
  /\ early' = IF AnswersExit(s, status) THEN early \cup {s} ELSE early
  /\ lost' = (lost \/ Loses(Answered(s, status), Msg("EXIT_ACK", s)))
  /\ inbox' = [Reaches(Answered(s, status), Msg("EXIT_ACK", s))
                 EXCEPT ![s] = IF status = "EXIT_FINISH" THEN <<>> ELSE @]
  /\ UNCHANGED <<task, running, signals, requests>>

(* server_init, server_setup, server_start: progress towards STATUS_RUN,   *)
(* which a server with a thread reaches once that thread has registered.   *)
Starting(s) ==
  /\ phase[s] = "STARTING"
  /\ Work(s, "STARTING")
  /\ threads' = [threads EXCEPT ![s] =
                   IF s \in Threaded /\ @ = "none" THEN "created" ELSE @]
  /\ UNCHANGED <<quit, failed>>

Started(s) ==
  /\ phase[s] = "STARTING"
  /\ s \in Threaded => threads[s] = "running"
  /\ Work(s, "RUN")
  /\ UNCHANGED <<quit, threads, failed>>

StartFails(s) ==
  /\ phase[s] = "STARTING"
  /\ s \in MayFail
  /\ Work(s, "ERROR")
  /\ failed' = failed \cup {s}
  /\ UNCHANGED <<quit, threads>>

Run(s) ==
  /\ phase[s] = "RUN"
  /\ Work(s, "RUN")
  /\ UNCHANGED <<quit, threads, failed>>

ErrorExits(s) ==
  /\ phase[s] = "ERROR"
  /\ Work(s, "EXIT_INIT")
  /\ UNCHANGED <<quit, threads, failed>>

(* EXIT_INIT: servers the manager does not list as running need not be     *)
(* waited for; a server that fails on its own waits for nobody.            *)
ExitInit(s) ==
  /\ phase[s] = "EXIT_INIT"
  /\ Work(s, "EXIT_SERVER")
  /\ quit' = [quit EXCEPT ![s] = IF task[s].from = Manager
                                 THEN @ \cap task[s].cat ELSE {}]
  /\ UNCHANGED <<threads, failed>>

(* Faulty: the exit condition is not waited for.                           *)
ExitServerAtOnce(s) ==
  /\ phase[s] = "EXIT_SERVER"
  /\ Work(s, "EXIT_STAGE1")
  /\ UNCHANGED <<quit, threads, failed>>

ExitServer(s) ==
  /\ phase[s] = "EXIT_SERVER"
  /\ Work(s, IF quit[s] = {} THEN "EXIT_STAGE1" ELSE "EXIT_SERVER")
  /\ UNCHANGED <<quit, threads, failed>>

(* EXIT_STAGE1 releases the resources of the server.                       *)
ExitStage1(s) ==
  /\ phase[s] = "EXIT_STAGE1"
  /\ Work(s, "EXIT_THREAD")
  /\ UNCHANGED <<quit, threads, failed>>

(* EXIT_THREAD asks the registered thread to exit and waits for its bit.   *)
ExitThread(s) ==
  /\ phase[s] = "EXIT_THREAD"
  /\ Work(s, IF threads[s] \in {"running", "told", "dead"}
             THEN "EXIT_THREAD" ELSE "EXIT_STAGE2")
  /\ threads' = [threads EXCEPT ![s] = IF @ = "running" THEN "told" ELSE @]
  /\ UNCHANGED <<quit, failed>>

ExitStage2(s) ==
  /\ phase[s] = "EXIT_STAGE2"
  /\ Work(s, "EXIT_FINISH")
  /\ UNCHANGED <<quit, threads, failed>>

(* EXIT_FINISH leaves the loop; server_release_3 clears info and answers   *)
(* the manager.                                                            *)
Leave(s) ==
  /\ phase[s] = "EXIT_FINISH"
  /\ pc[s] = "work"
  /\ phase' = [phase EXCEPT ![s] = "gone"]
  /\ Send({Manager}, Msg("EXIT_ACK", s))
  /\ task' = [task EXCEPT ![s] = Msg("OTHER", Manager)]
  /\ pending' = pending \ {s}
  /\ quit' = [quit EXCEPT ![s] = {}]
  /\ UNCHANGED <<pc, threads, running, early, failed, signals, requests>>

ServerWorks(s) ==
  \/ ServerInit(s) \/ Starting(s) \/ Started(s) \/ StartFails(s)
  \/ Run(s) \/ ErrorExits(s) \/ ExitInit(s) \/ ExitServer(s)
  \/ ExitStage1(s) \/ ExitThread(s) \/ ExitStage2(s) \/ Leave(s)

-----------------------------------------------------------------------------
(* server_message_proc takes one message, or waits for one unless the      *)
(* status has just changed.                                                *)
Pops(n) ==
  /\ pc[n] \in {"recv", "wait"}
  /\ inbox[n] # <<>>
  /\ pc' = [pc EXCEPT ![n] = "work"]

NothingToPop(n) ==
  /\ pc[n] = "recv"
  /\ inbox[n] = <<>>
  /\ pc' = [pc EXCEPT ![n] = "work"]
  /\ UNCHANGED <<phase, inbox, task, pending, quit, threads, running, early,
                 failed, lost, signals, requests>>

ReceiveExit(s, m) ==
  /\ m.type = "EXIT"
  /\ task' = [task EXCEPT ![s] = m]
  /\ phase' = [phase EXCEPT ![s] = "EXIT_INIT"]
  /\ UNCHANGED <<pending, quit>>

ReceiveExitAck(s, m) ==
  /\ m.type = "EXIT_ACK"
  /\ quit' = [quit EXCEPT ![s] = @ \ {m.from}]
  /\ UNCHANGED <<phase, task, pending>>

ReceiveStart(s, m) ==
  /\ m.type = "START"
  /\ s \in Requestable
  /\ task' = [task EXCEPT ![s] = m]
  /\ pending' = pending \cup {s}
  /\ UNCHANGED <<phase, quit>>

ReceiveOther(s, m) ==
  /\ m.type \in {"OTHER", "SIGINT"} \/ (m.type = "START" /\ s \notin Requestable)
  /\ UNCHANGED <<phase, task, pending, quit>>

ServerReceives(s) ==
  /\ Pops(s)
  /\ inbox' = [inbox EXCEPT ![s] = Tail(@)]
  /\ LET m == Head(inbox[s])
     IN  \/ ReceiveExit(s, m) \/ ReceiveExitAck(s, m)
         \/ ReceiveStart(s, m) \/ ReceiveOther(s, m)
  /\ UNCHANGED <<threads, running, early, failed, lost, signals, requests>>

-----------------------------------------------------------------------------
(* The thread of a server (aduio_stream_func in audio.c): it sets its bit  *)
(* and wakes the server, or returns with the bit set when it gets no       *)
(* stream; it ends when told, or on a stream error while not starting; it  *)
(* clears the bit before it wakes the server for the last time.            *)
ThreadIs(s, from, to) ==
  /\ threads[s] = from
  /\ threads' = [threads EXCEPT ![s] = to]
  /\ UNCHANGED <<phase, pc, task, pending, quit, running, early, failed,
                 signals, requests>>

Registers(s) == ThreadIs(s, "created", "running") /\ Send({s}, Msg("OTHER", s))

ReturnsAtOnce(s) ==
  /\ s \in MayFail
  /\ ThreadIs(s, "created", "dead")
  /\ UNCHANGED <<inbox, lost>>

StopsItself(s) ==
  /\ phase[s] # "STARTING"
  /\ ThreadIs(s, "running", "ending")
  /\ UNCHANGED <<inbox, lost>>

StopsAsTold(s) == ThreadIs(s, "told", "ending") /\ UNCHANGED <<inbox, lost>>

(* Faulty: the thread ends without its dummy message.                      *)
EndsSilently(s) == ThreadIs(s, "ending", "ended") /\ UNCHANGED <<inbox, lost>>

Ends(s) == ThreadIs(s, "ending", "ended") /\ Send({s}, Msg("OTHER", s))

-----------------------------------------------------------------------------
(* The manager: one call of its task function that leaves it in status.    *)
ManagerWork(status) ==
  /\ pc[Manager] = "work"
  /\ pc' = [pc EXCEPT ![Manager] = IF status = phase[Manager]
                                   THEN "wait" ELSE "recv"]
  /\ UNCHANGED <<task, pending, quit, threads, early, failed, signals, requests>>

ManagerGoes(from, to) ==
  /\ phase[Manager] = from
  /\ phase' = [phase EXCEPT ![Manager] = to]
  /\ ManagerWork(to)
  /\ UNCHANGED running

(* task_default; STATUS_SETUP starts the servers, the statuses around it   *)
(* only succeed one another.                                               *)
Prepare == ManagerGoes("NONE", "SETUP") /\ UNCHANGED <<inbox, lost>>

StartServers ==
  /\ phase[Manager] = "SETUP"
  /\ phase' = [n \in Nodes |-> IF n = Manager THEN "RUN" ELSE "created"]
  /\ running' = Servers
  /\ ManagerWork("RUN")
  /\ UNCHANGED <<inbox, lost>>

Watch == ManagerGoes("RUN", "RUN") /\ UNCHANGED <<inbox, lost>>

(* task_exit                                                               *)
TellServers ==
  /\ ManagerGoes("EXIT_INIT", "EXIT_SERVER")
  /\ Send(running, Exit(running))

(* Faulty: one server may still be running.                                *)
AllButOneQuit ==
  /\ \A s, t \in running : s = t
  /\ ManagerGoes("EXIT_SERVER", "EXIT_STAGE1")
  /\ UNCHANGED <<inbox, lost>>

AllQuit ==
  /\ running = {}
  /\ ManagerGoes("EXIT_SERVER", "EXIT_STAGE1")
  /\ UNCHANGED <<inbox, lost>>

(* Faulty: answers are not relayed to the other servers.                   *)
KeepAnswer ==
  /\ running # {}
  /\ ManagerGoes("EXIT_SERVER", "EXIT_SERVER")
  /\ UNCHANGED <<inbox, lost>>

(* Faulty: whatever wakes the manager, it tells the servers again.         *)
TellAgain ==
  /\ running # {}
  /\ ManagerGoes("EXIT_SERVER", "EXIT_SERVER")
  /\ IF task[Manager].type = "EXIT_ACK"
     THEN Send(running, Msg("EXIT_ACK", task[Manager].from))
     ELSE Send(running, Exit(running))

RelayAnswer ==
  /\ running # {}
  /\ ManagerGoes("EXIT_SERVER", "EXIT_SERVER")
  /\ IF task[Manager].type = "EXIT_ACK"
     THEN Send(running, Msg("EXIT_ACK", task[Manager].from))
     ELSE UNCHANGED <<inbox, lost>>

ManagerStages ==
  /\ \/ ManagerGoes("EXIT_STAGE1", "EXIT_THREAD")
     \/ running = {} /\ ManagerGoes("EXIT_THREAD", "EXIT_STAGE2")
  /\ UNCHANGED <<inbox, lost>>

ManagerReleases ==
  /\ ManagerGoes("EXIT_STAGE2", "EXIT_FINISH")
  /\ inbox' = [inbox EXCEPT ![Manager] = <<>>]
  /\ UNCHANGED lost

(* EXIT_FINISH, and the call of manager_proc that exits the process.       *)
ProcessExits == ManagerGoes("EXIT_FINISH", "gone") /\ UNCHANGED <<inbox, lost>>

(* The manager copies every message to info.task.msg.                      *)
ManagerSignalled(m) ==
  /\ m.type = "SIGINT"
  /\ phase' = [phase EXCEPT ![Manager] = IF @ \in Exiting THEN @ ELSE "EXIT_INIT"]
  /\ inbox' = [inbox EXCEPT ![Manager] = Tail(@)]
  /\ UNCHANGED running

(* In normal mode the manager sends itself a MSG_MANAGER_TIMER_ADD to      *)
(* restart the server (the timer is dropped before it fires, see timer.c). *)
ManagerAnswered(m) ==
  /\ m.type = "EXIT_ACK"
  /\ running' = running \ {m.from}
  /\ inbox' = [inbox EXCEPT ![Manager] =
                 IF phase[Manager] \in Exiting THEN Tail(@)
                 ELSE Append(Tail(@), Msg("OTHER", Manager))]
  /\ UNCHANGED phase

ManagerOther(m) ==
  /\ m.type \notin {"SIGINT", "EXIT_ACK"}
  /\ inbox' = [inbox EXCEPT ![Manager] = Tail(@)]
  /\ UNCHANGED <<phase, running>>

ManagerReceives ==
  /\ Pops(Manager)
  /\ LET m == Head(inbox[Manager])
     IN  /\ task' = [task EXCEPT ![Manager] = m]
         /\ ManagerSignalled(m) \/ ManagerAnswered(m) \/ ManagerOther(m)
  /\ UNCHANGED <<pending, quit, threads, early, failed, lost, signals, requests>>

-----------------------------------------------------------------------------
(* SIGINT or SIGTERM is delivered to some thread, whose handler sends the  *)
(* manager a SIGINT message; clients send requests and other messages.     *)
Signal ==
  /\ signals < MaxSignals
  /\ signals' = signals + 1
  /\ Send({Manager}, Msg("SIGINT", Manager))
  /\ UNCHANGED <<phase, pc, task, pending, quit, threads, running, early,
                 failed, requests>>

Request(s) ==
  /\ requests < MaxRequests
  /\ requests' = requests + 1
  /\ Open(s)
  /\ \E type \in {"START", "OTHER"} : Send({s}, Msg(type, Client))
  /\ UNCHANGED <<phase, pc, task, pending, quit, threads, running, early,
                 failed, signals>>

ServerStep(s) == ServerWorks(s) \/ ServerReceives(s) \/ NothingToPop(s)

ThreadStep(s) ==
  Registers(s) \/ ReturnsAtOnce(s) \/ StopsAsTold(s) \/ Ends(s)

ManagerStep ==
  \/ Prepare \/ StartServers \/ Watch \/ TellServers \/ AllQuit
  \/ RelayAnswer \/ ManagerStages \/ ManagerReleases \/ ProcessExits
  \/ ManagerReceives \/ NothingToPop(Manager)

Next ==
  /\ phase[Manager] # "gone"
  /\ \/ ManagerStep
     \/ \E s \in Servers :
          ServerStep(s) \/ ThreadStep(s) \/ StopsItself(s) \/ Request(s)
     \/ Signal

(* The threads are scheduled; a thread that is told to exit looks at its   *)
(* bit again. Nothing makes a server start, a signal or a request come.    *)
Fairness ==
  /\ WF_vars(phase[Manager] # "gone" /\ ManagerStep)
  /\ \A s \in Servers :
       /\ WF_vars(phase[Manager] # "gone" /\ ServerStep(s))
       /\ WF_vars(phase[Manager] # "gone" /\ ThreadStep(s))

Spec == Init /\ [][Next]_vars /\ Fairness

-----------------------------------------------------------------------------
(* Type correctness.                                                       *)
TypeOK ==
  /\ phase \in [Nodes -> Phase]
  /\ pc \in [Nodes -> {"work", "recv", "wait"}]
  /\ inbox \in [Nodes -> Seq(Message)]
  /\ task \in [Nodes -> Message]
  /\ pending \subseteq Servers
  /\ quit \in [Servers -> SUBSET Servers]
  /\ threads \in [Servers -> {"none", "created", "running", "told", "dead",
                              "ending", "ended"}]
  /\ running \subseteq Servers
  /\ early \subseteq Servers
  /\ failed \subseteq Servers
  /\ lost \in BOOLEAN
  /\ signals \in 0 .. MaxSignals
  /\ requests \in 0 .. MaxRequests

(* The servers whose MSG_MANAGER_EXIT_ACK has been sent.                   *)
Acknowledged == {s \in Servers : phase[s] = "gone"} \cup early

(* An answer is relayed only for a server that gave it, and the set of     *)
(* running servers in a MSG_MANAGER_EXIT leaves out only such servers.     *)
Truthful(m, acknowledged) ==
  /\ m.type = "EXIT_ACK" => m.from \in acknowledged
  /\ m.type = "EXIT" => m.from = Manager /\ Servers \ m.cat \subseteq acknowledged

(* Whatever is lost, delayed or overtaken on the way, no exit message in a *)
(* buffer or in info.task.msg tells that a server has quit before it has   *)
(* answered.                                                               *)
MessagesAreTruthful ==
  \A n \in Nodes :
    /\ \A i \in DOMAIN inbox[n] : Truthful(inbox[n][i], Acknowledged)
    /\ Truthful(task[n], Acknowledged)

(* A server that was told to exit releases its resources only when every   *)
(* server of its exit condition has answered, whatever the order in which  *)
(* exits, answers and their relays arrive or are lost.                     *)
ReleasesInOrder ==
  \A s \in Servers \ failed :
    phase[s] \in PastServers => WaitsFor[s] \subseteq Acknowledged

(* The process exits only when every server has answered, or none was      *)
(* started.                                                                *)
ExitsWhenAnswered ==
  phase[Manager] \in PastServers =>
    \A s \in Servers : s \in Acknowledged \/ phase[s] = "off"

Tells(q, t) == \E i \in DOMAIN q : q[i].type = "EXIT_ACK" /\ q[i].from = t

(* The answer of t is with the manager, or relayed to s.                   *)
OnItsWay(t, s) ==
  \/ Tells(inbox[Manager], t)
  \/ /\ phase[Manager] = "EXIT_SERVER" /\ pc[Manager] = "work"
     /\ task[Manager].type = "EXIT_ACK" /\ task[Manager].from = t
  \/ Tells(inbox[s], t)

(* As long as no exit message is lost, nobody waits for an answer that has *)
(* been given and will not come: info.task.msg, by which the manager       *)
(* relays one answer at a time, is not overwritten before it has, and an   *)
(* answer that crosses MSG_MANAGER_EXIT is relayed or named in it. (The    *)
(* manager relays nothing to a server that has answered early.)            *)
AnswersReach ==
  ~lost =>
    /\ \A t \in running \cap Acknowledged : Tells(inbox[Manager], t)
    /\ \A s \in Servers \ Acknowledged :
         phase[s] = "EXIT_SERVER" =>
           \A t \in quit[s] \cap Acknowledged : OnItsWay(t, s)

(* A server that waits for its thread in EXIT_THREAD is woken: the thread  *)
(* clears its bit first and sends its dummy message afterwards.            *)
ThreadsLetTheServerGo ==
  \A s \in Servers :
    phase[s] = "EXIT_THREAD" ~>
      phase[s] # "EXIT_THREAD" \/ threads[s] = "dead" \/ phase[Manager] = "gone"

(* manager.c, task_exit: the process leaves EXIT_SERVER when all have quit *)
(* ("//quit all"). Broken: see AnswersExit.                                *)
ExitsWhenAllQuit ==
  phase[Manager] \in PastServers => \A s \in Servers : phase[s] \in {"off", "gone"}

(* Once the manager has begun the exit, the process exits, unless an exit  *)
(* message was lost or a thread returned with its bit set.                 *)
ShutdownCompletes ==
  phase[Manager] = "EXIT_INIT" ~>
    phase[Manager] = "gone" \/ lost \/ \E s \in Servers : threads[s] = "dead"
-----------------------------------------------------------------------------
(* Refinement: what the statuses and answers come to without messages.     *)
Order == INSTANCE ExitOrder
           WITH started <- \E s \in Servers : phase[s] # "off",
                released <- {s \in Servers : phase[s] \in PastServers},
                answered <- Acknowledged,
                over <- phase[Manager] \in PastServers

(* However exits, answers and relays cross each other or are lost, the     *)
(* servers release in the order of the exit conditions, and each once: no  *)
(* server that was told to exit and has begun its release goes back to     *)
(* EXIT_INIT; nobody takes an answer back, and a manager that has gone on  *)
(* does not return to waiting.                                             *)
ImplementsExitOrder == Order!Init /\ [][Order!Next]_(Order!vars)

-----------------------------------------------------------------------------
(* What makes the safety properties inductive.                             *)

(* Servers are started together, and only before any exit.                 *)
StartedTogether ==
  /\ phase[Manager] \in {"NONE", "SETUP"} => \A s \in Servers : phase[s] = "off"
  /\ (\E s \in Servers : phase[s] = "off") => running = {}

(* Before and after its loop a server receives nothing.                    *)
ReceivesInLoop ==
  \A s \in Servers : phase[s] \in {"off", "created", "gone"} => pc[s] = "work"

(* A server enters the exit by MSG_MANAGER_EXIT or by failing.             *)
ToldOrFailed ==
  \A s \in Servers \ failed :
    /\ phase[s] # "ERROR"
    /\ phase[s] = "EXIT_INIT" => pc[s] = "work" /\ task[s].type = "EXIT"

(* A server is struck off info.quit_status and off the manager's           *)
(* info.thread_start only after it has answered.                           *)
StruckOffAnswered ==
  /\ \A s \in Servers \ failed : Open(s) => WaitsFor[s] \ quit[s] \subseteq Acknowledged
  /\ \A s \in Servers \ running : phase[s] = "off" \/ s \in Acknowledged
  /\ phase[Manager] \in PastServers => running = {}

IInv ==
  /\ TypeOK
  /\ MessagesAreTruthful
  /\ StartedTogether
  /\ ReceivesInLoop
  /\ ToldOrFailed
  /\ StruckOffAnswered
  /\ ReleasesInOrder

-----------------------------------------------------------------------------
(* What the refinement needs besides.                                      *)

(* Servers are all started or none is.                                     *)
StartedAllOrNone ==
  (\E s \in Servers : phase[s] = "off") => \A s \in Servers : phase[s] = "off"

NoExit(q) == \A i \in DOMAIN q : q[i].type # "EXIT"
OneExit(q) == \A i, j \in DOMAIN q : q[i].type = "EXIT" /\ q[j].type = "EXIT" => i = j

Told(s) ==
  \/ s \in early
  \/ task[s].type = "EXIT"
  \/ phase[s] \in Exiting /\ s \notin failed

(* The manager has not told the servers to exit yet.                       *)
BeforeExit == (Phase \ Exiting) \cup {"EXIT_INIT"}

(* A server is told to exit once, after the manager has begun its own      *)
(* exit; what has been told is not in its buffer any more.                 *)
ToldOnce ==
  \A s \in Servers :
    /\ OneExit(inbox[s])
    /\ Told(s) => NoExit(inbox[s])
    /\ phase[Manager] \in BeforeExit => ~Told(s) /\ NoExit(inbox[s])

(* A START task that MSG_MANAGER_EXIT has overwritten is answered by the   *)
(* next call of the server's state machine, not later in its exit.         *)
OverwrittenStart ==
  \A s \in pending : task[s].type = "EXIT" => phase[s] = "EXIT_INIT"

OrderInv == IInv /\ StartedAllOrNone /\ ToldOnce /\ OverwrittenStart

-----------------------------------------------------------------------------
(* What the answers need besides.                                          *)

(* t has quit for s as soon as s has taken what is in its buffer.          *)
Spares(q, t) == \E i \in DOMAIN q : q[i].type = "EXIT" /\ t \notin q[i].cat

Coming(t, s) ==
  \/ OnItsWay(t, s)
  \/ Spares(inbox[s], t)
  \/ /\ phase[s] = "EXIT_INIT" /\ pc[s] = "work"
     /\ task[s].type = "EXIT" /\ t \notin task[s].cat

(* Every server that runs was there to be told, and nothing it waits for   *)
(* has gone by unnoticed.                                                  *)
AnswersCome ==
  ~lost =>
    /\ \A t \in running \cap Acknowledged : Tells(inbox[Manager], t)
    /\ phase[Manager] \notin BeforeExit =>
         \A s \in running \ Acknowledged :
           /\ phase[s] # "created"
           /\ \A t \in quit[s] \cap Acknowledged : Coming(t, s)

(* A server waits for others only while it is told to, and does not any    *)
(* more when it has gone on.                                               *)
WaitsAsTold ==
  \A s \in Servers :
    /\ phase[s] \in PastServers => quit[s] = {}
    /\ phase[s] = "EXIT_SERVER" /\ quit[s] # {} =>
         NoExit(inbox[s]) /\ phase[Manager] \notin BeforeExit

ManagerListens == phase[Manager] \notin {"off", "created"}

AnswerInv == OrderInv /\ AnswersCome /\ WaitsAsTold /\ ManagerListens
=============================================================================
