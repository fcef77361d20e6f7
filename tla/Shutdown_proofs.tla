--------------------------- MODULE Shutdown_proofs --------------------------
(***************************************************************************)
(* The safety of the shutdown protocol for every set of servers, every     *)
(* exit condition, every buffer size and any number of signals and         *)
(* requests. The inductive invariant is IInv of module Shutdown; OrderInv  *)
(* extends it for the refinement of ExitOrder, and AnswerInv extends that  *)
(* for AnswersReach. SleepersAreWoken is inductive with types alone.       *)
(***************************************************************************)
EXTENDS Shutdown, SequenceTheorems, TLAPS

(* Sequences: an element of a pushed or popped buffer was in the buffer,   *)
(* or is the message pushed.                                               *)
LEMMA AppendElements ==
  ASSUME NEW q \in Seq(Message), NEW m \in Message
  PROVE  /\ Append(q, m) \in Seq(Message)
         /\ \A i \in DOMAIN Append(q, m) :
              Append(q, m)[i] = m \/ \E j \in DOMAIN q : Append(q, m)[i] = q[j]
<1>1. /\ Append(q, m) \in Seq(Message)
      /\ Len(Append(q, m)) = Len(q) + 1
      /\ \A i \in 1 .. Len(q) : Append(q, m)[i] = q[i]
      /\ Append(q, m)[Len(q) + 1] = m
  BY AppendProperties
<1>2. DOMAIN Append(q, m) = 1 .. Len(q) + 1 /\ DOMAIN q = 1 .. Len(q) /\ Len(q) \in Nat
  BY <1>1, LenProperties
<1>3. ASSUME NEW i \in 1 .. Len(q) + 1
      PROVE  i \in 1 .. Len(q) \/ i = Len(q) + 1
  BY <1>2
<1> QED
  BY <1>1, <1>2, <1>3

LEMMA TailElements ==
  ASSUME NEW q \in Seq(Message), q # <<>>
  PROVE  /\ Tail(q) \in Seq(Message)
         /\ Head(q) \in Message
         /\ Head(q) = q[1] /\ 1 \in DOMAIN q
         /\ \A i \in DOMAIN Tail(q) : \E j \in DOMAIN q : Tail(q)[i] = q[j]
<1>1. Tail(q) \in Seq(Message) /\ Len(Tail(q)) = Len(q) - 1 /\ Len(q) >= 1
  OBVIOUS
<1>2. \A i \in 1 .. Len(q) - 1 : Tail(q)[i] = q[i + 1] /\ i + 1 \in 1 .. Len(q)
  OBVIOUS
<1> QED
  BY <1>1, <1>2

LEMMA PushElements ==
  ASSUME NEW q \in Seq(Message), NEW m \in Message
  PROVE  /\ Push(q, m) \in Seq(Message)
         /\ \A i \in DOMAIN Push(q, m) :
              Push(q, m)[i] = m \/ \E j \in DOMAIN q : Push(q, m)[i] = q[j]
<1>1. CASE Len(q) = Capacity
  <2>1. q # <<>>
    BY <1>1, BoundsAssumption
  <2>2. Tail(q) \in Seq(Message)
        /\ \A i \in DOMAIN Tail(q) : \E j \in DOMAIN q : Tail(q)[i] = q[j]
    BY <2>1, TailElements
  <2>3. /\ Append(Tail(q), m) \in Seq(Message)
        /\ \A i \in DOMAIN Append(Tail(q), m) :
             \/ Append(Tail(q), m)[i] = m
             \/ \E j \in DOMAIN Tail(q) : Append(Tail(q), m)[i] = Tail(q)[j]
    BY <2>2, AppendElements
  <2>4. Push(q, m) = Append(Tail(q), m)
    BY <1>1 DEF Push
  <2>5. \A i \in DOMAIN Append(Tail(q), m) :
          Append(Tail(q), m)[i] = m \/ \E j \in DOMAIN q : Append(Tail(q), m)[i] = q[j]
    BY <2>2, <2>3, Zenon
  <2> QED
    BY <2>3, <2>4, <2>5, Zenon
<1>2. CASE Len(q) # Capacity
  <2>1. Push(q, m) = Append(q, m)
    BY <1>2 DEF Push
  <2>2. /\ Append(q, m) \in Seq(Message)
        /\ \A i \in DOMAIN Append(q, m) :
             Append(q, m)[i] = m \/ \E j \in DOMAIN q : Append(q, m)[i] = q[j]
    BY AppendElements
  <2> QED
    BY <2>1, <2>2, Zenon
<1> QED
  BY <1>1, <1>2

(* Messages are well formed.                                               *)
LEMMA MsgTypes ==
  /\ \A s \in Servers : Msg("EXIT_ACK", s) \in Message
                        /\ Msg("OTHER", s) \in Message
  /\ Msg("OTHER", Manager) \in Message
  /\ Msg("SIGINT", Manager) \in Message
  /\ \A type \in {"START", "OTHER"} : Msg(type, Client) \in Message
  /\ \A cat \in SUBSET Servers : Exit(cat) \in Message
BY DEF Msg, Exit, Message, Nodes

(* The more servers have answered, the more is true.                       *)
LEMMA TruthIsMonotone ==
  ASSUME NEW m, NEW A, NEW B, A \subseteq B, Truthful(m, A)
  PROVE  Truthful(m, B)
BY DEF Truthful

(* Buffers in which every message is truthful.                             *)
TrueBuffers(boxes, acknowledged) ==
  /\ boxes \in [Nodes -> Seq(Message)]
  /\ \A n \in Nodes : \A i \in DOMAIN boxes[n] : Truthful(boxes[n][i], acknowledged)

(* Sending a truthful message keeps the buffers so.                        *)
LEMMA ReachesKeepsTruth ==
  ASSUME TypeOK, MessagesAreTruthful, NEW to, NEW m \in Message, NEW A,
         Acknowledged \subseteq A, to # {} => Truthful(m, A)
  PROVE  TrueBuffers(Reaches(to, m), A)
<1>1. inbox \in [Nodes -> Seq(Message)]
  BY DEF TypeOK
<1>2. ASSUME NEW n \in Nodes
      PROVE  /\ Reaches(to, m)[n] \in Seq(Message)
             /\ \A i \in DOMAIN Reaches(to, m)[n] : Truthful(Reaches(to, m)[n][i], A)
  <2>1. inbox[n] \in Seq(Message)
    BY <1>1
  <2>2. \A i \in DOMAIN inbox[n] : Truthful(inbox[n][i], A)
    BY TruthIsMonotone DEF MessagesAreTruthful
  <2>3. CASE n \in to /\ Open(n)
    <3>1. Reaches(to, m)[n] = Push(inbox[n], m)
      BY <2>3 DEF Reaches
    <3>2. Truthful(m, A)
      BY <2>3
    <3>3. /\ Push(inbox[n], m) \in Seq(Message)
          /\ \A i \in DOMAIN Push(inbox[n], m) :
               \/ Push(inbox[n], m)[i] = m
               \/ \E j \in DOMAIN inbox[n] : Push(inbox[n], m)[i] = inbox[n][j]
      BY <2>1, PushElements
    <3> QED
      BY <3>1, <3>2, <3>3, <2>2, Zenon
  <2>4. CASE ~(n \in to /\ Open(n))
    <3>1. Reaches(to, m)[n] = inbox[n]
      BY <2>4 DEF Reaches
    <3> QED
      BY <3>1, <2>1, <2>2
  <2> QED
    BY <2>3, <2>4
<1>3. Reaches(to, m) = [n \in Nodes |-> Reaches(to, m)[n]]
  BY DEF Reaches
<1> QED
  BY <1>2, <1>3 DEF TrueBuffers

(* Emptying a buffer, and popping its first message, keep them so.         *)
LEMMA ChangeOfOneBuffer ==
  ASSUME NEW boxes, NEW A, TrueBuffers(boxes, A), NEW n \in Nodes,
         NEW q \in Seq(Message), \A i \in DOMAIN q : Truthful(q[i], A)
  PROVE  TrueBuffers([boxes EXCEPT ![n] = q], A)
BY DEF TrueBuffers

-----------------------------------------------------------------------------
(* The invariant, regrouped by the node it is about.                       *)
ServerOK(s) ==
  /\ phase[s] \in {"off", "created", "gone"} => pc[s] = "work"
  /\ s \notin failed =>
       /\ phase[s] # "ERROR"
       /\ phase[s] = "EXIT_INIT" => pc[s] = "work" /\ task[s].type = "EXIT"
       /\ Open(s) => WaitsFor[s] \ quit[s] \subseteq Acknowledged
       /\ phase[s] \in PastServers => WaitsFor[s] \subseteq Acknowledged

ManagerOK ==
  /\ StartedTogether
  /\ \A s \in Servers \ running : phase[s] = "off" \/ s \in Acknowledged
  /\ phase[Manager] \in PastServers => running = {}

LEMMA Regrouped ==
  IInv <=> /\ TypeOK
           /\ MessagesAreTruthful
           /\ ManagerOK
           /\ \A s \in Servers : ServerOK(s)
BY DEF IInv, ManagerOK, ServerOK, ReceivesInLoop, ToldOrFailed, StruckOffAnswered, ReleasesInOrder

LEMMA RegroupedNext ==
  ASSUME TypeOK', MessagesAreTruthful', ManagerOK', \A s \in Servers : ServerOK(s)'
  PROVE  IInv'
BY DEF IInv, ManagerOK, ServerOK, ReceivesInLoop, ToldOrFailed, StruckOffAnswered, ReleasesInOrder

(* A server nobody touches stays as it is, whoever else answers.           *)
LEMMA ServerUndisturbed ==
  ASSUME NEW s \in Servers, ServerOK(s),
         Acknowledged \subseteq Acknowledged', failed \subseteq failed',
         phase'[s] = phase[s], pc'[s] = pc[s], task'[s] = task[s], quit'[s] = quit[s]
  PROVE  ServerOK(s)'
BY DEF ServerOK, Open

LEMMA ManagerUndisturbed ==
  ASSUME ManagerOK, Acknowledged \subseteq Acknowledged', running' = running,
         phase'[Manager] = phase[Manager],
         \A s \in Servers : phase'[s] = "off" <=> phase[s] = "off"
  PROVE  ManagerOK'
BY DEF ManagerOK, StartedTogether

(* Truthful messages, from buffers and last messages that are.             *)
LEMMA MessagesStayTruthful ==
  ASSUME TrueBuffers(inbox', Acknowledged'),
         \A n \in Nodes : Truthful(task'[n], Acknowledged')
  PROVE  MessagesAreTruthful'
BY DEF TrueBuffers, MessagesAreTruthful

LEMMA TasksStayTruthful ==
  ASSUME MessagesAreTruthful, Acknowledged \subseteq Acknowledged'
  PROVE  \A n \in Nodes : Truthful(task[n], Acknowledged')
BY TruthIsMonotone DEF MessagesAreTruthful

LEMMA BuffersStayTruthful ==
  ASSUME TypeOK, MessagesAreTruthful, Acknowledged \subseteq Acknowledged'
  PROVE  TrueBuffers(inbox, Acknowledged')
BY TruthIsMonotone DEF MessagesAreTruthful, TrueBuffers, TypeOK

-----------------------------------------------------------------------------
(* One call of state_machine and task_proc.                                *)
Loop == Phase \ {"off", "created", "NONE", "SETUP", "gone"}

LEMMA Phases ==
  /\ Loop = {"STARTING", "RUN", "ERROR", "EXIT_INIT", "EXIT_SERVER", "EXIT_STAGE1",
             "EXIT_THREAD", "EXIT_STAGE2", "EXIT_FINISH"}
  /\ PastServers = {"EXIT_STAGE1", "EXIT_THREAD", "EXIT_STAGE2", "EXIT_FINISH", "gone"}
BY DEF Loop, Phase, Exiting, PastServers, PastThreads, Released

LEMMA WorkAcknowledges ==
  ASSUME IInv, NEW s \in Servers, NEW status \in Loop, Open(s), Work(s, status)
  PROVE  /\ Acknowledged \subseteq Acknowledged'
         /\ Answered(s, status) # {} => s \in Acknowledged'
BY DEF IInv, TypeOK, Work, Open, Acknowledged, Released, Answered

LEMMA WorkKeepsTypes ==
  ASSUME IInv, NEW s \in Servers, NEW status \in Loop, Open(s), Work(s, status),
         quit' \in [Servers -> SUBSET Servers],
         threads' \in [Servers -> {"none", "created", "running", "told", "dead",
                                  "ending", "ended"}],
         failed' \subseteq Servers
  PROVE  TypeOK' /\ MessagesAreTruthful'
<1> DEFINE A == Acknowledged'
           boxes == Reaches(Answered(s, status), Msg("EXIT_ACK", s))
           own == IF status = "EXIT_FINISH" THEN <<>> ELSE boxes[s]
<1>1. Acknowledged \subseteq A /\ (Answered(s, status) # {} => s \in A)
  BY WorkAcknowledges
<1>2. Answered(s, status) # {} => Truthful(Msg("EXIT_ACK", s), A)
  BY <1>1 DEF Truthful, Msg
<1>3. TypeOK /\ MessagesAreTruthful /\ s \in Nodes
  BY DEF IInv, Nodes
<1>4. TrueBuffers(boxes, A)
  BY <1>1, <1>2, <1>3, MsgTypes, ReachesKeepsTruth
<1>5. own \in Seq(Message) /\ \A i \in DOMAIN own : Truthful(own[i], A)
  <2>1. CASE status = "EXIT_FINISH"
    BY <2>1
  <2>2. CASE status # "EXIT_FINISH"
    BY <2>2, <1>3, <1>4 DEF TrueBuffers
  <2> QED
    BY <2>1, <2>2
<1>6. inbox' = [boxes EXCEPT ![s] = own]
  BY DEF Work
<1>7. TrueBuffers(inbox', A)
  <2> HIDE DEF boxes, own
  <2> QED
    BY <1>3, <1>4, <1>5, <1>6, ChangeOfOneBuffer
<1>8. task' = task /\ \A n \in Nodes : Truthful(task'[n], A)
  BY <1>1, <1>3, TasksStayTruthful DEF Work
<1>9. MessagesAreTruthful'
  BY <1>7, <1>8, MessagesStayTruthful
<1>10. TypeOK'
  <2>1. inbox' \in [Nodes -> Seq(Message)]
    BY <1>7 DEF TrueBuffers
  <2>2. lost' \in BOOLEAN
    BY <1>3, Zenon DEF Work, TypeOK
  <2>3. /\ phase' \in [Nodes -> Phase]
        /\ pc' \in [Nodes -> {"work", "recv", "wait"}]
    BY <1>3 DEF Work, TypeOK, Loop
  <2>4. pending' \subseteq Servers /\ early' \subseteq Servers
    BY <1>3 DEF Work, TypeOK
  <2> QED
    BY <1>3, <2>1, <2>2, <2>3, <2>4 DEF Work, TypeOK
<1> QED
  BY <1>9, <1>10

(* The rest of the invariant: only server s is touched, and it is well.    *)
LEMMA WorkIInv ==
  ASSUME IInv, NEW s \in Servers, NEW status \in Loop, Open(s), Work(s, status),
         quit' \in [Servers -> SUBSET Servers],
         threads' \in [Servers -> {"none", "created", "running", "told", "dead",
                                  "ending", "ended"}],
         failed \subseteq failed', failed' \subseteq Servers,
         \A t \in Servers \ {s} : quit'[t] = quit[t],
         s \notin failed' =>
           /\ status \notin {"ERROR", "EXIT_INIT"}
           /\ WaitsFor[s] \ quit'[s] \subseteq Acknowledged
           /\ status \in PastServers => WaitsFor[s] \subseteq Acknowledged
  PROVE  IInv'
<1>1. TypeOK' /\ MessagesAreTruthful'
  BY WorkKeepsTypes
<1>2. Acknowledged \subseteq Acknowledged'
  BY WorkAcknowledges
<1>3. TypeOK /\ ManagerOK /\ \A t \in Servers : ServerOK(t)
  BY Regrouped
<1>4. s \in Nodes /\ Manager \in Nodes /\ s # Manager
  BY ServersAssumption DEF Nodes
<1>5. phase'[s] = status /\ \A n \in Nodes \ {s} : phase'[n] = phase[n] /\ pc'[n] = pc[n]
  BY <1>3, <1>4 DEF Work, TypeOK
<1>6. ServerOK(s)'
  BY <1>2, <1>5, Phases DEF ServerOK
<1>7. ASSUME NEW t \in Servers \ {s}
      PROVE  ServerOK(t)'
  <2>1. phase'[t] = phase[t] /\ pc'[t] = pc[t]
    BY <1>5 DEF Nodes
  <2>2. quit'[t] = quit[t] /\ task'[t] = task[t]
    BY DEF Work
  <2> QED
    BY <1>2, <1>3, <2>1, <2>2, ServerUndisturbed
<1>8. ManagerOK'
  <2>1. running' = running /\ phase'[Manager] = phase[Manager]
    BY <1>4, <1>5 DEF Work
  <2>2. \A t \in Servers : phase'[t] = "off" <=> phase[t] = "off"
    BY <1>5 DEF Open, Loop, Nodes
  <2> QED
    BY <1>2, <1>3, <2>1, <2>2, ManagerUndisturbed
<1>9. \A t \in Servers : ServerOK(t)'
  BY <1>6, <1>7
<1> QED
  BY <1>1, <1>8, <1>9, RegroupedNext

(* What the invariant says of the server that works.                       *)
LEMMA OpenServer ==
  ASSUME IInv, NEW s \in Servers, Open(s)
  PROVE  /\ TypeOK
         /\ s \notin failed => WaitsFor[s] \ quit[s] \subseteq Acknowledged
         /\ s \notin failed /\ phase[s] \in PastServers => WaitsFor[s] \subseteq Acknowledged
BY Regrouped DEF ServerOK

LEMMA StartIInv ==
  ASSUME IInv, NEW s \in Servers,
         Starting(s) \/ Started(s) \/ StartFails(s) \/ Run(s) \/ ErrorExits(s)
  PROVE  IInv'
<1>1. CASE Starting(s)
  <2>1. Open(s)
    BY <1>1 DEF Starting, Open, Released
  <2>2. threads' \in [Servers -> {"none", "created", "running", "told", "dead",
                                 "ending", "ended"}]
    BY <1>1, <2>1, OpenServer DEF Starting, TypeOK
  <2> QED
    BY <1>1, <2>1, <2>2, OpenServer, WorkIInv, Phases DEF Starting, TypeOK
<1>2. CASE Started(s)
  <2>1. Open(s)
    BY <1>2 DEF Started, Open, Released
  <2> QED
    BY <1>2, <2>1, OpenServer, WorkIInv, Phases DEF Started, TypeOK
<1>3. CASE StartFails(s)
  <2>1. Open(s)
    BY <1>3 DEF StartFails, Open, Released
  <2> QED
    BY <1>3, <2>1, OpenServer, WorkIInv, Phases DEF StartFails, TypeOK
<1>4. CASE Run(s)
  <2>1. Open(s)
    BY <1>4 DEF Run, Open, Released
  <2> QED
    BY <1>4, <2>1, OpenServer, WorkIInv, Phases DEF Run, TypeOK
<1>5. CASE ErrorExits(s)
  <2>1. Open(s)
    BY <1>5 DEF ErrorExits, Open, Released
  <2>2. s \in failed
    BY <1>5, Regrouped DEF ErrorExits, ServerOK
  <2> QED
    BY <1>5, <2>1, <2>2, OpenServer, WorkIInv, Phases DEF ErrorExits, TypeOK
<1> QED
  BY <1>1, <1>2, <1>3, <1>4, <1>5

(* EXIT_INIT: the set of running servers is right when the server was told *)
(* by the manager.                                                         *)
LEMMA ExitInitIInv ==
  ASSUME IInv, NEW s \in Servers, ExitInit(s)
  PROVE  IInv'
<1>1. Open(s)
  BY DEF ExitInit, Open, Released
<1>2. TypeOK /\ MessagesAreTruthful /\ ServerOK(s) /\ s \in Nodes
  BY Regrouped DEF Nodes
<1>3. quit' \in [Servers -> SUBSET Servers] /\ \A t \in Servers \ {s} : quit'[t] = quit[t]
  BY <1>2 DEF ExitInit, TypeOK
<1>4. ASSUME s \notin failed
      PROVE  WaitsFor[s] \ quit'[s] \subseteq Acknowledged
  <2>1. task[s].type = "EXIT" /\ Truthful(task[s], Acknowledged)
    BY <1>2, <1>4 DEF ServerOK, ExitInit, MessagesAreTruthful
  <2>2. task[s].from = Manager /\ Servers \ task[s].cat \subseteq Acknowledged
    BY <2>1 DEF Truthful
  <2>3. quit'[s] = quit[s] \cap task[s].cat
    BY <1>2, <2>2 DEF ExitInit, TypeOK
  <2>4. WaitsFor[s] \subseteq Servers
    BY ServersAssumption
  <2> QED
    BY <1>1, <1>4, <2>2, <2>3, <2>4, OpenServer
<1> QED
  BY <1>1, <1>2, <1>3, <1>4, WorkIInv, Phases DEF ExitInit, TypeOK

LEMMA ExitServerIInv ==
  ASSUME IInv, NEW s \in Servers, ExitServer(s)
  PROVE  IInv'
<1>1. Open(s)
  BY DEF ExitServer, Open, Released
<1>2. PICK status \in {"EXIT_STAGE1", "EXIT_SERVER"} :
        status = IF quit[s] = {} THEN "EXIT_STAGE1" ELSE "EXIT_SERVER"
  OBVIOUS
<1>3. Work(s, status)
  BY <1>2 DEF ExitServer
<1>4. s \notin failed /\ status = "EXIT_STAGE1" => WaitsFor[s] \subseteq Acknowledged
  BY <1>1, <1>2, OpenServer
<1> QED
  BY <1>1, <1>3, <1>4, OpenServer, WorkIInv, Phases DEF ExitServer, TypeOK

LEMMA StagesIInv ==
  ASSUME IInv, NEW s \in Servers, ExitStage1(s) \/ ExitThread(s) \/ ExitStage2(s)
  PROVE  IInv'
<1>1. CASE ExitStage1(s)
  <2>1. Open(s)
    BY <1>1 DEF ExitStage1, Open, Released
  <2> QED
    BY <1>1, <2>1, OpenServer, WorkIInv, Phases DEF ExitStage1, TypeOK
<1>2. CASE ExitThread(s)
  <2>1. Open(s)
    BY <1>2 DEF ExitThread, Open, Released
  <2>2. PICK status \in {"EXIT_THREAD", "EXIT_STAGE2"} : Work(s, status)
    BY <1>2 DEF ExitThread
  <2>3. threads' \in [Servers -> {"none", "created", "running", "told", "dead",
                                 "ending", "ended"}]
    BY <1>2, <2>1, OpenServer DEF ExitThread, TypeOK
  <2> QED
    BY <1>2, <2>1, <2>2, <2>3, OpenServer, WorkIInv, Phases DEF ExitThread, TypeOK
<1>3. CASE ExitStage2(s)
  <2>1. Open(s)
    BY <1>3 DEF ExitStage2, Open, Released
  <2> QED
    BY <1>3, <2>1, OpenServer, WorkIInv, Phases DEF ExitStage2, TypeOK
<1> QED
  BY <1>1, <1>2, <1>3

-----------------------------------------------------------------------------
(* Taking a message: what it says is true, and the others stay true.       *)
LEMMA PopKeepsTruth ==
  ASSUME TypeOK, MessagesAreTruthful, NEW n \in Nodes, inbox[n] # <<>>
  PROVE  /\ TrueBuffers([inbox EXCEPT ![n] = Tail(inbox[n])], Acknowledged)
         /\ Tail(inbox[n]) \in Seq(Message)
         /\ \A i \in DOMAIN Tail(inbox[n]) : Truthful(Tail(inbox[n])[i], Acknowledged)
         /\ Head(inbox[n]) \in Message
         /\ Truthful(Head(inbox[n]), Acknowledged)
<1>1. inbox[n] \in Seq(Message) /\ TrueBuffers(inbox, Acknowledged)
  BY DEF TypeOK, MessagesAreTruthful, TrueBuffers
<1>2. \A i \in DOMAIN inbox[n] : Truthful(inbox[n][i], Acknowledged)
  BY DEF MessagesAreTruthful
<1>3. /\ Tail(inbox[n]) \in Seq(Message)
      /\ Head(inbox[n]) \in Message
      /\ Head(inbox[n]) = inbox[n][1] /\ 1 \in DOMAIN inbox[n]
      /\ \A i \in DOMAIN Tail(inbox[n]) :
           \E j \in DOMAIN inbox[n] : Tail(inbox[n])[i] = inbox[n][j]
  BY <1>1, TailElements
<1>4. \A i \in DOMAIN Tail(inbox[n]) : Truthful(Tail(inbox[n])[i], Acknowledged)
  BY <1>2, <1>3
<1>5. Truthful(Head(inbox[n]), Acknowledged)
  BY <1>2, <1>3
<1> QED
  BY <1>1, <1>3, <1>4, <1>5, ChangeOfOneBuffer

(* Steps that change no status, no task and no set of servers.             *)
LEMMA QuietIInv ==
  ASSUME IInv, TrueBuffers(inbox', Acknowledged),
         UNCHANGED <<phase, task, pending, quit, running, early, failed>>,
         pc' \in [Nodes -> {"work", "recv", "wait"}],
         \A s \in Servers : pc'[s] \in {pc[s], "work"},
         threads' \in [Servers -> {"none", "created", "running", "told", "dead",
                                  "ending", "ended"}],
         lost' \in BOOLEAN, signals' \in 0 .. MaxSignals, requests' \in 0 .. MaxRequests
  PROVE  IInv'
<1>1. TypeOK /\ MessagesAreTruthful /\ ManagerOK /\ \A s \in Servers : ServerOK(s)
  BY Regrouped
<1>2. Acknowledged' = Acknowledged
  BY DEF Acknowledged
<1>3. TypeOK'
  BY <1>1 DEF TypeOK, TrueBuffers
<1>4. MessagesAreTruthful'
  BY <1>1, <1>2, MessagesStayTruthful DEF MessagesAreTruthful
<1>5. ManagerOK'
  BY <1>1, <1>2, ManagerUndisturbed
<1>6. ASSUME NEW s \in Servers
      PROVE  ServerOK(s)'
  BY <1>1, <1>2 DEF ServerOK, Open
<1> QED
  BY <1>3, <1>4, <1>5, <1>6, RegroupedNext

-----------------------------------------------------------------------------
(* The first and the last act of a server's thread.                        *)
LEMMA ServerInitIInv ==
  ASSUME IInv, NEW s \in Servers, ServerInit(s)
  PROVE  IInv'
<1>1. TypeOK /\ MessagesAreTruthful /\ ManagerOK /\ \A t \in Servers : ServerOK(t)
  BY Regrouped
<1>2. s \in Nodes /\ Manager \in Nodes /\ s # Manager
  BY ServersAssumption DEF Nodes
<1>3. phase'[s] = "STARTING" /\ \A n \in Nodes \ {s} : phase'[n] = phase[n]
  BY <1>1, <1>2 DEF ServerInit, TypeOK
<1>4. quit'[s] = WaitsFor[s] /\ \A t \in Servers \ {s} : quit'[t] = quit[t]
  BY <1>1 DEF ServerInit, TypeOK
<1>5. Acknowledged \subseteq Acknowledged'
  BY <1>3 DEF ServerInit, Acknowledged, Nodes
<1>6. TypeOK'
  BY <1>1, ServersAssumption DEF ServerInit, TypeOK, Phase
<1>7. MessagesAreTruthful'
  BY <1>1, <1>5, BuffersStayTruthful, TasksStayTruthful, MessagesStayTruthful DEF ServerInit
<1>8. ManagerOK'
  <2>1. running' = running /\ phase'[Manager] = phase[Manager]
    BY <1>2, <1>3 DEF ServerInit
  <2>2. \A t \in Servers : phase'[t] = "off" <=> phase[t] = "off"
    BY <1>3 DEF ServerInit, Nodes
  <2> QED
    BY <1>1, <1>5, <2>1, <2>2, ManagerUndisturbed
<1>9. ServerOK(s)'
  BY <1>3, <1>4, Phases DEF ServerOK
<1>10. ASSUME NEW t \in Servers \ {s}
       PROVE  ServerOK(t)'
  <2>1. phase'[t] = phase[t] /\ quit'[t] = quit[t] /\ pc' = pc /\ task' = task /\ failed' = failed
    BY <1>3, <1>4 DEF Nodes, ServerInit
  <2> QED
    BY <1>1, <1>5, <2>1, ServerUndisturbed
<1>11. \A t \in Servers : ServerOK(t)'
  BY <1>9, <1>10
<1> QED
  BY <1>6, <1>7, <1>8, <1>11, RegroupedNext

LEMMA LeaveIInv ==
  ASSUME IInv, NEW s \in Servers, Leave(s)
  PROVE  IInv'
<1>1. TypeOK /\ MessagesAreTruthful /\ ManagerOK /\ \A t \in Servers : ServerOK(t)
  BY Regrouped
<1>2. s \in Nodes /\ Manager \in Nodes /\ s # Manager
  BY ServersAssumption DEF Nodes
<1>3. phase'[s] = "gone" /\ \A n \in Nodes \ {s} : phase'[n] = phase[n]
  BY <1>1, <1>2 DEF Leave, TypeOK
<1>4. Acknowledged \subseteq Acknowledged' /\ s \in Acknowledged'
  BY <1>3 DEF Leave, Acknowledged, Nodes
<1>5. Truthful(Msg("EXIT_ACK", s), Acknowledged')
  BY <1>4 DEF Truthful, Msg
<1>6. TrueBuffers(inbox', Acknowledged')
  BY <1>1, <1>4, <1>5, MsgTypes, ReachesKeepsTruth DEF Leave, Send
<1>7. \A n \in Nodes : Truthful(task'[n], Acknowledged')
  <2>1. Truthful(Msg("OTHER", Manager), Acknowledged')
    BY DEF Truthful, Msg
  <2> QED
    BY <1>1, <1>2, <1>4, <2>1, TasksStayTruthful DEF Leave, TypeOK
<1>8. TypeOK'
  <2>1. inbox' \in [Nodes -> Seq(Message)]
    BY <1>6 DEF TrueBuffers
  <2>2. lost' \in BOOLEAN
    BY <1>1, Zenon DEF Leave, Send, TypeOK
  <2>3. phase' \in [Nodes -> Phase]
    BY <1>1 DEF Leave, TypeOK, Phase, Exiting, PastServers, PastThreads, Released
  <2>4. task' \in [Nodes -> Message]
    BY <1>1, MsgTypes DEF Leave, TypeOK
  <2> QED
    BY <1>1, <2>1, <2>2, <2>3, <2>4 DEF Leave, TypeOK
<1>9. ManagerOK'
  <2>1. running' = running /\ phase'[Manager] = phase[Manager]
    BY <1>2, <1>3 DEF Leave
  <2>2. \A t \in Servers : phase'[t] = "off" <=> phase[t] = "off"
    BY <1>3 DEF Leave, Nodes
  <2> QED
    BY <1>1, <1>4, <2>1, <2>2, ManagerUndisturbed
<1>10. ServerOK(s)'
  <2>1. pc'[s] = "work"
    BY DEF Leave
  <2>2. s \notin failed' => WaitsFor[s] \subseteq Acknowledged'
    BY <1>1, <1>4, Phases DEF Leave, ServerOK
  <2> QED
    BY <1>3, <2>1, <2>2 DEF ServerOK
<1>11. ASSUME NEW t \in Servers \ {s}
       PROVE  ServerOK(t)'
  <2>1. phase'[t] = phase[t] /\ quit'[t] = quit[t] /\ task'[t] = task[t]
    BY <1>1, <1>3 DEF Nodes, Leave, TypeOK
  <2>2. pc' = pc /\ failed' = failed
    BY DEF Leave
  <2> QED
    BY <1>1, <1>4, <2>1, <2>2, ServerUndisturbed
<1>12. \A t \in Servers : ServerOK(t)'
  BY <1>10, <1>11
<1> QED
  BY <1>6, <1>7, <1>8, <1>9, <1>12, MessagesStayTruthful, RegroupedNext

-----------------------------------------------------------------------------
(* A server takes a message.                                               *)
LEMMA ServerReceivesIInv ==
  ASSUME IInv, NEW s \in Servers, ServerReceives(s)
  PROVE  IInv'
<1> DEFINE m == Head(inbox[s])
<1>1. TypeOK /\ MessagesAreTruthful /\ ManagerOK /\ \A t \in Servers : ServerOK(t)
  BY Regrouped
<1>2. s \in Nodes /\ Manager \in Nodes /\ s # Manager
  BY ServersAssumption DEF Nodes
<1>3. inbox[s] # <<>> /\ pc[s] # "work" /\ pc' = [pc EXCEPT ![s] = "work"]
  BY DEF ServerReceives, Pops
<1>4. /\ TrueBuffers(inbox', Acknowledged)
      /\ m \in Message
      /\ Truthful(m, Acknowledged)
  BY <1>1, <1>2, <1>3, PopKeepsTruth DEF ServerReceives
<1>5. phase[s] \notin {"off", "created", "gone", "EXIT_INIT"} \/ s \in failed
  BY <1>1, <1>3 DEF ServerOK
<1>6. phase[s] \notin {"off", "created", "gone"}
  BY <1>1, <1>3 DEF ServerOK
<1>7. UNCHANGED <<threads, running, early, failed, lost, signals, requests>>
  BY DEF ServerReceives
<1>8. ReceiveExit(s, m) \/ ReceiveExitAck(s, m) \/ ReceiveStart(s, m) \/ ReceiveOther(s, m)
  BY DEF ServerReceives
<1> HIDE DEF m
<1>9. phase' \in [Nodes -> Phase] /\ phase'[s] \in {phase[s], "EXIT_INIT"}
      /\ \A n \in Nodes \ {s} : phase'[n] = phase[n]
  BY <1>1, <1>2, <1>8 DEF ReceiveExit, ReceiveExitAck, ReceiveStart, ReceiveOther, TypeOK,
     Phase, Exiting
<1>10. task' \in [Nodes -> Message] /\ task'[s] \in {task[s], m}
       /\ \A n \in Nodes \ {s} : task'[n] = task[n]
  BY <1>1, <1>2, <1>4, <1>8 DEF ReceiveExit, ReceiveExitAck, ReceiveStart, ReceiveOther, TypeOK
<1>11. quit' \in [Servers -> SUBSET Servers] /\ \A t \in Servers \ {s} : quit'[t] = quit[t]
  BY <1>1, <1>8 DEF ReceiveExit, ReceiveExitAck, ReceiveStart, ReceiveOther, TypeOK
<1>12. pending' \subseteq Servers
  BY <1>1, <1>8 DEF ReceiveExit, ReceiveExitAck, ReceiveStart, ReceiveOther, TypeOK
<1>13. Acknowledged' = Acknowledged
  BY <1>6, <1>7, <1>9 DEF Acknowledged, Nodes
<1>14. TypeOK'
  <2>1. pc' \in [Nodes -> {"work", "recv", "wait"}]
    BY <1>1, <1>3 DEF TypeOK
  <2> QED
    BY <1>1, <1>4, <1>7, <1>9, <1>10, <1>11, <1>12, <2>1 DEF TypeOK, TrueBuffers
<1>15. MessagesAreTruthful'
  <2>1. \A n \in Nodes : Truthful(task'[n], Acknowledged')
    BY <1>1, <1>4, <1>10, <1>13 DEF MessagesAreTruthful
  <2> QED
    BY <1>4, <1>13, <2>1, MessagesStayTruthful
<1>16. ManagerOK'
  <2>1. running' = running /\ phase'[Manager] = phase[Manager]
    BY <1>2, <1>7, <1>9
  <2>2. \A t \in Servers : phase'[t] = "off" <=> phase[t] = "off"
    BY <1>6, <1>9 DEF Nodes
  <2> QED
    BY <1>1, <1>13, <2>1, <2>2, ManagerUndisturbed
<1>17. ServerOK(s)'
  <2>1. pc'[s] = "work" /\ failed' = failed
    BY <1>1, <1>2, <1>3, <1>7 DEF TypeOK
  <2>2. CASE s \in failed
    BY <2>1, <2>2 DEF ServerOK
  <2>3. CASE s \notin failed
    <3>1. /\ phase[s] # "ERROR" /\ phase[s] # "EXIT_INIT"
          /\ WaitsFor[s] \ quit[s] \subseteq Acknowledged
          /\ phase[s] \in PastServers => WaitsFor[s] \subseteq Acknowledged
      BY <1>1, <1>5, <1>6, <2>3, Phases DEF ServerOK, Open, Released
    <3>2. CASE ReceiveExit(s, m)
      <4>1. phase'[s] = "EXIT_INIT" /\ task'[s].type = "EXIT" /\ quit' = quit
        BY <1>1, <1>2, <3>2 DEF ReceiveExit, TypeOK
      <4> QED
        BY <1>13, <2>1, <3>1, <4>1, Phases DEF ServerOK
    <3>3. CASE ReceiveExitAck(s, m)
      <4>1. phase'[s] = phase[s] /\ quit'[s] = quit[s] \ {m.from} /\ m.from \in Acknowledged
        BY <1>1, <1>4, <3>3 DEF ReceiveExitAck, TypeOK, Truthful
      <4>2. WaitsFor[s] \ quit'[s] \subseteq Acknowledged
        BY <3>1, <4>1
      <4> QED
        BY <1>6, <1>13, <2>1, <3>1, <4>1, <4>2 DEF ServerOK
    <3>4. CASE ReceiveStart(s, m) \/ ReceiveOther(s, m)
      <4>1. phase'[s] = phase[s] /\ quit' = quit
        BY <3>4 DEF ReceiveStart, ReceiveOther
      <4> QED
        BY <1>6, <1>13, <2>1, <3>1, <4>1 DEF ServerOK
    <3> QED
      BY <1>8, <3>2, <3>3, <3>4
  <2> QED
    BY <2>2, <2>3
<1>18. ASSUME NEW t \in Servers \ {s}
       PROVE  ServerOK(t)'
  <2>1. phase'[t] = phase[t] /\ quit'[t] = quit[t] /\ task'[t] = task[t] /\ pc'[t] = pc[t]
    BY <1>1, <1>3, <1>9, <1>10, <1>11 DEF Nodes, TypeOK
  <2> QED
    BY <1>1, <1>7, <1>13, <2>1, ServerUndisturbed
<1>19. \A t \in Servers : ServerOK(t)'
  BY <1>17, <1>18
<1> QED
  BY <1>14, <1>15, <1>16, <1>19, RegroupedNext

-----------------------------------------------------------------------------
(* Steps that only send something harmless, or nothing.                    *)
LEMMA ThreadIInv ==
  ASSUME IInv, NEW s \in Servers, ThreadStep(s) \/ StopsItself(s)
  PROVE  IInv'
<1>1. TypeOK /\ MessagesAreTruthful
  BY DEF IInv
<1>2. PICK to : \E from : ThreadIs(s, from, to)
                  /\ to \in {"running", "dead", "ending", "ended"}
  BY DEF ThreadStep, Registers, ReturnsAtOnce, StopsAsTold, StopsItself, Ends
<1>3. Send({s}, Msg("OTHER", s)) \/ UNCHANGED <<inbox, lost>>
  BY DEF ThreadStep, Registers, ReturnsAtOnce, StopsAsTold, StopsItself, Ends
<1>4. Truthful(Msg("OTHER", s), Acknowledged)
  BY DEF Truthful, Msg
<1>5. TrueBuffers(inbox', Acknowledged)
  <2>1. CASE Send({s}, Msg("OTHER", s))
    BY <1>1, <1>4, <2>1, MsgTypes, ReachesKeepsTruth DEF Send
  <2>2. CASE UNCHANGED <<inbox, lost>>
    BY <1>1, <2>2 DEF TypeOK, MessagesAreTruthful, TrueBuffers
  <2> QED
    BY <1>3, <2>1, <2>2
<1>6. lost' \in BOOLEAN
  BY <1>1, <1>3, Zenon DEF Send, TypeOK
<1>7. threads' \in [Servers -> {"none", "created", "running", "told", "dead",
                               "ending", "ended"}]
  BY <1>1, <1>2 DEF ThreadIs, TypeOK
<1>8. UNCHANGED <<phase, pc, task, pending, quit, running, early, failed, signals, requests>>
  BY <1>2 DEF ThreadIs
<1> QED
  BY <1>1, <1>5, <1>6, <1>7, <1>8, QuietIInv DEF TypeOK

LEMMA NothingToPopIInv ==
  ASSUME IInv, NEW n \in Nodes, NothingToPop(n)
  PROVE  IInv'
<1>1. TypeOK /\ MessagesAreTruthful
  BY DEF IInv
<1>2. TrueBuffers(inbox', Acknowledged)
  BY <1>1 DEF NothingToPop, TypeOK, MessagesAreTruthful, TrueBuffers
<1>3. pc' \in [Nodes -> {"work", "recv", "wait"}]
      /\ \A s \in Servers : pc'[s] \in {pc[s], "work"}
  BY <1>1 DEF NothingToPop, TypeOK, Nodes
<1> QED
  BY <1>1, <1>2, <1>3, QuietIInv DEF NothingToPop, TypeOK

LEMMA ClientIInv ==
  ASSUME IInv, Signal \/ \E s \in Servers : Request(s)
  PROVE  IInv'
<1>1. TypeOK /\ MessagesAreTruthful
  BY DEF IInv
<1>2. PICK to \in SUBSET Nodes, m \in Message :
        Send(to, m) /\ m.type \in {"SIGINT", "START", "OTHER"}
  <2>1. CASE Signal
    <3>1. Msg("SIGINT", Manager) \in Message /\ Msg("SIGINT", Manager).type = "SIGINT"
      BY MsgTypes DEF Msg
    <3> QED
      BY <2>1, <3>1 DEF Signal, Nodes
  <2>2. CASE \E s \in Servers : Request(s)
    <3>1. PICK s \in Servers, type \in {"START", "OTHER"} : Send({s}, Msg(type, Client))
      BY <2>2 DEF Request
    <3>2. Msg(type, Client) \in Message /\ Msg(type, Client).type \in {"START", "OTHER"}
      BY MsgTypes DEF Msg
    <3> QED
      BY <3>1, <3>2 DEF Nodes
  <2> QED
    BY <2>1, <2>2
<1>3. Truthful(m, Acknowledged)
  BY <1>2 DEF Truthful
<1>4. TrueBuffers(inbox', Acknowledged)
  BY <1>1, <1>2, <1>3, ReachesKeepsTruth DEF Send
<1>5. lost' \in BOOLEAN
  BY <1>1, <1>2, Zenon DEF Send, TypeOK
<1>6. UNCHANGED <<phase, pc, task, pending, quit, threads, running, early, failed>>
  BY DEF Signal, Request
<1>7. signals' \in 0 .. MaxSignals /\ requests' \in 0 .. MaxRequests
  <2>1. CASE Signal
    <3>1. signals' = signals + 1 /\ signals < MaxSignals /\ requests' = requests
      BY <2>1 DEF Signal
    <3> QED
      BY <1>1, <3>1, BoundsAssumption DEF TypeOK
  <2>2. CASE \E s \in Servers : Request(s)
    <3>1. requests' = requests + 1 /\ requests < MaxRequests /\ signals' = signals
      BY <2>2 DEF Request
    <3> QED
      BY <1>1, <3>1, BoundsAssumption DEF TypeOK
  <2> QED
    BY <2>1, <2>2
<1> QED
  BY <1>1, <1>4, <1>5, <1>6, <1>7, QuietIInv DEF TypeOK

-----------------------------------------------------------------------------
(* The manager. Its steps leave the servers alone, but for starting them;  *)
(* whatever it takes off info.thread_start has answered.                   *)
LEMMA ManagerIInv ==
  ASSUME IInv, TrueBuffers(inbox', Acknowledged),
         phase' \in [Nodes -> Phase],
         \A s \in Servers : phase'[s] = phase[s] /\ pc'[s] = pc[s] /\ task'[s] = task[s],
         pc' \in [Nodes -> {"work", "recv", "wait"}],
         task' \in [Nodes -> Message], Truthful(task'[Manager], Acknowledged),
         UNCHANGED <<pending, quit, threads, early, failed, signals, requests>>,
         running' \subseteq running, running \ running' \subseteq Acknowledged,
         lost' \in BOOLEAN,
         phase'[Manager] \in {"NONE", "SETUP"} => phase[Manager] \in {"NONE", "SETUP"},
         phase'[Manager] \in PastServers => running' = {}
  PROVE  IInv'
<1>1. TypeOK /\ MessagesAreTruthful /\ ManagerOK /\ \A s \in Servers : ServerOK(s)
  BY Regrouped
<1>2. Acknowledged' = Acknowledged
  BY DEF Acknowledged
<1>3. TypeOK'
  BY <1>1 DEF TypeOK, TrueBuffers
<1>4. MessagesAreTruthful'
  BY <1>1, <1>2, MessagesStayTruthful DEF MessagesAreTruthful, Nodes
<1>5. ManagerOK'
  BY <1>1, <1>2 DEF ManagerOK, StartedTogether
<1>6. ASSUME NEW s \in Servers
      PROVE  ServerOK(s)'
  BY <1>1, <1>2, ServerUndisturbed
<1> QED
  BY <1>3, <1>4, <1>5, <1>6, RegroupedNext

LEMMA StartServersIInv ==
  ASSUME IInv, StartServers
  PROVE  IInv'
<1>1. TypeOK /\ MessagesAreTruthful /\ ManagerOK /\ \A s \in Servers : ServerOK(s)
  BY Regrouped
<1>2. Manager \in Nodes /\ Manager \notin Servers /\ Servers \subseteq Nodes
  BY ServersAssumption DEF Nodes
<1>3. /\ phase'[Manager] = "RUN"
      /\ \A s \in Servers : phase[s] = "off" /\ phase'[s] = "created" /\ pc'[s] = pc[s]
  BY <1>1, <1>2 DEF StartServers, ManagerWork, ManagerOK, StartedTogether, TypeOK
<1>4. /\ UNCHANGED <<inbox, lost, task, pending, quit, threads, early, failed, signals, requests>>
      /\ running' = Servers
  BY DEF StartServers, ManagerWork
<1>5. Acknowledged' = Acknowledged
  BY <1>3, <1>4 DEF Acknowledged
<1>6. TypeOK'
  <2>1. phase' \in [Nodes -> Phase]
    BY DEF StartServers, Phase
  <2>2. pc' \in [Nodes -> {"work", "recv", "wait"}]
    BY <1>1 DEF StartServers, ManagerWork, TypeOK
  <2> QED
    BY <1>1, <1>4, <2>1, <2>2 DEF TypeOK
<1>7. MessagesAreTruthful'
  BY <1>1, <1>4, <1>5 DEF MessagesAreTruthful
<1>8. ManagerOK'
  BY <1>3, <1>4, Phases DEF ManagerOK, StartedTogether
<1>9. ASSUME NEW s \in Servers
      PROVE  ServerOK(s)'
  <2>1. pc[s] = "work"
    BY <1>1, <1>3 DEF ServerOK
  <2> QED
    BY <1>3, <2>1, Phases DEF ServerOK, Open
<1> QED
  BY <1>6, <1>7, <1>8, <1>9, RegroupedNext

(* One call of a task function of the manager.                             *)
LEMMA ManagerGoesIInv ==
  ASSUME IInv, NEW from \in Phase, NEW to \in Phase, ManagerGoes(from, to),
         to \in {"NONE", "SETUP"} => from \in {"NONE", "SETUP"},
         to \in PastServers => running = {},
         TrueBuffers(inbox', Acknowledged), lost' \in BOOLEAN
  PROVE  IInv'
<1>1. TypeOK /\ MessagesAreTruthful
  BY DEF IInv
<1>2. Manager \in Nodes /\ Manager \notin Servers /\ Servers \subseteq Nodes
  BY ServersAssumption DEF Nodes
<1>3. /\ phase' \in [Nodes -> Phase] /\ phase'[Manager] = to /\ phase[Manager] = from
      /\ \A s \in Servers : phase'[s] = phase[s] /\ pc'[s] = pc[s]
      /\ pc' \in [Nodes -> {"work", "recv", "wait"}]
  BY <1>1, <1>2 DEF ManagerGoes, ManagerWork, TypeOK
<1>4. UNCHANGED <<task, running, pending, quit, threads, early, failed, signals, requests>>
  BY DEF ManagerGoes, ManagerWork
<1>5. task' \in [Nodes -> Message] /\ Truthful(task'[Manager], Acknowledged)
  BY <1>1, <1>2, <1>4 DEF TypeOK, MessagesAreTruthful
<1> QED
  BY <1>3, <1>4, <1>5, ManagerIInv

LEMMA ManagerStepIInv ==
  ASSUME IInv, ManagerStep, ~ManagerReceives, ~StartServers
  PROVE  IInv'
<1>1. TypeOK /\ MessagesAreTruthful /\ ManagerOK /\ \A s \in Servers : ServerOK(s)
  BY Regrouped
<1>2. Manager \in Nodes /\ Manager \notin Servers /\ Servers \subseteq Nodes
  BY ServersAssumption DEF Nodes
<1>3. TrueBuffers(inbox, Acknowledged) /\ lost \in BOOLEAN
  BY <1>1 DEF TypeOK, MessagesAreTruthful, TrueBuffers
<1>4. {"NONE", "SETUP", "RUN", "EXIT_INIT", "EXIT_SERVER", "EXIT_STAGE1", "EXIT_THREAD",
       "EXIT_STAGE2", "EXIT_FINISH", "gone"} \subseteq Phase
  BY DEF Phase, Exiting, PastServers, PastThreads, Released
<1>5. CASE Prepare
  BY <1>3, <1>4, <1>5, Phases, ManagerGoesIInv DEF Prepare
<1>6. CASE Watch
  BY <1>3, <1>4, <1>6, Phases, ManagerGoesIInv DEF Watch
<1>7. CASE TellServers
  <2>1. running # {} => Truthful(Exit(running), Acknowledged)
    BY <1>1 DEF ManagerOK, StartedTogether, Truthful, Exit
  <2>2. Exit(running) \in Message
    BY <1>1, MsgTypes DEF TypeOK
  <2>3. TrueBuffers(inbox', Acknowledged)
    BY <1>1, <1>7, <2>1, <2>2, ReachesKeepsTruth DEF TellServers, Send
  <2>4. lost' \in BOOLEAN
    BY <1>3, <1>7, Zenon DEF TellServers, Send
  <2> QED
    BY <1>4, <1>7, <2>3, <2>4, Phases, ManagerGoesIInv DEF TellServers
<1>8. CASE AllQuit
  BY <1>3, <1>4, <1>8, Phases, ManagerGoesIInv DEF AllQuit
<1>9. CASE RelayAnswer
  <2>1. TrueBuffers(inbox', Acknowledged) /\ lost' \in BOOLEAN
    <3>1. CASE task[Manager].type = "EXIT_ACK"
      <4>1. task[Manager].from \in Acknowledged /\ Acknowledged \subseteq Servers
        BY <1>1, <1>2, <3>1 DEF MessagesAreTruthful, Truthful, Acknowledged, TypeOK
      <4>2. Truthful(Msg("EXIT_ACK", task[Manager].from), Acknowledged)
        BY <4>1 DEF Truthful, Msg
      <4>3. Msg("EXIT_ACK", task[Manager].from) \in Message
        BY <4>1, MsgTypes
      <4>4. Send(running, Msg("EXIT_ACK", task[Manager].from))
        BY <1>9, <3>1 DEF RelayAnswer
      <4>5. TrueBuffers(inbox', Acknowledged)
        BY <1>1, <4>2, <4>3, <4>4, ReachesKeepsTruth DEF Send
      <4>6. lost' \in BOOLEAN
        BY <1>3, <4>4, Zenon DEF Send
      <4> QED
        BY <4>5, <4>6
    <3>2. CASE task[Manager].type # "EXIT_ACK"
      BY <1>3, <1>9, <3>2 DEF RelayAnswer
    <3> QED
      BY <3>1, <3>2
  <2> QED
    BY <1>4, <1>9, <2>1, Phases, ManagerGoesIInv DEF RelayAnswer
<1>10. CASE ManagerStages
  <2>1. running = {}
    BY <1>1, <1>10, Phases DEF ManagerStages, ManagerGoes, ManagerOK
  <2> QED
    BY <1>3, <1>4, <1>10, <2>1, Phases, ManagerGoesIInv DEF ManagerStages
<1>11. CASE ManagerReleases
  <2>1. running = {}
    BY <1>1, <1>11, Phases DEF ManagerReleases, ManagerGoes, ManagerOK
  <2>2. <<>> \in Seq(Message) /\ DOMAIN <<>> = {}
    OBVIOUS
  <2>3. TrueBuffers(inbox', Acknowledged)
    BY <1>2, <1>3, <1>11, <2>2, ChangeOfOneBuffer DEF ManagerReleases
  <2> QED
    BY <1>3, <1>4, <1>11, <2>1, <2>3, Phases, ManagerGoesIInv DEF ManagerReleases
<1>12. CASE ProcessExits
  <2>1. running = {}
    BY <1>1, <1>12, Phases DEF ProcessExits, ManagerGoes, ManagerOK
  <2> QED
    BY <1>3, <1>4, <1>12, <2>1, Phases, ManagerGoesIInv DEF ProcessExits
<1>13. CASE NothingToPop(Manager)
  BY <1>2, <1>13, NothingToPopIInv
<1> QED
  BY <1>5, <1>6, <1>7, <1>8, <1>9, <1>10, <1>11, <1>12, <1>13 DEF ManagerStep

LEMMA ManagerReceivesIInv ==
  ASSUME IInv, ManagerReceives
  PROVE  IInv'
<1> DEFINE m == Head(inbox[Manager])
           rest == Tail(inbox[Manager])
<1>1. TypeOK /\ MessagesAreTruthful /\ ManagerOK /\ \A s \in Servers : ServerOK(s)
  BY Regrouped
<1>2. Manager \in Nodes /\ Manager \notin Servers /\ Servers \subseteq Nodes
  BY ServersAssumption DEF Nodes
<1>3. inbox[Manager] # <<>> /\ pc' = [pc EXCEPT ![Manager] = "work"]
  BY DEF ManagerReceives, Pops
<1>4. /\ rest \in Seq(Message)
      /\ \A i \in DOMAIN rest : Truthful(rest[i], Acknowledged)
      /\ m \in Message
      /\ Truthful(m, Acknowledged)
  BY <1>1, <1>2, <1>3, PopKeepsTruth
<1>5. task' = [task EXCEPT ![Manager] = m]
      /\ (ManagerSignalled(m) \/ ManagerAnswered(m) \/ ManagerOther(m))
  BY DEF ManagerReceives
<1>6. /\ inbox' = [inbox EXCEPT ![Manager] = rest]
        \/ inbox' = [inbox EXCEPT ![Manager] = Append(rest, Msg("OTHER", Manager))]
      /\ running' = running \/ (m.type = "EXIT_ACK" /\ running' = running \ {m.from})
      /\ phase' = phase \/ (phase[Manager] \notin Exiting
                            /\ phase' = [phase EXCEPT ![Manager] = "EXIT_INIT"])
  <2>1. CASE ManagerSignalled(m)
    BY <1>1, <1>2, <2>1 DEF ManagerSignalled, TypeOK
  <2>2. CASE ManagerAnswered(m)
    BY <2>2 DEF ManagerAnswered
  <2>3. CASE ManagerOther(m)
    BY <2>3 DEF ManagerOther
  <2> QED
    BY <1>5, <2>1, <2>2, <2>3
<1>7. UNCHANGED <<pending, quit, threads, early, failed, lost, signals, requests>>
  BY DEF ManagerReceives
<1> HIDE DEF m, rest
<1>8. TrueBuffers(inbox', Acknowledged)
  <2>1. TrueBuffers(inbox, Acknowledged)
    BY <1>1 DEF TypeOK, MessagesAreTruthful, TrueBuffers
  <2>2. Truthful(Msg("OTHER", Manager), Acknowledged)
    BY DEF Truthful, Msg
  <2>3. /\ Append(rest, Msg("OTHER", Manager)) \in Seq(Message)
        /\ \A i \in DOMAIN Append(rest, Msg("OTHER", Manager)) :
             \/ Append(rest, Msg("OTHER", Manager))[i] = Msg("OTHER", Manager)
             \/ \E j \in DOMAIN rest : Append(rest, Msg("OTHER", Manager))[i] = rest[j]
    BY <1>4, MsgTypes, AppendElements
  <2>4. \A i \in DOMAIN Append(rest, Msg("OTHER", Manager)) :
          Truthful(Append(rest, Msg("OTHER", Manager))[i], Acknowledged)
    BY <1>4, <2>2, <2>3, Zenon
  <2>5. CASE inbox' = [inbox EXCEPT ![Manager] = rest]
    BY <1>2, <1>4, <2>1, <2>5, ChangeOfOneBuffer
  <2>6. CASE inbox' = [inbox EXCEPT ![Manager] = Append(rest, Msg("OTHER", Manager))]
    BY <1>2, <2>1, <2>3, <2>4, <2>6, ChangeOfOneBuffer
  <2> QED
    BY <1>6, <2>5, <2>6
<1>9. /\ phase' \in [Nodes -> Phase]
      /\ pc' \in [Nodes -> {"work", "recv", "wait"}]
      /\ task' \in [Nodes -> Message] /\ task'[Manager] = m
      /\ \A s \in Servers : phase'[s] = phase[s] /\ pc'[s] = pc[s] /\ task'[s] = task[s]
  BY <1>1, <1>2, <1>3, <1>4, <1>5, <1>6 DEF TypeOK, Phase, Exiting
<1>10. running' \subseteq running /\ running \ running' \subseteq Acknowledged
  BY <1>4, <1>6 DEF Truthful
<1>11. /\ phase'[Manager] \in {"NONE", "SETUP"} => phase[Manager] \in {"NONE", "SETUP"}
       /\ phase'[Manager] \in PastServers => running' = {}
  BY <1>1, <1>2, <1>6, <1>9, <1>10, Phases DEF ManagerOK, TypeOK
<1>12. lost' \in BOOLEAN /\ Truthful(task'[Manager], Acknowledged)
  BY <1>1, <1>4, <1>7, <1>9 DEF TypeOK
<1> QED
  BY <1>7, <1>8, <1>9, <1>10, <1>11, <1>12, ManagerIInv

-----------------------------------------------------------------------------
LEMMA InitIInv ==
  ASSUME Init
  PROVE  IInv
<1>1. Manager \in Nodes /\ Manager \notin Servers /\ Servers \subseteq Nodes
  BY ServersAssumption DEF Nodes
<1>2. TypeOK
  <2>1. <<>> \in Seq(Message) /\ Msg("OTHER", Manager) \in Message
    BY MsgTypes
  <2>2. inbox \in [Nodes -> Seq(Message)] /\ task \in [Nodes -> Message]
    BY <2>1 DEF Init
  <2>3. phase \in [Nodes -> Phase] /\ pc \in [Nodes -> {"work", "recv", "wait"}]
    BY DEF Init, Phase
  <2>4. /\ quit \in [Servers -> SUBSET Servers]
        /\ threads \in [Servers -> {"none", "created", "running", "told", "dead",
                                   "ending", "ended"}]
    BY DEF Init
  <2>5. signals \in 0 .. MaxSignals /\ requests \in 0 .. MaxRequests
    BY BoundsAssumption DEF Init
  <2> QED
    BY <2>2, <2>3, <2>4, <2>5 DEF Init, TypeOK
<1>3. MessagesAreTruthful
  <2>1. Truthful(Msg("OTHER", Manager), Acknowledged)
    BY DEF Truthful, Msg
  <2> QED
    BY <2>1 DEF Init, MessagesAreTruthful
<1>4. /\ phase[Manager] = "NONE"
      /\ \A s \in Servers : phase[s] = "off" /\ pc[s] = "work"
      /\ running = {}
  BY <1>1 DEF Init
<1>5. ManagerOK
  BY <1>4 DEF ManagerOK, StartedTogether
<1>6. \A s \in Servers : ServerOK(s)
  BY <1>4, Phases DEF ServerOK, Open
<1> QED
  BY <1>2, <1>3, <1>5, <1>6, Regrouped

LEMMA NextIInv ==
  ASSUME IInv, [Next]_vars
  PROVE  IInv'
<1>1. CASE UNCHANGED vars
  <2>1. TypeOK /\ MessagesAreTruthful
    BY DEF IInv
  <2>2. TrueBuffers(inbox', Acknowledged)
    BY <1>1, <2>1 DEF vars, TypeOK, MessagesAreTruthful, TrueBuffers
  <2> QED
    BY <1>1, <2>1, <2>2, QuietIInv DEF vars, TypeOK
<1>2. CASE ManagerStep
  BY <1>2, ManagerStepIInv, ManagerReceivesIInv, StartServersIInv
<1>3. ASSUME NEW s \in Servers, ServerWorks(s)
      PROVE  IInv'
  BY <1>3, ServerInitIInv, StartIInv, ExitInitIInv, ExitServerIInv, StagesIInv, LeaveIInv
     DEF ServerWorks
<1>4. ASSUME NEW s \in Servers, ServerReceives(s) \/ NothingToPop(s)
      PROVE  IInv'
  BY <1>4, ServerReceivesIInv, NothingToPopIInv DEF Nodes
<1>5. ASSUME NEW s \in Servers, ThreadStep(s) \/ StopsItself(s)
      PROVE  IInv'
  BY <1>5, ThreadIInv
<1>6. CASE Signal \/ \E s \in Servers : Request(s)
  BY <1>6, ClientIInv
<1> QED
  BY <1>1, <1>2, <1>3, <1>4, <1>5, <1>6 DEF Next, ServerStep

(* Every reachable state satisfies the inductive invariant.                *)
THEOREM Invariance == Spec => []IInv
<1>1. Init => IInv
  BY InitIInv
<1>2. IInv /\ [Next]_vars => IInv'
  BY NextIInv
<1> QED
  BY <1>1, <1>2, PTL DEF Spec

(* Statuses, buffers and sets of servers keep their types, whatever the    *)
(* number of servers and the size of the buffers.                          *)
THEOREM TypeCorrect == Spec => []TypeOK
<1>1. IInv => TypeOK
  BY DEF IInv
<1> QED
  BY <1>1, Invariance, PTL

(* No MSG_MANAGER_EXIT or MSG_MANAGER_EXIT_ACK ever tells of a server that *)
(* has not answered that it had.                                           *)
THEOREM ExitMessagesTellTheTruth == Spec => []MessagesAreTruthful
<1>1. IInv => MessagesAreTruthful
  BY DEF IInv
<1> QED
  BY <1>1, Invariance, PTL

(* A server that was told to exit never releases its resources before      *)
(* every server of its exit condition has answered, for every exit         *)
(* condition (also one in which servers wait for one another).             *)
THEOREM OrderOfRelease == Spec => []ReleasesInOrder
<1>1. IInv => ReleasesInOrder
  BY DEF IInv
<1> QED
  BY <1>1, Invariance, PTL

(* The manager leaves EXIT_SERVER only when every server it started has    *)
(* answered.                                                               *)
THEOREM ExitAfterAnswers == Spec => []ExitsWhenAnswered
<1>1. IInv => ExitsWhenAnswered
  BY DEF IInv, StruckOffAnswered, ExitsWhenAnswered
<1> QED
  BY <1>1, Invariance, PTL

-----------------------------------------------------------------------------
(* Pushing and popping MSG_MANAGER_EXIT.                                   *)
LEMMA AppendExits ==
  ASSUME NEW q \in Seq(Message), NEW m \in Message
  PROVE  /\ NoExit(q) => OneExit(Append(q, m))
         /\ m.type # "EXIT" /\ NoExit(q) => NoExit(Append(q, m))
         /\ m.type # "EXIT" /\ OneExit(q) => OneExit(Append(q, m))
<1> DEFINE a == Append(q, m)
<1>1. /\ DOMAIN q = 1 .. Len(q) /\ DOMAIN a = 1 .. Len(q) + 1 /\ Len(q) \in Nat
      /\ \A i \in 1 .. Len(q) : a[i] = q[i]
      /\ a[Len(q) + 1] = m
  BY AppendProperties, LenProperties
<1> HIDE DEF a
<1>2. \A i \in DOMAIN a : i \in DOMAIN q \/ i = Len(q) + 1
  BY <1>1
<1>3. \A i \in DOMAIN q : a[i] = q[i]
  BY <1>1
<1>4. NoExit(q) => OneExit(a)
  BY <1>1, <1>2, <1>3 DEF NoExit, OneExit
<1>5. m.type # "EXIT" /\ NoExit(q) => NoExit(a)
  BY <1>1, <1>2, <1>3 DEF NoExit
<1>6. m.type # "EXIT" /\ OneExit(q) => OneExit(a)
  BY <1>1, <1>2, <1>3 DEF OneExit
<1> QED
  BY <1>4, <1>5, <1>6 DEF a

LEMMA TailExits ==
  ASSUME NEW q \in Seq(Message), q # <<>>
  PROVE  /\ NoExit(q) => NoExit(Tail(q)) /\ Head(q).type # "EXIT"
         /\ OneExit(q) => OneExit(Tail(q))
         /\ OneExit(q) /\ Head(q).type = "EXIT" => NoExit(Tail(q))
<1> DEFINE t == Tail(q)
<1>1. /\ Head(q) = q[1] /\ 1 \in DOMAIN q /\ DOMAIN q = 1 .. Len(q) /\ Len(q) \in Nat
      /\ DOMAIN t = 1 .. Len(q) - 1
      /\ \A i \in 1 .. Len(q) - 1 : t[i] = q[i + 1]
  OBVIOUS
<1> HIDE DEF t
<1>2. \A i \in DOMAIN t : i \in Nat /\ t[i] = q[i + 1] /\ i + 1 \in DOMAIN q /\ i + 1 # 1
  BY <1>1
<1>3. NoExit(q) => NoExit(t) /\ Head(q).type # "EXIT"
  BY <1>1, <1>2 DEF NoExit
<1>4. OneExit(q) => OneExit(t)
  <2>1. ASSUME OneExit(q), NEW i \in DOMAIN t, NEW j \in DOMAIN t,
               t[i].type = "EXIT", t[j].type = "EXIT"
        PROVE  i = j
    <3>1. i + 1 = j + 1
      BY <1>2, <2>1 DEF OneExit
    <3> QED
      BY <1>2, <3>1
  <2> QED
    BY <2>1 DEF OneExit
<1>5. OneExit(q) /\ Head(q).type = "EXIT" => NoExit(t)
  BY <1>1, <1>2 DEF NoExit, OneExit
<1> QED
  BY <1>3, <1>4, <1>5 DEF t

LEMMA PushExits ==
  ASSUME NEW q \in Seq(Message), NEW m \in Message
  PROVE  /\ NoExit(q) => OneExit(Push(q, m))
         /\ m.type # "EXIT" /\ NoExit(q) => NoExit(Push(q, m))
         /\ m.type # "EXIT" /\ OneExit(q) => OneExit(Push(q, m))
<1>1. CASE Len(q) = Capacity
  <2>1. q # <<>>
    BY <1>1, BoundsAssumption
  <2>2. Tail(q) \in Seq(Message)
    BY <2>1
  <2>3. Push(q, m) = Append(Tail(q), m)
    BY <1>1 DEF Push
  <2> QED
    BY <2>1, <2>2, <2>3, TailExits, AppendExits
<1>2. CASE Len(q) # Capacity
  <2>1. Push(q, m) = Append(q, m)
    BY <1>2 DEF Push
  <2> QED
    BY <2>1, AppendExits
<1> QED
  BY <1>1, <1>2

(* A buffer that has gained no MSG_MANAGER_EXIT.                           *)
Quieter(q, r) == (NoExit(q) => NoExit(r)) /\ (OneExit(q) => OneExit(r))

LEMMA ReachesQuietly ==
  ASSUME TypeOK, NEW to, NEW m \in Message, m.type # "EXIT", NEW n \in Nodes
  PROVE  Quieter(inbox[n], Reaches(to, m)[n])
<1>1. inbox[n] \in Seq(Message)
  BY DEF TypeOK
<1>2. CASE n \in to /\ Open(n)
  <2>1. Reaches(to, m)[n] = Push(inbox[n], m)
    BY <1>2 DEF Reaches
  <2> QED
    BY <1>1, <2>1, PushExits DEF Quieter
<1>3. CASE ~(n \in to /\ Open(n))
  <2>1. Reaches(to, m)[n] = inbox[n]
    BY <1>3 DEF Reaches
  <2> QED
    BY <2>1 DEF Quieter
<1> QED
  BY <1>2, <1>3

(* The invariant of the order, server by server.                           *)
ToldOnceAt(s) ==
  /\ OneExit(inbox[s])
  /\ Told(s) => NoExit(inbox[s])
  /\ phase[Manager] \in BeforeExit => ~Told(s) /\ NoExit(inbox[s])
  /\ s \in pending /\ task[s].type = "EXIT" => phase[s] = "EXIT_INIT"

LEMMA OrderRegrouped ==
  ASSUME TypeOK
  PROVE  OrderInv <=> IInv /\ StartedAllOrNone /\ \A s \in Servers : ToldOnceAt(s)
BY DEF OrderInv, ToldOnce, OverwrittenStart, ToldOnceAt, TypeOK

LEMMA OrderRegroupedNext ==
  ASSUME IInv', StartedAllOrNone', \A s \in Servers : ToldOnceAt(s)'
  PROVE  OrderInv'
BY DEF OrderInv, ToldOnce, OverwrittenStart, ToldOnceAt, TypeOK, IInv

(* A server that has not been told anything new.                           *)
LEMMA NotTold ==
  ASSUME NEW s \in Servers, ToldOnceAt(s), Quieter(inbox[s], inbox'[s]),
         Told(s)' => Told(s),
         phase'[Manager] \in BeforeExit => phase[Manager] \in BeforeExit,
         s \in pending' /\ task'[s].type = "EXIT" => phase'[s] = "EXIT_INIT"
  PROVE  ToldOnceAt(s)'
BY DEF ToldOnceAt, Quieter

(* Servers that a step starts or stops are started and stopped together.   *)
LEMMA StillStarted ==
  ASSUME StartedAllOrNone, \A s \in Servers : phase'[s] = "off" <=> phase[s] = "off"
  PROVE  StartedAllOrNone'
BY DEF StartedAllOrNone

OrderRest == StartedAllOrNone /\ \A s \in Servers : ToldOnceAt(s)

LEMMA OrderParts ==
  ASSUME OrderInv
  PROVE  IInv /\ TypeOK /\ OrderRest
BY OrderRegrouped DEF OrderInv, OrderRest, IInv

LEMMA WorkQuietly ==
  ASSUME TypeOK, NEW s \in Servers, NEW status, Work(s, status), NEW t \in Servers
  PROVE  Quieter(inbox[t], inbox'[t])
<1> DEFINE boxes == Reaches(Answered(s, status), Msg("EXIT_ACK", s))
<1>1. s \in Nodes /\ t \in Nodes
  BY DEF Nodes
<1>2. Quieter(inbox[t], boxes[t])
  <2>1. Msg("EXIT_ACK", s) \in Message /\ Msg("EXIT_ACK", s).type # "EXIT"
    BY MsgTypes DEF Msg
  <2> QED
    BY <1>1, <2>1, ReachesQuietly
<1>3. inbox' = [boxes EXCEPT ![s] = IF status = "EXIT_FINISH" THEN <<>> ELSE boxes[s]]
  BY DEF Work
<1>4. boxes = [n \in Nodes |-> boxes[n]]
  BY DEF Reaches
<1> HIDE DEF boxes
<1>5. inbox'[t] = boxes[t] \/ inbox'[t] = <<>>
  BY <1>1, <1>3, <1>4
<1>6. DOMAIN <<>> = {}
  OBVIOUS
<1> QED
  BY <1>2, <1>5, <1>6 DEF Quieter, NoExit, OneExit

(* One call of state_machine and task_proc tells no server anything.       *)
LEMMA WorkOrder ==
  ASSUME OrderInv, NEW s \in Servers, NEW status \in Loop, Open(s), Work(s, status),
         failed \subseteq failed',
         status = "STARTING" => phase[s] = "STARTING",
         status \in Exiting => phase[s] \in Exiting \/ s \in failed
  PROVE  OrderRest'
<1>1. TypeOK /\ OrderRest
  BY OrderParts
<1>2. s \in Nodes /\ Manager \in Nodes /\ s # Manager /\ Servers \subseteq Nodes
  BY ServersAssumption DEF Nodes
<1>3. /\ phase'[s] = status /\ \A n \in Nodes \ {s} : phase'[n] = phase[n]
      /\ task' = task
  BY <1>1, <1>2 DEF Work, TypeOK
<1>4. StartedAllOrNone'
  <2>1. \A t \in Servers : phase'[t] = "off" <=> phase[t] = "off"
    BY <1>2, <1>3 DEF Open, Loop
  <2> QED
    BY <1>1, <2>1, StillStarted DEF OrderRest
<1>5. \A t \in Servers : Quieter(inbox[t], inbox'[t])
  BY <1>1, WorkQuietly
<1>6. ASSUME NEW t \in Servers, Told(t)'
      PROVE  Told(t)
  <2>1. CASE t = s
    <3>1. s \in early' => s \in early \/ task[s].type = "EXIT"
      BY DEF Work, AnswersExit
    <3> QED
      BY <1>3, <1>6, <2>1, <3>1 DEF Told
  <2>2. CASE t # s
    <3>1. t \in early' => t \in early
      BY <2>2 DEF Work
    <3>2. phase'[t] = phase[t]
      BY <1>2, <1>3, <2>2
    <3> QED
      BY <1>3, <1>6, <3>1, <3>2 DEF Told
  <2> QED
    BY <2>1, <2>2
<1>7. ASSUME NEW t \in Servers, t \in pending', task'[t].type = "EXIT"
      PROVE  phase'[t] = "EXIT_INIT"
  <2>1. t \in pending /\ task[t].type = "EXIT" /\ phase[t] = "EXIT_INIT"
    BY <1>1, <1>3, <1>7 DEF Work, OrderRest, ToldOnceAt
  <2>2. t # s
    BY <1>7, <2>1 DEF Work, Finishes
  <2> QED
    BY <1>2, <1>3, <2>1, <2>2
<1>8. \A t \in Servers : ToldOnceAt(t)'
  BY <1>1, <1>2, <1>3, <1>5, <1>6, <1>7, NotTold DEF OrderRest
<1> QED
  BY <1>4, <1>8 DEF OrderRest

LEMMA ServerWorksOrder ==
  ASSUME OrderInv, NEW s \in Servers, ServerWorks(s), ~ServerInit(s), ~Leave(s)
  PROVE  OrderRest'
<1>1. CASE Starting(s)
  BY <1>1, Phases, WorkOrder DEF Starting, Open, Released, Exiting
<1>2. CASE Started(s)
  BY <1>2, Phases, WorkOrder DEF Started, Open, Released, Exiting
<1>3. CASE StartFails(s)
  BY <1>3, Phases, WorkOrder DEF StartFails, Open, Released, Exiting
<1>4. CASE Run(s)
  BY <1>4, Phases, WorkOrder DEF Run, Open, Released, Exiting
<1>5. CASE ErrorExits(s)
  <2>1. s \in failed
    BY <1>5, OrderParts, Regrouped DEF ErrorExits, ServerOK
  <2> QED
    BY <1>5, <2>1, Phases, WorkOrder DEF ErrorExits, Open, Released
<1>6. CASE ExitInit(s)
  BY <1>6, Phases, WorkOrder DEF ExitInit, Open, Released, Exiting
<1>7. CASE ExitServer(s)
  <2>1. PICK status \in {"EXIT_STAGE1", "EXIT_SERVER"} : Work(s, status)
    BY <1>7 DEF ExitServer
  <2> QED
    BY <1>7, <2>1, Phases, WorkOrder DEF ExitServer, Open, Released, Exiting
<1>8. CASE ExitStage1(s)
  BY <1>8, Phases, WorkOrder DEF ExitStage1, Open, Released, Exiting
<1>9. CASE ExitThread(s)
  <2>1. PICK status \in {"EXIT_THREAD", "EXIT_STAGE2"} : Work(s, status)
    BY <1>9 DEF ExitThread
  <2> QED
    BY <1>9, <2>1, Phases, WorkOrder DEF ExitThread, Open, Released, Exiting
<1>10. CASE ExitStage2(s)
  BY <1>10, Phases, WorkOrder DEF ExitStage2, Open, Released, Exiting
<1> QED
  BY <1>1, <1>2, <1>3, <1>4, <1>5, <1>6, <1>7, <1>8, <1>9, <1>10 DEF ServerWorks

LEMMA ServerEndsOrder ==
  ASSUME OrderInv, NEW s \in Servers, ServerInit(s) \/ Leave(s)
  PROVE  OrderRest'
<1>1. TypeOK /\ OrderRest
  BY OrderParts
<1>2. s \in Nodes /\ Manager \in Nodes /\ s # Manager /\ Servers \subseteq Nodes
  BY ServersAssumption DEF Nodes
<1>3. /\ \A n \in Nodes \ {s} : phase'[n] = phase[n] /\ task'[n] = task[n]
      /\ pending' \subseteq pending /\ early' = early /\ failed' = failed
  BY <1>1, <1>2 DEF ServerInit, Leave, TypeOK
<1>4. \/ phase[s] = "created" /\ phase'[s] = "STARTING" /\ task'[s] = task[s]
      \/ phase[s] = "EXIT_FINISH" /\ phase'[s] = "gone" /\ task'[s].type = "OTHER"
  BY <1>1, <1>2 DEF ServerInit, Leave, TypeOK, Msg
<1>5. StartedAllOrNone'
  <2>1. \A t \in Servers : phase'[t] = "off" <=> phase[t] = "off"
    BY <1>2, <1>3, <1>4
  <2> QED
    BY <1>1, <2>1, StillStarted DEF OrderRest
<1>6. ASSUME NEW t \in Servers
      PROVE  Quieter(inbox[t], inbox'[t])
  <2>1. CASE inbox' = inbox
    BY <2>1 DEF Quieter
  <2>2. CASE Leave(s)
    <3>1. Msg("EXIT_ACK", s) \in Message /\ Msg("EXIT_ACK", s).type # "EXIT"
      BY MsgTypes DEF Msg
    <3>2. inbox' = Reaches({Manager}, Msg("EXIT_ACK", s))
      BY <2>2 DEF Leave, Send
    <3> QED
      BY <1>1, <1>2, <3>1, <3>2, ReachesQuietly
  <2> QED
    BY <2>1, <2>2 DEF ServerInit
<1>7. ASSUME NEW t \in Servers, Told(t)'
      PROVE  Told(t)
  BY <1>2, <1>3, <1>4, <1>7 DEF Told, Exiting, PastServers, PastThreads, Released
<1>8. ASSUME NEW t \in Servers, t \in pending', task'[t].type = "EXIT"
      PROVE  phase'[t] = "EXIT_INIT"
  BY <1>1, <1>2, <1>3, <1>4, <1>8 DEF OrderRest, ToldOnceAt
<1>9. \A t \in Servers : ToldOnceAt(t)'
  BY <1>1, <1>2, <1>3, <1>6, <1>7, <1>8, NotTold DEF OrderRest
<1> QED
  BY <1>5, <1>9 DEF OrderRest

(* Steps that leave the servers' statuses and tasks alone.                 *)
LEMMA QuietOrder ==
  ASSUME OrderInv, UNCHANGED <<pending, early, failed>>,
         \A s \in Servers : /\ phase'[s] = phase[s] /\ task'[s] = task[s]
                            /\ Quieter(inbox[s], inbox'[s]),
         phase'[Manager] \in BeforeExit => phase[Manager] \in BeforeExit
  PROVE  OrderRest'
<1>1. OrderRest
  BY OrderParts
<1>2. StartedAllOrNone'
  BY <1>1, StillStarted DEF OrderRest
<1>3. ASSUME NEW s \in Servers
      PROVE  ToldOnceAt(s)'
  <2>1. Told(s)' => Told(s)
    BY DEF Told
  <2>2. s \in pending' /\ task'[s].type = "EXIT" => phase'[s] = "EXIT_INIT"
    BY <1>1 DEF OrderRest, ToldOnceAt
  <2> QED
    BY <1>1, <2>1, <2>2, NotTold DEF OrderRest
<1> QED
  BY <1>2, <1>3 DEF OrderRest

LEMMA UnchangedQuietly ==
  ASSUME inbox' = inbox, NEW s
  PROVE  Quieter(inbox[s], inbox'[s])
BY DEF Quieter

LEMMA SendQuietly ==
  ASSUME TypeOK, NEW to, NEW m \in Message, m.type # "EXIT", Send(to, m), NEW s \in Servers
  PROVE  Quieter(inbox[s], inbox'[s])
BY ReachesQuietly DEF Send, Nodes

LEMMA OthersOrder ==
  ASSUME OrderInv,
         \/ \E s \in Servers : ThreadStep(s) \/ StopsItself(s) \/ Request(s)
         \/ Signal
         \/ \E n \in Nodes : NothingToPop(n)
         \/ UNCHANGED vars
  PROVE  OrderRest'
<1>1. TypeOK
  BY OrderParts
<1>2. UNCHANGED <<phase, task, pending, early, failed>>
  BY DEF ThreadStep, Registers, ReturnsAtOnce, StopsAsTold, StopsItself, Ends, ThreadIs,
     Request, Signal, NothingToPop, vars
<1>3. \/ inbox' = inbox
      \/ \E to : \E m \in Message : m.type # "EXIT" /\ Send(to, m)
  <2>1. ASSUME NEW s \in Servers, ThreadStep(s) \/ StopsItself(s)
        PROVE  inbox' = inbox \/ Send({s}, Msg("OTHER", s))
    BY <2>1 DEF ThreadStep, Registers, ReturnsAtOnce, StopsAsTold, StopsItself, Ends
  <2>2. ASSUME NEW s \in Servers, Request(s)
        PROVE  \E type \in {"START", "OTHER"} : Send({s}, Msg(type, Client))
    BY <2>2 DEF Request
  <2>3. Signal => Send({Manager}, Msg("SIGINT", Manager))
    BY DEF Signal
  <2>4. UNCHANGED vars \/ (\E n \in Nodes : NothingToPop(n)) => inbox' = inbox
    BY DEF NothingToPop, vars
  <2>5. /\ \A s \in Servers : Msg("OTHER", s).type # "EXIT"
        /\ \A type \in {"START", "OTHER"} : Msg(type, Client).type # "EXIT"
        /\ Msg("SIGINT", Manager).type # "EXIT"
    BY DEF Msg
  <2> QED
    BY <2>1, <2>2, <2>3, <2>4, <2>5, MsgTypes
<1>4. \A s \in Servers : Quieter(inbox[s], inbox'[s])
  BY <1>1, <1>3, UnchangedQuietly, SendQuietly
<1> QED
  BY <1>2, <1>4, QuietOrder

(* A server takes a message. After MSG_MANAGER_EXIT there is no other.     *)
LEMMA ServerReceivesOrder ==
  ASSUME OrderInv, NEW s \in Servers, ServerReceives(s)
  PROVE  OrderRest'
<1> DEFINE m == Head(inbox[s])
           rest == Tail(inbox[s])
<1>1. IInv /\ TypeOK /\ OrderRest /\ ServerOK(s)
  BY OrderParts, Regrouped
<1>2. s \in Nodes /\ Manager \in Nodes /\ s # Manager /\ Servers \subseteq Nodes
  BY ServersAssumption DEF Nodes
<1>3. inbox[s] \in Seq(Message) /\ inbox[s] # <<>>
  BY <1>1, <1>2 DEF ServerReceives, Pops, TypeOK
<1>4. /\ NoExit(inbox[s]) => NoExit(rest) /\ m.type # "EXIT"
      /\ OneExit(inbox[s]) => OneExit(rest)
      /\ OneExit(inbox[s]) /\ m.type = "EXIT" => NoExit(rest)
  BY <1>3, TailExits
<1>5. inbox' = [inbox EXCEPT ![s] = rest] /\ early' = early /\ failed' = failed
  BY DEF ServerReceives
<1>6. ReceiveExit(s, m) \/ ReceiveExitAck(s, m) \/ ReceiveStart(s, m) \/ ReceiveOther(s, m)
  BY DEF ServerReceives
<1> HIDE DEF m, rest
<1>7. inbox'[s] = rest /\ \A n \in Nodes \ {s} : inbox'[n] = inbox[n]
  BY <1>1, <1>2, <1>5 DEF TypeOK
<1>8. /\ phase'[s] \in {phase[s], "EXIT_INIT"}
      /\ \A n \in Nodes \ {s} : phase'[n] = phase[n] /\ task'[n] = task[n]
      /\ \A n \in Nodes \ {s} : n \in pending' => n \in pending
  BY <1>1, <1>2, <1>6 DEF ReceiveExit, ReceiveExitAck, ReceiveStart, ReceiveOther, TypeOK
<1>9. phase[s] # "off"
  BY <1>1 DEF ServerReceives, Pops, ServerOK
<1>10. StartedAllOrNone'
  <2>1. \A t \in Servers : phase'[t] = "off" <=> phase[t] = "off"
    BY <1>2, <1>8, <1>9
  <2> QED
    BY <1>1, <2>1, StillStarted DEF OrderRest
<1>11. ASSUME NEW t \in Servers \ {s}
       PROVE  ToldOnceAt(t)'
  <2>1. Quieter(inbox[t], inbox'[t])
    BY <1>2, <1>7 DEF Quieter
  <2>2. Told(t)' => Told(t)
    BY <1>2, <1>5, <1>8 DEF Told
  <2>3. t \in pending' /\ task'[t].type = "EXIT" => phase'[t] = "EXIT_INIT"
    BY <1>1, <1>2, <1>8 DEF OrderRest, ToldOnceAt
  <2> QED
    BY <1>1, <1>2, <1>8, <2>1, <2>2, <2>3, NotTold DEF OrderRest
<1>12. ToldOnceAt(s)'
  <2>1. ToldOnceAt(s) /\ phase'[Manager] = phase[Manager]
    BY <1>1, <1>2, <1>8 DEF OrderRest
  <2>2. CASE ReceiveExit(s, m)
    <3>1. m.type = "EXIT" /\ phase'[s] = "EXIT_INIT"
      BY <1>1, <1>2, <2>2 DEF ReceiveExit, TypeOK
    <3>2. OneExit(rest) /\ NoExit(rest) /\ phase[Manager] \notin BeforeExit
      BY <1>4, <2>1, <3>1 DEF ToldOnceAt
    <3> QED
      BY <1>7, <2>1, <3>1, <3>2 DEF ToldOnceAt
  <2>3. CASE ReceiveStart(s, m)
    <3>1. phase' = phase /\ task'[s] = m /\ m.type = "START"
      BY <1>1, <1>2, <2>3 DEF ReceiveStart, TypeOK
    <3>2. Told(s)' => Told(s)
      BY <1>5, <3>1 DEF Told
    <3> QED
      BY <1>4, <1>7, <2>1, <3>1, <3>2, NotTold DEF Quieter
  <2>4. CASE ReceiveExitAck(s, m) \/ ReceiveOther(s, m)
    <3>1. phase' = phase /\ task' = task /\ pending' = pending
      BY <2>4 DEF ReceiveExitAck, ReceiveOther
    <3>2. Told(s)' => Told(s)
      BY <1>5, <3>1 DEF Told
    <3> QED
      BY <1>4, <1>7, <2>1, <3>1, <3>2, NotTold DEF Quieter, ToldOnceAt
  <2> QED
    BY <1>6, <2>2, <2>3, <2>4
<1> QED
  BY <1>10, <1>11, <1>12 DEF OrderRest

(* The manager. It tells the servers once, all of them.                    *)
LEMMA ManagerGoesKeeps ==
  ASSUME TypeOK, NEW from, NEW to, ManagerGoes(from, to)
  PROVE  /\ phase[Manager] = from /\ phase'[Manager] = to
         /\ \A s \in Servers : phase'[s] = phase[s] /\ task'[s] = task[s]
         /\ UNCHANGED <<task, pending, early, failed, running>>
BY ServersAssumption DEF ManagerGoes, ManagerWork, TypeOK, Nodes

LEMMA BeforeAndAfter ==
  /\ {"NONE", "SETUP", "RUN", "EXIT_INIT"} \subseteq BeforeExit
  /\ BeforeExit \cap (PastServers \cup {"EXIT_SERVER"}) = {}
BY DEF BeforeExit, Phase, Exiting, PastServers, PastThreads, Released

LEMMA TellServersOrder ==
  ASSUME OrderInv, TellServers
  PROVE  OrderRest'
<1>1. IInv /\ TypeOK /\ OrderRest /\ MessagesAreTruthful
  BY OrderParts DEF IInv
<1>2. /\ phase[Manager] = "EXIT_INIT" /\ phase'[Manager] = "EXIT_SERVER"
      /\ \A s \in Servers : phase'[s] = phase[s] /\ task'[s] = task[s]
      /\ UNCHANGED <<pending, early, failed>>
  BY <1>1, ManagerGoesKeeps DEF TellServers
<1>3. StartedAllOrNone'
  BY <1>1, <1>2, StillStarted DEF OrderRest
<1>4. ASSUME NEW s \in Servers
      PROVE  ToldOnceAt(s)'
  <2>1. ToldOnceAt(s) /\ ~Told(s) /\ NoExit(inbox[s])
    BY <1>1, <1>2, BeforeAndAfter DEF OrderRest, ToldOnceAt
  <2>2. ~Told(s)'
    BY <1>2, <2>1 DEF Told
  <2>3. OneExit(inbox'[s])
    <3>1. inbox[s] \in Seq(Message) /\ Exit(running) \in Message
      BY <1>1, MsgTypes DEF TypeOK, Nodes
    <3>2. inbox'[s] = Push(inbox[s], Exit(running)) \/ inbox'[s] = inbox[s]
      BY DEF TellServers, Send, Reaches, Nodes
    <3>3. OneExit(Push(inbox[s], Exit(running)))
      BY <2>1, <3>1, PushExits
    <3> QED
      BY <2>1, <3>2, <3>3 DEF ToldOnceAt
  <2> QED
    BY <1>2, <2>1, <2>2, <2>3, BeforeAndAfter DEF ToldOnceAt
<1> QED
  BY <1>3, <1>4 DEF OrderRest

LEMMA StartServersOrder ==
  ASSUME OrderInv, StartServers
  PROVE  OrderRest'
<1>1. IInv /\ TypeOK /\ OrderRest
  BY OrderParts
<1>2. Manager \in Nodes /\ Manager \notin Servers /\ Servers \subseteq Nodes
  BY ServersAssumption DEF Nodes
<1>3. /\ phase[Manager] = "SETUP" /\ \A s \in Servers : phase'[s] = "created"
      /\ UNCHANGED <<inbox, task, pending, early, failed>>
  BY <1>2 DEF StartServers, ManagerWork
<1>4. ASSUME NEW s \in Servers
      PROVE  ToldOnceAt(s)'
  <2>1. ToldOnceAt(s) /\ ~Told(s) /\ NoExit(inbox[s])
    BY <1>1, <1>3, BeforeAndAfter DEF OrderRest, ToldOnceAt
  <2>2. ~Told(s)'
    BY <1>3, <2>1 DEF Told, Exiting, PastServers, PastThreads, Released
  <2>3. ~(s \in pending /\ task[s].type = "EXIT")
    BY <2>1 DEF Told
  <2> QED
    BY <1>3, <2>1, <2>2, <2>3 DEF ToldOnceAt
<1> QED
  BY <1>3, <1>4 DEF OrderRest, StartedAllOrNone

LEMMA ManagerReceivesOrder ==
  ASSUME OrderInv, ManagerReceives
  PROVE  OrderRest'
<1> DEFINE m == Head(inbox[Manager])
<1>1. TypeOK
  BY OrderParts
<1>2. Manager \in Nodes /\ Manager \notin Servers /\ Servers \subseteq Nodes
  BY ServersAssumption DEF Nodes
<1>3. ManagerSignalled(m) \/ ManagerAnswered(m) \/ ManagerOther(m)
  BY DEF ManagerReceives
<1>4. /\ \A s \in Servers : task'[s] = task[s]
      /\ UNCHANGED <<pending, early, failed>>
  BY <1>1, <1>2 DEF ManagerReceives, TypeOK
<1> HIDE DEF m
<1>5. /\ \A s \in Servers : phase'[s] = phase[s] /\ inbox'[s] = inbox[s]
      /\ phase'[Manager] = phase[Manager] \/ phase[Manager] \notin Exiting
  BY <1>1, <1>2, <1>3 DEF ManagerSignalled, ManagerAnswered, ManagerOther, TypeOK
<1>6. phase'[Manager] \in BeforeExit => phase[Manager] \in BeforeExit
  BY <1>1, <1>2, <1>5 DEF TypeOK, BeforeExit
<1> QED
  BY <1>4, <1>5, <1>6, QuietOrder DEF Quieter

LEMMA ManagerGoesOrder ==
  ASSUME OrderInv, NEW from, NEW to, ManagerGoes(from, to),
         to \in BeforeExit => from \in BeforeExit,
         \A s \in Servers : Quieter(inbox[s], inbox'[s])
  PROVE  OrderRest'
BY OrderParts, ManagerGoesKeeps, QuietOrder

LEMMA ManagerStepOrder ==
  ASSUME OrderInv, ManagerStep
  PROVE  OrderRest'
<1>1. IInv /\ TypeOK /\ MessagesAreTruthful
  BY OrderParts DEF IInv
<1>2. Manager \in Nodes /\ Manager \notin Servers /\ Servers \subseteq Nodes
  BY ServersAssumption DEF Nodes
<1>3. CASE Prepare
  BY <1>3, BeforeAndAfter, ManagerGoesOrder, UnchangedQuietly DEF Prepare
<1>4. CASE StartServers
  BY <1>4, StartServersOrder
<1>5. CASE Watch
  BY <1>5, ManagerGoesOrder, UnchangedQuietly DEF Watch
<1>6. CASE TellServers
  BY <1>6, TellServersOrder
<1>7. CASE AllQuit
  BY <1>7, BeforeAndAfter, Phases, ManagerGoesOrder, UnchangedQuietly DEF AllQuit
<1>8. CASE RelayAnswer
  <2>1. ASSUME NEW s \in Servers
        PROVE  Quieter(inbox[s], inbox'[s])
    <3>1. CASE task[Manager].type = "EXIT_ACK"
      <4>1. task[Manager].from \in Servers
        BY <1>1, <1>2, <3>1 DEF MessagesAreTruthful, Truthful, Acknowledged, TypeOK
      <4>2. /\ Msg("EXIT_ACK", task[Manager].from) \in Message
            /\ Msg("EXIT_ACK", task[Manager].from).type # "EXIT"
        BY <4>1, MsgTypes DEF Msg
      <4>3. Send(running, Msg("EXIT_ACK", task[Manager].from))
        BY <1>8, <3>1 DEF RelayAnswer
      <4> QED
        BY <1>1, <4>2, <4>3, SendQuietly
    <3>2. CASE task[Manager].type # "EXIT_ACK"
      BY <1>8, <3>2, UnchangedQuietly DEF RelayAnswer
    <3> QED
      BY <3>1, <3>2
  <2> QED
    BY <1>8, <2>1, ManagerGoesOrder DEF RelayAnswer
<1>9. CASE ManagerStages
  <2>1. \/ ManagerGoes("EXIT_STAGE1", "EXIT_THREAD")
        \/ ManagerGoes("EXIT_THREAD", "EXIT_STAGE2")
    BY <1>9 DEF ManagerStages
  <2> QED
    BY <1>9, <2>1, BeforeAndAfter, Phases, ManagerGoesOrder, UnchangedQuietly
       DEF ManagerStages
<1>10. CASE ManagerReleases
  <2>1. \A s \in Servers : inbox'[s] = inbox[s]
    BY <1>1, <1>2, <1>10 DEF ManagerReleases, TypeOK
  <2> QED
    BY <1>10, <2>1, BeforeAndAfter, Phases, ManagerGoesOrder DEF ManagerReleases, Quieter
<1>11. CASE ProcessExits
  BY <1>11, BeforeAndAfter, Phases, ManagerGoesOrder, UnchangedQuietly DEF ProcessExits
<1>12. CASE ManagerReceives
  BY <1>12, ManagerReceivesOrder
<1>13. CASE NothingToPop(Manager)
  BY <1>2, <1>13, OthersOrder
<1> QED
  BY <1>3, <1>4, <1>5, <1>6, <1>7, <1>8, <1>9, <1>10, <1>11, <1>12, <1>13 DEF ManagerStep

LEMMA InitOrder ==
  ASSUME Init
  PROVE  OrderInv
<1>1. IInv /\ TypeOK
  BY InitIInv DEF IInv
<1>2. Manager \in Nodes /\ Manager \notin Servers /\ Servers \subseteq Nodes
  BY ServersAssumption DEF Nodes
<1>3. StartedAllOrNone
  BY <1>2 DEF Init, StartedAllOrNone
<1>4. ASSUME NEW s \in Servers
      PROVE  ToldOnceAt(s)
  <2>1. inbox[s] = <<>> /\ phase[s] = "off" /\ early = {} /\ pending = {}
        /\ task[s].type = "OTHER"
    BY <1>2 DEF Init, Msg
  <2>2. NoExit(inbox[s]) /\ OneExit(inbox[s])
    BY <2>1 DEF NoExit, OneExit
  <2>3. ~Told(s)
    BY <2>1 DEF Told, Exiting, PastServers, PastThreads, Released
  <2> QED
    BY <2>1, <2>2, <2>3 DEF ToldOnceAt
<1> QED
  BY <1>1, <1>3, <1>4, OrderRegrouped

LEMMA NextOrder ==
  ASSUME OrderInv, [Next]_vars
  PROVE  OrderInv'
<1>1. IInv'
  BY NextIInv DEF OrderInv
<1>2. OrderRest'
  <2>1. CASE UNCHANGED vars
    BY <2>1, OthersOrder
  <2>2. CASE ManagerStep
    BY <2>2, ManagerStepOrder
  <2>3. ASSUME NEW s \in Servers, ServerStep(s)
        PROVE  OrderRest'
    BY <2>3, ServerWorksOrder, ServerEndsOrder, ServerReceivesOrder, OthersOrder
       DEF ServerStep, Nodes
  <2>4. CASE Signal \/ \E s \in Servers : ThreadStep(s) \/ StopsItself(s) \/ Request(s)
    BY <2>4, OthersOrder
  <2> QED
    BY <2>1, <2>2, <2>3, <2>4 DEF Next
<1> QED
  BY <1>1, <1>2, OrderRegroupedNext DEF OrderRest

(* A server is told to exit at most once, and a START task that the exit   *)
(* has overwritten is answered at once; for every number of servers.       *)
THEOREM ExitIsToldOnce == Spec => []OrderInv
<1>1. Init => OrderInv
  BY InitOrder
<1>2. OrderInv /\ [Next]_vars => OrderInv'
  BY NextOrder
<1> QED
  BY <1>1, <1>2, PTL DEF Spec

-----------------------------------------------------------------------------
(* Every step is a step of ExitOrder, or none.                             *)
OrderStep == [Order!Next]_(Order!vars)

LEMMA OrderStutters ==
  ASSUME \A s \in Servers : /\ phase'[s] = "off" <=> phase[s] = "off"
                            /\ phase'[s] \in PastServers <=> phase[s] \in PastServers,
         failed' = failed, Acknowledged' = Acknowledged,
         phase'[Manager] \in PastServers <=> phase[Manager] \in PastServers
  PROVE  OrderStep
<1>1. (\E s \in Servers : phase'[s] # "off") = (\E s \in Servers : phase[s] # "off")
  OBVIOUS
<1>2. {s \in Servers : phase'[s] \in PastServers} = {s \in Servers : phase[s] \in PastServers}
  OBVIOUS
<1>3. (phase'[Manager] \in PastServers) = (phase[Manager] \in PastServers)
  OBVIOUS
<1>4. UNCHANGED Order!vars
  BY <1>1, <1>2, <1>3 DEF Order!vars
<1> QED
  BY <1>4 DEF OrderStep

(* A step in which only server s changes its status.                       *)
OnlyServer(s) ==
  /\ s \in Servers
  /\ phase[s] # "off" /\ phase'[s] # "off"
  /\ \A n \in Nodes \ {s} : phase'[n] = phase[n]

LEMMA OneServer ==
  ASSUME NEW s, OnlyServer(s)
  PROVE  /\ (\E t \in Servers : phase[t] # "off")
         /\ (\E t \in Servers : phase'[t] # "off")
         /\ phase'[Manager] = phase[Manager]
         /\ \A t \in Servers \ {s} : phase'[t] = phase[t]
BY ServersAssumption DEF OnlyServer, Nodes

LEMMA StepStutters ==
  ASSUME NEW s, OnlyServer(s), failed' = failed, Acknowledged' = Acknowledged,
         phase'[s] \in PastServers <=> phase[s] \in PastServers
  PROVE  OrderStep
<1>1. \A t \in Servers : /\ phase'[t] = "off" <=> phase[t] = "off"
                         /\ phase'[t] \in PastServers <=> phase[t] \in PastServers
  BY OneServer DEF OnlyServer
<1> QED
  BY <1>1, OneServer, OrderStutters

LEMMA StepFails ==
  ASSUME NEW s, OnlyServer(s), failed' = failed \cup {s}, Acknowledged' = Acknowledged,
         phase[s] \notin PastServers, phase'[s] \notin PastServers
  PROVE  OrderStep
<1>1. Order!Fail(s)
  <2>1. {t \in Servers : phase'[t] \in PastServers} = {t \in Servers : phase[t] \in PastServers}
    BY OneServer
  <2>2. (\E t \in Servers : phase'[t] # "off") = (\E t \in Servers : phase[t] # "off")
    BY OneServer
  <2>3. (phase'[Manager] \in PastServers) = (phase[Manager] \in PastServers)
    BY OneServer
  <2> QED
    BY <2>1, <2>2, <2>3, OneServer DEF Order!Fail
<1> QED
  BY <1>1 DEF OrderStep, Order!Next, OnlyServer

LEMMA StepReleases ==
  ASSUME NEW s, OnlyServer(s), failed' = failed, Acknowledged' = Acknowledged,
         phase[s] \notin PastServers, phase'[s] \in PastServers,
         s \in failed \/ WaitsFor[s] \subseteq Acknowledged
  PROVE  OrderStep
<1>1. Order!Release(s)
  <2>1. {t \in Servers : phase'[t] \in PastServers}
          = {t \in Servers : phase[t] \in PastServers} \cup {s}
    BY OneServer DEF OnlyServer
  <2>2. (\E t \in Servers : phase'[t] # "off") = (\E t \in Servers : phase[t] # "off")
    BY OneServer
  <2>3. (phase'[Manager] \in PastServers) = (phase[Manager] \in PastServers)
    BY OneServer
  <2> QED
    BY <2>1, <2>2, <2>3, OneServer DEF Order!Release
<1> QED
  BY <1>1 DEF OrderStep, Order!Next, OnlyServer

LEMMA StepBeginsAgain ==
  ASSUME NEW s, OnlyServer(s), failed' = failed, Acknowledged' = Acknowledged,
         phase[s] \in PastServers, phase'[s] \notin PastServers,
         s \in failed, s \notin Acknowledged
  PROVE  OrderStep
<1>1. Order!BeginAgain(s)
  <2>1. {t \in Servers : phase'[t] \in PastServers}
          = {t \in Servers : phase[t] \in PastServers} \ {s}
    BY OneServer DEF OnlyServer
  <2>2. (\E t \in Servers : phase'[t] # "off") = (\E t \in Servers : phase[t] # "off")
    BY OneServer
  <2>3. (phase'[Manager] \in PastServers) = (phase[Manager] \in PastServers)
    BY OneServer
  <2> QED
    BY <2>1, <2>2, <2>3, OneServer DEF Order!BeginAgain, OnlyServer
<1> QED
  BY <1>1 DEF OrderStep, Order!Next, OnlyServer

LEMMA StepAnswers ==
  ASSUME NEW s, OnlyServer(s), failed' = failed, Acknowledged' = Acknowledged \cup {s},
         phase'[s] \in PastServers <=> phase[s] \in PastServers
  PROVE  OrderStep
<1>1. CASE s \in Acknowledged
  <2>1. Acknowledged' = Acknowledged
    BY <1>1
  <2> QED
    BY <2>1, StepStutters
<1>2. CASE s \notin Acknowledged
  <2>1. {t \in Servers : phase'[t] \in PastServers} = {t \in Servers : phase[t] \in PastServers}
    BY OneServer DEF OnlyServer
  <2>2. (\E t \in Servers : phase'[t] # "off") = (\E t \in Servers : phase[t] # "off")
    BY OneServer
  <2>3. (phase'[Manager] \in PastServers) = (phase[Manager] \in PastServers)
    BY OneServer
  <2>4. Order!Answer(s)
    BY <1>2, <2>1, <2>2, <2>3, OneServer DEF Order!Answer
  <2> QED
    BY <2>4 DEF OrderStep, Order!Next, OnlyServer
<1> QED
  BY <1>1, <1>2

LEMMA WorkInOrder ==
  ASSUME OrderInv, NEW s \in Servers, NEW status \in Loop, Open(s), Work(s, status)
  PROVE  /\ OnlyServer(s) /\ phase'[s] = status
         /\ \/ Acknowledged' = Acknowledged
            \/ phase[s] = "EXIT_INIT" /\ Acknowledged' = Acknowledged \cup {s}
<1>1. TypeOK /\ ToldOnceAt(s)
  BY OrderParts DEF OrderRest
<1>2. phase'[s] = status /\ \A n \in Nodes \ {s} : phase'[n] = phase[n]
  BY <1>1 DEF Work, TypeOK, Nodes
<1>3. OnlyServer(s)
  BY <1>2 DEF OnlyServer, Open, Loop
<1>4. \A t \in Servers : phase'[t] = "gone" <=> phase[t] = "gone"
  BY <1>2 DEF Open, Loop, Released, Nodes
<1>5. early' = early \/ (phase[s] = "EXIT_INIT" /\ early' = early \cup {s})
  BY <1>1 DEF Work, AnswersExit, Finishes, ToldOnceAt
<1> QED
  BY <1>2, <1>3, <1>4, <1>5 DEF Acknowledged

LEMMA ServerStepsInOrder ==
  ASSUME OrderInv, NEW s \in Servers, ServerWorks(s)
  PROVE  OrderStep
<1>1. IInv /\ TypeOK /\ s \in Nodes
  BY OrderParts DEF Nodes
<1>2. CASE ServerInit(s)
  <2>1. OnlyServer(s) /\ phase[s] = "created" /\ phase'[s] = "STARTING"
    BY <1>1, <1>2 DEF ServerInit, OnlyServer, TypeOK
  <2>2. failed' = failed /\ Acknowledged' = Acknowledged
    BY <1>2, <2>1, OneServer DEF ServerInit, Acknowledged
  <2> QED
    BY <2>1, <2>2, Phases, StepStutters
<1>3. CASE Starting(s)
  BY <1>3, Phases, WorkInOrder, StepStutters DEF Starting, Open, Released
<1>4. CASE Started(s)
  BY <1>4, Phases, WorkInOrder, StepStutters DEF Started, Open, Released
<1>5. CASE StartFails(s)
  BY <1>5, Phases, WorkInOrder, StepFails DEF StartFails, Open, Released
<1>6. CASE Run(s)
  BY <1>6, Phases, WorkInOrder, StepStutters DEF Run, Open, Released
<1>7. CASE ErrorExits(s)
  BY <1>7, Phases, WorkInOrder, StepStutters DEF ErrorExits, Open, Released
<1>8. CASE ExitInit(s)
  <2>1. OnlyServer(s) /\ phase'[s] = "EXIT_SERVER" /\ failed' = failed
        /\ (Acknowledged' = Acknowledged \/ Acknowledged' = Acknowledged \cup {s})
    BY <1>8, Phases, WorkInOrder DEF ExitInit, Open, Released
  <2>2. phase'[s] \in PastServers <=> phase[s] \in PastServers
    BY <1>8, <2>1, Phases DEF ExitInit
  <2> QED
    BY <2>1, <2>2, StepStutters, StepAnswers
<1>9. CASE ExitServer(s)
  <2>1. phase[s] = "EXIT_SERVER" /\ Open(s) /\ failed' = failed
    BY <1>9 DEF ExitServer, Open, Released
  <2>2. CASE quit[s] = {}
    <3>1. Work(s, "EXIT_STAGE1")
      BY <1>9, <2>2 DEF ExitServer
    <3>2. OnlyServer(s) /\ phase'[s] = "EXIT_STAGE1" /\ Acknowledged' = Acknowledged
      BY <2>1, <3>1, Phases, WorkInOrder
    <3>3. s \in failed \/ WaitsFor[s] \subseteq Acknowledged
      BY <1>1, <2>1, <2>2, OpenServer
    <3> QED
      BY <2>1, <3>2, <3>3, Phases, StepReleases
  <2>3. CASE quit[s] # {}
    <3>1. Work(s, "EXIT_SERVER")
      BY <1>9, <2>3 DEF ExitServer
    <3>2. OnlyServer(s) /\ phase'[s] = "EXIT_SERVER" /\ Acknowledged' = Acknowledged
      BY <2>1, <3>1, Phases, WorkInOrder
    <3> QED
      BY <2>1, <3>2, StepStutters
  <2> QED
    BY <2>2, <2>3
<1>10. CASE ExitStage1(s)
  BY <1>10, Phases, WorkInOrder, StepStutters DEF ExitStage1, Open, Released
<1>11. CASE ExitThread(s)
  <2>1. PICK status \in {"EXIT_THREAD", "EXIT_STAGE2"} : Work(s, status)
    BY <1>11 DEF ExitThread
  <2> QED
    BY <1>11, <2>1, Phases, WorkInOrder, StepStutters DEF ExitThread, Open, Released
<1>12. CASE ExitStage2(s)
  BY <1>12, Phases, WorkInOrder, StepStutters DEF ExitStage2, Open, Released
<1>13. CASE Leave(s)
  <2>1. OnlyServer(s) /\ phase[s] = "EXIT_FINISH" /\ phase'[s] = "gone"
    BY <1>1, <1>13 DEF Leave, OnlyServer, TypeOK
  <2>2. failed' = failed /\ Acknowledged' = Acknowledged \cup {s}
    BY <1>13, <2>1, OneServer DEF Leave, Acknowledged
  <2> QED
    BY <2>1, <2>2, Phases, StepAnswers
<1> QED
  BY <1>2, <1>3, <1>4, <1>5, <1>6, <1>7, <1>8, <1>9, <1>10, <1>11, <1>12, <1>13 DEF ServerWorks

(* MSG_MANAGER_EXIT finds a server past its exit condition only if it has  *)
(* failed and has not answered.                                            *)
LEMMA ReceiptsInOrder ==
  ASSUME OrderInv, NEW s \in Servers, ServerReceives(s)
  PROVE  OrderStep
<1> DEFINE m == Head(inbox[s])
<1>1. TypeOK /\ ServerOK(s) /\ ToldOnceAt(s) /\ s \in Nodes
  BY OrderParts, Regrouped DEF OrderRest, Nodes
<1>2. m.type = "EXIT" => ~NoExit(inbox[s])
  <2>1. inbox[s] \in Seq(Message) /\ inbox[s] # <<>>
    BY <1>1 DEF ServerReceives, Pops, TypeOK
  <2> QED
    BY <2>1, TailExits
<1>3. phase[s] \notin {"off", "gone"} /\ early' = early /\ failed' = failed
  BY <1>1 DEF ServerReceives, Pops, ServerOK
<1>4. ReceiveExit(s, m) \/ ReceiveExitAck(s, m) \/ ReceiveStart(s, m) \/ ReceiveOther(s, m)
  BY DEF ServerReceives
<1> HIDE DEF m
<1>5. /\ phase'[s] = phase[s] \/ (m.type = "EXIT" /\ phase'[s] = "EXIT_INIT")
      /\ \A n \in Nodes \ {s} : phase'[n] = phase[n]
  BY <1>1, <1>4 DEF ReceiveExit, ReceiveExitAck, ReceiveStart, ReceiveOther, TypeOK
<1>6. OnlyServer(s)
  BY <1>3, <1>5 DEF OnlyServer
<1>7. Acknowledged' = Acknowledged
  BY <1>3, <1>5, <1>6, OneServer DEF Acknowledged
<1>8. CASE phase'[s] = phase[s] \/ phase[s] \notin PastServers
  BY <1>3, <1>5, <1>6, <1>7, <1>8, Phases, StepStutters
<1>9. CASE phase'[s] # phase[s] /\ phase[s] \in PastServers
  <2>1. ~Told(s)
    BY <1>1, <1>2, <1>5, <1>9 DEF ToldOnceAt
  <2>2. s \in failed /\ s \notin Acknowledged
    BY <1>3, <1>9, <2>1 DEF Told, Exiting, Acknowledged
  <2> QED
    BY <1>3, <1>5, <1>6, <1>7, <1>9, <2>2, Phases, StepBeginsAgain
<1> QED
  BY <1>8, <1>9

LEMMA OthersInOrder ==
  ASSUME \/ \E s \in Servers : ThreadStep(s) \/ StopsItself(s) \/ Request(s)
         \/ Signal
         \/ \E n \in Nodes : NothingToPop(n)
         \/ UNCHANGED vars
  PROVE  OrderStep
<1>1. UNCHANGED <<phase, early, failed>>
  BY DEF ThreadStep, Registers, ReturnsAtOnce, StopsAsTold, StopsItself, Ends, ThreadIs,
     Request, Signal, NothingToPop, vars
<1> QED
  BY <1>1, OrderStutters DEF Acknowledged

(* The manager: only the start and the end of the waiting are seen.        *)
LEMMA ManagerStutters ==
  ASSUME \A s \in Servers : phase'[s] = phase[s], early' = early, failed' = failed,
         phase'[Manager] \in PastServers <=> phase[Manager] \in PastServers
  PROVE  OrderStep
BY OrderStutters DEF Acknowledged

LEMMA ManagerStepsInOrder ==
  ASSUME OrderInv, ManagerStep
  PROVE  OrderStep
<1>1. IInv /\ TypeOK /\ ManagerOK /\ StartedAllOrNone
  BY OrderParts, Regrouped DEF OrderRest
<1>2. Manager \in Nodes /\ Manager \notin Servers /\ Servers \subseteq Nodes
  BY ServersAssumption DEF Nodes
<1>3. ASSUME NEW from, NEW to, ManagerGoes(from, to),
             to \in PastServers <=> from \in PastServers
      PROVE  OrderStep
  BY <1>1, <1>3, ManagerGoesKeeps, ManagerStutters
<1>4. CASE StartServers
  <2>1. /\ phase[Manager] = "SETUP" /\ phase'[Manager] = "RUN"
        /\ \A s \in Servers : phase[s] = "off" /\ phase'[s] = "created"
        /\ early' = early /\ failed' = failed
    BY <1>1, <1>2, <1>4 DEF StartServers, ManagerWork, ManagerOK, StartedTogether
  <2>2. Acknowledged' = Acknowledged
    BY <2>1 DEF Acknowledged
  <2>3. CASE Servers = {}
    BY <2>1, <2>2, <2>3, Phases, OrderStutters
  <2>4. CASE Servers # {}
    <3>1. ~(\E s \in Servers : phase[s] # "off") /\ (\E s \in Servers : phase'[s] # "off")
      BY <2>1, <2>4
    <3>2. (\E s \in Servers : phase'[s] # "off") = TRUE
      BY <3>1
    <3>3. {s \in Servers : phase'[s] \in PastServers} = {s \in Servers : phase[s] \in PastServers}
      BY <2>1, Phases
    <3>4. /\ (phase'[Manager] \in PastServers) = (phase[Manager] \in PastServers)
          /\ ~(phase[Manager] \in PastServers)
      BY <2>1, Phases
    <3>5. Order!Start
      BY <2>1, <2>2, <3>1, <3>2, <3>3, <3>4 DEF Order!Start
    <3> QED
      BY <3>5 DEF OrderStep, Order!Next
  <2> QED
    BY <2>3, <2>4
<1>5. CASE AllQuit
  <2>1. /\ running = {} /\ phase[Manager] = "EXIT_SERVER" /\ phase'[Manager] = "EXIT_STAGE1"
        /\ \A s \in Servers : phase'[s] = phase[s]
        /\ early' = early /\ failed' = failed
    BY <1>1, <1>5, ManagerGoesKeeps DEF AllQuit
  <2>2. Acknowledged' = Acknowledged
    BY <2>1 DEF Acknowledged
  <2>3. (\E s \in Servers : phase[s] # "off") => Servers \subseteq Acknowledged
    BY <1>1, <2>1 DEF ManagerOK, StartedAllOrNone
  <2>4. (\E s \in Servers : phase'[s] # "off") = (\E s \in Servers : phase[s] # "off")
    BY <2>1
  <2>5. {s \in Servers : phase'[s] \in PastServers} = {s \in Servers : phase[s] \in PastServers}
    BY <2>1
  <2>6. ~(phase[Manager] \in PastServers) /\ (phase'[Manager] \in PastServers) = TRUE
    BY <2>1, Phases
  <2>7. Order!Over
    BY <2>1, <2>2, <2>3, <2>4, <2>5, <2>6 DEF Order!Over
  <2> QED
    BY <2>7 DEF OrderStep, Order!Next
<1>6. CASE ManagerReceives
  <2> DEFINE m == Head(inbox[Manager])
  <2>1. ManagerSignalled(m) \/ ManagerAnswered(m) \/ ManagerOther(m)
    BY <1>6 DEF ManagerReceives
  <2>2. early' = early /\ failed' = failed
    BY <1>6 DEF ManagerReceives
  <2> HIDE DEF m
  <2>3. /\ \A s \in Servers : phase'[s] = phase[s]
        /\ \/ phase'[Manager] = phase[Manager]
           \/ phase[Manager] \notin Exiting /\ phase'[Manager] = "EXIT_INIT"
    BY <1>1, <1>2, <2>1 DEF ManagerSignalled, ManagerAnswered, ManagerOther, TypeOK
  <2> QED
    BY <2>2, <2>3, Phases, ManagerStutters DEF Exiting
<1>7. CASE Prepare
  BY <1>3, <1>7, Phases DEF Prepare
<1>8. CASE Watch
  BY <1>3, <1>8 DEF Watch
<1>9. CASE TellServers
  BY <1>3, <1>9, Phases DEF TellServers
<1>10. CASE RelayAnswer
  BY <1>3, <1>10 DEF RelayAnswer
<1>11. CASE ManagerStages
  BY <1>3, <1>11, Phases DEF ManagerStages
<1>12. CASE ManagerReleases
  BY <1>3, <1>12, Phases DEF ManagerReleases
<1>13. CASE ProcessExits
  BY <1>3, <1>13, Phases DEF ProcessExits
<1>14. CASE NothingToPop(Manager)
  BY <1>2, <1>14, OthersInOrder
<1> QED
  BY <1>4, <1>5, <1>6, <1>7, <1>8, <1>9, <1>10, <1>11, <1>12, <1>13, <1>14 DEF ManagerStep

LEMMA NextInOrder ==
  ASSUME OrderInv, [Next]_vars
  PROVE  OrderStep
<1>1. CASE UNCHANGED vars
  BY <1>1, OthersInOrder
<1>2. CASE ManagerStep
  BY <1>2, ManagerStepsInOrder
<1>3. ASSUME NEW s \in Servers, ServerStep(s)
      PROVE  OrderStep
  BY <1>3, ServerStepsInOrder, ReceiptsInOrder, OthersInOrder DEF ServerStep, Nodes
<1>4. CASE Signal \/ \E s \in Servers : ThreadStep(s) \/ StopsItself(s) \/ Request(s)
  BY <1>4, OthersInOrder
<1> QED
  BY <1>1, <1>2, <1>3, <1>4 DEF Next

LEMMA InitInOrder ==
  ASSUME Init
  PROVE  Order!Init
<1>1. Manager \in Nodes /\ Manager \notin Servers /\ Servers \subseteq Nodes
  BY ServersAssumption DEF Nodes
<1>2. /\ \A s \in Servers : phase[s] = "off"
      /\ phase[Manager] = "NONE" /\ early = {} /\ failed = {}
  BY <1>1 DEF Init
<1>3. (\E s \in Servers : phase[s] # "off") = FALSE
  BY <1>2
<1>4. {s \in Servers : phase[s] \in PastServers} = {} /\ Acknowledged = {}
  BY <1>2, Phases DEF Acknowledged
<1>5. (phase[Manager] \in PastServers) = FALSE
  BY <1>2, Phases
<1> QED
  BY <1>2, <1>3, <1>4, <1>5 DEF Order!Init

(* The exit protocol with its messages, losses and overtakings implements  *)
(* ExitOrder, for every set of servers and every exit condition: servers   *)
(* release in the order of the exit conditions, answer once for all, and   *)
(* the manager stops waiting when all have answered.                       *)
THEOREM ExitFollowsOrder == Spec => ImplementsExitOrder
<1>1. Init => Order!Init
  BY InitInOrder
<1>2. OrderInv /\ [Next]_vars => [Order!Next]_(Order!vars)
  BY NextInOrder DEF OrderStep
<1> QED
  BY <1>1, <1>2, ExitIsToldOnce, PTL DEF Spec, ImplementsExitOrder

-----------------------------------------------------------------------------
(* Exit messages stay in a buffer until they are taken, unless one is lost. *)
Kept(q, r) == \A i \in DOMAIN q : IsExit(q[i]) => \E j \in DOMAIN r : r[j] = q[i]

LEMMA KeptTells ==
  ASSUME NEW q, NEW r, Kept(q, r), NEW t
  PROVE  (Tells(q, t) => Tells(r, t)) /\ (Spares(q, t) => Spares(r, t))
BY DEF Kept, Tells, Spares, IsExit

LEMMA KeptUnchanged == \A q : Kept(q, q)
BY DEF Kept

LEMMA AppendKept ==
  ASSUME NEW q \in Seq(Message), NEW m \in Message
  PROVE  /\ \A i \in DOMAIN q : \E j \in DOMAIN Append(q, m) : Append(q, m)[j] = q[i]
         /\ \E j \in DOMAIN Append(q, m) : Append(q, m)[j] = m
<1>1. /\ DOMAIN q = 1 .. Len(q) /\ DOMAIN Append(q, m) = 1 .. Len(q) + 1 /\ Len(q) \in Nat
      /\ \A i \in 1 .. Len(q) : Append(q, m)[i] = q[i]
      /\ Append(q, m)[Len(q) + 1] = m
  BY AppendProperties, LenProperties
<1>2. \A i \in 1 .. Len(q) : i \in 1 .. Len(q) + 1
  BY <1>1
<1>3. Len(q) + 1 \in 1 .. Len(q) + 1
  BY <1>1
<1> QED
  BY <1>1, <1>2, <1>3

LEMMA TailKept ==
  ASSUME NEW q \in Seq(Message), q # <<>>
  PROVE  \A i \in DOMAIN q : q[i] = Head(q) \/ \E j \in DOMAIN Tail(q) : Tail(q)[j] = q[i]
<1> DEFINE t == Tail(q)
<1>1. /\ Head(q) = q[1] /\ DOMAIN q = 1 .. Len(q) /\ Len(q) \in Nat
      /\ DOMAIN t = 1 .. Len(q) - 1
      /\ \A i \in 1 .. Len(q) - 1 : t[i] = q[i + 1]
  OBVIOUS
<1> HIDE DEF t
<1>2. ASSUME NEW i \in DOMAIN q, i # 1
      PROVE  i - 1 \in DOMAIN t /\ t[i - 1] = q[i]
  <2>1. i - 1 \in 1 .. Len(q) - 1 /\ (i - 1) + 1 = i
    BY <1>1, <1>2
  <2> QED
    BY <1>1, <2>1
<1> QED
  BY <1>1, <1>2 DEF t

LEMMA PushKept ==
  ASSUME NEW q \in Seq(Message), NEW m \in Message, ~(Len(q) = Capacity /\ IsExit(Head(q)))
  PROVE  Kept(q, Push(q, m)) /\ \E j \in DOMAIN Push(q, m) : Push(q, m)[j] = m
<1>1. CASE Len(q) = Capacity
  <2>1. q # <<>>
    BY <1>1, BoundsAssumption
  <2>2. Tail(q) \in Seq(Message)
    BY <2>1
  <2>3. Push(q, m) = Append(Tail(q), m)
    BY <1>1 DEF Push
  <2>4. \A i \in DOMAIN q : IsExit(q[i]) => \E j \in DOMAIN Tail(q) : Tail(q)[j] = q[i]
    BY <1>1, <2>1, TailKept
  <2>5. /\ \A i \in DOMAIN Tail(q) :
             \E j \in DOMAIN Push(q, m) : Push(q, m)[j] = Tail(q)[i]
        /\ \E j \in DOMAIN Push(q, m) : Push(q, m)[j] = m
    <3>1. /\ \A i \in DOMAIN Tail(q) :
               \E j \in DOMAIN Append(Tail(q), m) : Append(Tail(q), m)[j] = Tail(q)[i]
          /\ \E j \in DOMAIN Append(Tail(q), m) : Append(Tail(q), m)[j] = m
      BY <2>2, AppendKept
    <3> QED
      BY <2>3, <3>1, Zenon
  <2>6. \A i \in DOMAIN q : IsExit(q[i]) => \E j \in DOMAIN Push(q, m) : Push(q, m)[j] = q[i]
    BY <2>4, <2>5, Zenon
  <2> QED
    BY <2>5, <2>6, Zenon DEF Kept
<1>2. CASE Len(q) # Capacity
  <2>1. Push(q, m) = Append(q, m)
    BY <1>2 DEF Push
  <2>2. /\ \A i \in DOMAIN q : \E j \in DOMAIN Push(q, m) : Push(q, m)[j] = q[i]
        /\ \E j \in DOMAIN Push(q, m) : Push(q, m)[j] = m
    BY <2>1, AppendKept
  <2> QED
    BY <2>2, Zenon DEF Kept
<1> QED
  BY <1>1, <1>2

LEMMA ReachesKept ==
  ASSUME TypeOK, NEW to, NEW m \in Message, ~Loses(to, m), NEW n \in Nodes
  PROVE  /\ Kept(inbox[n], Reaches(to, m)[n])
         /\ n \in to /\ Open(n) => \E j \in DOMAIN Reaches(to, m)[n] : Reaches(to, m)[n][j] = m
<1>1. inbox[n] \in Seq(Message)
  BY DEF TypeOK
<1>2. CASE n \in to /\ Open(n)
  <2>1. Reaches(to, m)[n] = Push(inbox[n], m)
    BY <1>2 DEF Reaches
  <2>2. ~(Len(inbox[n]) = Capacity /\ IsExit(Head(inbox[n])))
    BY <1>2 DEF Loses
  <2> QED
    BY <1>1, <2>1, <2>2, PushKept
<1>3. CASE ~(n \in to /\ Open(n))
  <2>1. Reaches(to, m)[n] = inbox[n]
    BY <1>3 DEF Reaches
  <2> QED
    BY <1>3, <2>1, KeptUnchanged
<1> QED
  BY <1>2, <1>3

LEMMA SendKept ==
  ASSUME TypeOK, NEW to, NEW m \in Message, Send(to, m), ~lost'
  PROVE  /\ ~lost /\ ~Loses(to, m)
         /\ \A n \in Nodes : Kept(inbox[n], inbox'[n])
         /\ \A n \in to \cap Nodes : Open(n) => \E j \in DOMAIN inbox'[n] : inbox'[n][j] = m
<1>1. ~lost /\ ~Loses(to, m)
  BY Zenon DEF Send
<1> QED
  BY <1>1, ReachesKept DEF Send

-----------------------------------------------------------------------------
(* The invariant of the answers, server by server.                         *)
ManagerHears == ~lost => \A t \in running \cap Acknowledged : Tells(inbox[Manager], t)

ComesTo(s) ==
  ~lost /\ phase[Manager] \notin BeforeExit /\ s \in running \ Acknowledged =>
    /\ phase[s] # "created"
    /\ \A t \in quit[s] \cap Acknowledged : Coming(t, s)

WaitsAt(s) ==
  /\ phase[s] \in PastServers => quit[s] = {}
  /\ phase[s] = "EXIT_SERVER" /\ quit[s] # {} =>
       NoExit(inbox[s]) /\ phase[Manager] \notin BeforeExit

AnswerRest ==
  ManagerHears /\ ManagerListens /\ \A s \in Servers : ComesTo(s) /\ WaitsAt(s)

LEMMA AnswersRegrouped ==
  ASSUME running \subseteq Servers
  PROVE  AnswerRest <=> AnswersCome /\ WaitsAsTold /\ ManagerListens
BY DEF AnswerRest, ManagerHears, ComesTo, WaitsAt, AnswersCome, WaitsAsTold

LEMMA AnswerParts ==
  ASSUME AnswerInv
  PROVE  /\ OrderInv /\ IInv /\ TypeOK /\ OrderRest /\ AnswerRest /\ ManagerOK
         /\ running \subseteq Servers
<1>1. OrderInv /\ IInv /\ TypeOK /\ OrderRest /\ ManagerOK
  BY OrderParts, Regrouped DEF AnswerInv
<1> QED
  BY <1>1, AnswersRegrouped DEF AnswerInv, TypeOK

(* A server that runs has been started, and the manager waits for it until *)
(* it has answered.                                                        *)
LEMMA StillRunning ==
  ASSUME AnswerInv, NEW s \in Servers, s \notin Acknowledged, phase[s] # "off"
  PROVE  s \in running /\ phase[Manager] \notin PastServers /\ Open(Manager)
<1>1. s \in running /\ phase[Manager] \notin PastServers
  BY AnswerParts DEF ManagerOK
<1> QED
  BY <1>1, AnswerParts, Phases DEF Open, AnswerRest, ManagerListens, Released

LEMMA WaitsUndisturbed ==
  ASSUME NEW s \in Servers, WaitsAt(s), quit'[s] \subseteq quit[s],
         Quieter(inbox[s], inbox'[s]),
         phase'[s] = phase[s] \/ phase'[s] \notin PastServers \cup {"EXIT_SERVER"},
         phase[Manager] \notin BeforeExit => phase'[Manager] \notin BeforeExit
  PROVE  WaitsAt(s)'
BY DEF WaitsAt, Quieter

(* What is coming to a server that the step leaves alone still comes.      *)
LEMMA ComesUndisturbed ==
  ASSUME NEW s \in Servers, ComesTo(s),
         ~lost' => /\ ~lost
                   /\ Kept(inbox[Manager], inbox'[Manager])
                   /\ Kept(inbox[s], inbox'[s])
                   /\ \A t \in Acknowledged' \ Acknowledged : Tells(inbox'[Manager], t),
         running' \subseteq running, Acknowledged \subseteq Acknowledged',
         phase'[Manager] = phase[Manager], task'[Manager] = task[Manager],
         pc[Manager] = "work" => pc'[Manager] = "work",
         quit'[s] \subseteq quit[s], phase'[s] = "created" => phase[s] = "created",
         phase[s] = "EXIT_INIT" /\ pc[s] = "work" =>
           phase'[s] = phase[s] /\ pc'[s] = pc[s] /\ task'[s] = task[s]
  PROVE  ComesTo(s)'
<1> SUFFICES ASSUME ~lost', phase'[Manager] \notin BeforeExit, s \in running' \ Acknowledged'
             PROVE  /\ phase'[s] # "created"
                    /\ \A t \in quit'[s] \cap Acknowledged' : Coming(t, s)'
  BY DEF ComesTo
<1>1. /\ ~lost /\ phase[Manager] \notin BeforeExit /\ s \in running \ Acknowledged
      /\ Kept(inbox[Manager], inbox'[Manager]) /\ Kept(inbox[s], inbox'[s])
  OBVIOUS
<1>2. phase[s] # "created" /\ \A t \in quit[s] \cap Acknowledged : Coming(t, s)
  BY <1>1 DEF ComesTo
<1>3. ASSUME NEW t \in quit'[s] \cap Acknowledged'
      PROVE  Coming(t, s)'
  <2>1. CASE t \in Acknowledged
    <3>1. Coming(t, s)
      BY <1>2, <2>1
    <3> QED
      BY <1>1, <3>1, KeptTells DEF Coming, OnItsWay
  <2>2. CASE t \notin Acknowledged
    <3>1. Tells(inbox'[Manager], t)
      BY <2>2
    <3> QED
      BY <3>1 DEF Coming, OnItsWay
  <2> QED
    BY <2>1, <2>2
<1> QED
  BY <1>2, <1>3

LEMMA HearsUndisturbed ==
  ASSUME ManagerHears, running' \subseteq running,
         ~lost' => /\ ~lost
                   /\ Kept(inbox[Manager], inbox'[Manager])
                   /\ \A t \in Acknowledged' \ Acknowledged : Tells(inbox'[Manager], t)
  PROVE  ManagerHears'
BY KeptTells DEF ManagerHears

-----------------------------------------------------------------------------
(* Steps of threads, clients and signals, and turns without a message.     *)
LEMMA OthersAnswer ==
  ASSUME AnswerInv,
         \/ \E s \in Servers : ThreadStep(s) \/ StopsItself(s) \/ Request(s)
         \/ Signal
         \/ \E n \in Nodes : NothingToPop(n)
         \/ UNCHANGED vars
  PROVE  AnswerRest'
<1>1. OrderInv /\ TypeOK /\ AnswerRest
  BY AnswerParts
<1>2. Manager \in Nodes /\ Servers \subseteq Nodes
  BY DEF Nodes
<1>3. UNCHANGED <<phase, task, quit, running, early, failed>>
  BY DEF ThreadStep, Registers, ReturnsAtOnce, StopsAsTold, StopsItself, Ends, ThreadIs,
     Request, Signal, NothingToPop, vars
<1>4. Acknowledged' = Acknowledged
  BY <1>3 DEF Acknowledged
<1>5. \A n \in Nodes : pc[n] = "work" => pc'[n] = "work"
  <2>1. pc' = pc \/ \E n \in Nodes : NothingToPop(n)
    BY DEF ThreadStep, Registers, ReturnsAtOnce, StopsAsTold, StopsItself, Ends, ThreadIs,
       Request, Signal, vars
  <2> QED
    BY <1>1, <2>1 DEF NothingToPop, TypeOK
<1>6. \/ inbox' = inbox /\ lost' = lost
      \/ \E to : \E m \in Message : m.type # "EXIT" /\ Send(to, m)
  <2>1. ASSUME NEW s \in Servers, ThreadStep(s) \/ StopsItself(s)
        PROVE  UNCHANGED <<inbox, lost>> \/ Send({s}, Msg("OTHER", s))
    BY <2>1 DEF ThreadStep, Registers, ReturnsAtOnce, StopsAsTold, StopsItself, Ends
  <2>2. ASSUME NEW s \in Servers, Request(s)
        PROVE  \E type \in {"START", "OTHER"} : Send({s}, Msg(type, Client))
    BY <2>2 DEF Request
  <2>3. Signal => Send({Manager}, Msg("SIGINT", Manager))
    BY DEF Signal
  <2>4. UNCHANGED vars \/ (\E n \in Nodes : NothingToPop(n)) => UNCHANGED <<inbox, lost>>
    BY DEF NothingToPop, vars
  <2>5. /\ \A s \in Servers : Msg("OTHER", s).type # "EXIT"
        /\ \A type \in {"START", "OTHER"} : Msg(type, Client).type # "EXIT"
        /\ Msg("SIGINT", Manager).type # "EXIT"
    BY DEF Msg
  <2> QED
    BY <2>1, <2>2, <2>3, <2>4, <2>5, MsgTypes
<1>7. ~lost' => ~lost /\ \A n \in Nodes : Kept(inbox[n], inbox'[n])
  BY <1>1, <1>6, SendKept, KeptUnchanged
<1>8. \A s \in Servers : Quieter(inbox[s], inbox'[s])
  BY <1>1, <1>6, UnchangedQuietly, SendQuietly
<1>9. ManagerHears'
  BY <1>1, <1>2, <1>3, <1>4, <1>7, HearsUndisturbed DEF AnswerRest
<1>10. ASSUME NEW s \in Servers
       PROVE  ComesTo(s)' /\ WaitsAt(s)'
  <2>1. ComesTo(s)'
    <3>1. phase[s] = "EXIT_INIT" /\ pc[s] = "work" => pc'[s] = pc[s]
      BY <1>2, <1>5
    <3> QED
      BY <1>1, <1>2, <1>3, <1>4, <1>5, <1>7, <3>1, ComesUndisturbed DEF AnswerRest
  <2>2. WaitsAt(s)'
    BY <1>1, <1>3, <1>8, WaitsUndisturbed DEF AnswerRest
  <2> QED
    BY <2>1, <2>2
<1> QED
  BY <1>1, <1>3, <1>9, <1>10 DEF AnswerRest, ManagerListens

(* A step of one server. The others are left alone.                        *)
LEMMA ServerAnswers ==
  ASSUME AnswerInv, NEW s \in Servers,
         \A n \in Nodes \ {s} : phase'[n] = phase[n] /\ pc'[n] = pc[n] /\ task'[n] = task[n],
         \A t \in Servers \ {s} : quit'[t] = quit[t],
         running' = running, Acknowledged \subseteq Acknowledged',
         ~lost' => /\ ~lost
                   /\ \A n \in Nodes \ {s} : Kept(inbox[n], inbox'[n])
                   /\ \A t \in Acknowledged' \ Acknowledged : Tells(inbox'[Manager], t),
         \A t \in Servers \ {s} : Quieter(inbox[t], inbox'[t]),
         ComesTo(s)', WaitsAt(s)'
  PROVE  AnswerRest'
<1>1. AnswerRest
  BY AnswerParts
<1>2. Manager \in Nodes \ {s} /\ Servers \subseteq Nodes
  BY ServersAssumption DEF Nodes
<1>3. ManagerHears'
  BY <1>1, <1>2, HearsUndisturbed DEF AnswerRest
<1>4. ASSUME NEW t \in Servers \ {s}
      PROVE  ComesTo(t)' /\ WaitsAt(t)'
  <2>1. ComesTo(t)'
    BY <1>1, <1>2, ComesUndisturbed DEF AnswerRest
  <2>2. WaitsAt(t)'
    BY <1>1, <1>2, WaitsUndisturbed DEF AnswerRest
  <2> QED
    BY <2>1, <2>2
<1> QED
  BY <1>1, <1>2, <1>3, <1>4 DEF AnswerRest, ManagerListens

(* One call of state_machine and task_proc: if it answers, the manager has *)
(* the answer.                                                             *)
LEMMA WorkSends ==
  ASSUME AnswerInv, NEW s \in Servers, NEW status \in Loop, Open(s), Work(s, status), ~lost'
  PROVE  /\ ~lost
         /\ \A n \in Nodes \ {s} : Kept(inbox[n], inbox'[n])
         /\ status # "EXIT_FINISH" => Kept(inbox[s], inbox'[s])
         /\ \A t \in Acknowledged' \ Acknowledged : Tells(inbox'[Manager], t)
<1> DEFINE to == Answered(s, status)
           m == Msg("EXIT_ACK", s)
<1>1. TypeOK /\ OrderInv
  BY AnswerParts
<1>2. Manager \in Nodes \ {s} /\ s \in Nodes /\ m \in Message
  BY ServersAssumption, MsgTypes DEF Nodes
<1>3. ~lost /\ ~Loses(to, m)
  BY Zenon DEF Work
<1>4. \A n \in Nodes : /\ Kept(inbox[n], Reaches(to, m)[n])
                       /\ n \in to /\ Open(n) =>
                            \E j \in DOMAIN Reaches(to, m)[n] : Reaches(to, m)[n][j] = m
  BY <1>1, <1>2, <1>3, ReachesKept
<1>5. /\ \A n \in Nodes \ {s} : inbox'[n] = Reaches(to, m)[n]
      /\ status # "EXIT_FINISH" => inbox'[s] = Reaches(to, m)[s]
  BY <1>2 DEF Work, Reaches
<1>6. ASSUME NEW t \in Acknowledged' \ Acknowledged
      PROVE  Tells(inbox'[Manager], t)
  <2>1. t = s /\ Manager \in to
    BY <1>6 DEF Work, Acknowledged, Answered, Loop
  <2>2. Open(Manager)
    BY <1>6, <2>1, StillRunning DEF Open
  <2>3. \E j \in DOMAIN inbox'[Manager] : inbox'[Manager][j] = m
    BY <1>2, <1>4, <1>5, <2>1, <2>2
  <2> QED
    BY <2>1, <2>3 DEF Tells, Msg
<1> QED
  BY <1>2, <1>3, <1>4, <1>5, <1>6

LEMMA WorkAnswers ==
  ASSUME AnswerInv, NEW s \in Servers, NEW status \in Loop, Open(s), Work(s, status),
         phase[s] # "EXIT_INIT", quit' = quit,
         status \in PastServers => quit[s] = {},
         status = "EXIT_SERVER" => phase[s] = "EXIT_SERVER"
  PROVE  AnswerRest'
<1>1. TypeOK /\ IInv /\ AnswerRest
  BY AnswerParts
<1>2. s \in Nodes /\ Manager \in Nodes \ {s} /\ Servers \subseteq Nodes
  BY ServersAssumption DEF Nodes
<1>3. /\ phase'[s] = status
      /\ \A n \in Nodes \ {s} : phase'[n] = phase[n] /\ pc'[n] = pc[n] /\ task'[n] = task[n]
      /\ running' = running
  BY <1>1, <1>2 DEF Work, TypeOK
<1>4. Acknowledged \subseteq Acknowledged'
  BY <1>1, WorkAcknowledges
<1>5. \A t \in Servers : Quieter(inbox[t], inbox'[t])
  BY <1>1, WorkQuietly
<1>6. ComesTo(s)'
  <2>1. CASE status = "EXIT_FINISH"
    <3>1. quit'[s] = {} /\ phase'[s] # "created"
      BY <1>3, <2>1, Phases
    <3> QED
      BY <3>1 DEF ComesTo
  <2>2. CASE status # "EXIT_FINISH"
    <3>1. ~lost' => /\ ~lost
                    /\ Kept(inbox[Manager], inbox'[Manager])
                    /\ Kept(inbox[s], inbox'[s])
                    /\ \A t \in Acknowledged' \ Acknowledged : Tells(inbox'[Manager], t)
      BY <1>2, <2>2, WorkSends
    <3>2. ComesTo(s) /\ phase'[s] # "created"
      BY <1>1, <1>3, Phases DEF AnswerRest
    <3> QED
      BY <1>2, <1>3, <1>4, <3>1, <3>2, ComesUndisturbed
  <2> QED
    BY <2>1, <2>2
<1>7. WaitsAt(s)'
  <2>1. WaitsAt(s)
    BY <1>1 DEF AnswerRest
  <2> QED
    BY <1>2, <1>3, <1>5, <2>1 DEF WaitsAt, Quieter
<1> QED
  BY <1>2, <1>3, <1>4, <1>5, <1>6, <1>7, WorkSends, ServerAnswers

(* EXIT_INIT: those the manager does not name are struck off; the others   *)
(* are still to come.                                                      *)
LEMMA ExitInitAnswers ==
  ASSUME AnswerInv, NEW s \in Servers, ExitInit(s)
  PROVE  AnswerRest'
<1>1. TypeOK /\ IInv /\ OrderRest /\ AnswerRest /\ MessagesAreTruthful
  BY AnswerParts DEF IInv
<1>2. s \in Nodes /\ Manager \in Nodes \ {s} /\ Servers \subseteq Nodes
  BY ServersAssumption DEF Nodes
<1>3. /\ phase[s] = "EXIT_INIT" /\ pc[s] = "work" /\ Open(s)
      /\ Work(s, "EXIT_SERVER") /\ "EXIT_SERVER" \in Loop
  BY Phases DEF ExitInit, Work, Open, Released
<1>4. /\ phase'[s] = "EXIT_SERVER" /\ task' = task
      /\ \A n \in Nodes \ {s} : phase'[n] = phase[n] /\ pc'[n] = pc[n]
      /\ running' = running
  BY <1>1, <1>2, <1>3 DEF Work, TypeOK
<1>5. /\ \A t \in Servers \ {s} : quit'[t] = quit[t]
      /\ quit'[s] = IF task[s].from = Manager THEN quit[s] \cap task[s].cat ELSE {}
  BY <1>1 DEF ExitInit, TypeOK
<1>6. Acknowledged \subseteq Acknowledged'
  BY <1>1, <1>3, WorkAcknowledges
<1>7. \A t \in Servers : Quieter(inbox[t], inbox'[t])
  BY <1>1, <1>3, WorkQuietly
<1>8. ComesTo(s)'
  <2> SUFFICES ASSUME ~lost', phase'[Manager] \notin BeforeExit, s \in running' \ Acknowledged',
                      NEW t \in quit'[s] \cap Acknowledged'
               PROVE  Coming(t, s)'
    BY <1>4 DEF ComesTo
  <2>1. t \in quit[s] /\ t \in task[s].cat
    BY <1>5
  <2>2. /\ ~lost /\ Kept(inbox[Manager], inbox'[Manager]) /\ Kept(inbox[s], inbox'[s])
        /\ \A u \in Acknowledged' \ Acknowledged : Tells(inbox'[Manager], u)
    BY <1>2, <1>3, WorkSends
  <2>3. CASE t \in Acknowledged
    <3>1. Coming(t, s)
      BY <1>1, <1>2, <1>4, <1>6, <2>1, <2>2, <2>3 DEF AnswerRest, ComesTo
    <3>2. OnItsWay(t, s) \/ Spares(inbox[s], t)
      BY <2>1, <3>1 DEF Coming
    <3> QED
      BY <1>2, <1>4, <2>2, <3>2, KeptTells DEF Coming, OnItsWay
  <2>4. CASE t \notin Acknowledged
    <3>1. Tells(inbox'[Manager], t)
      BY <2>2, <2>4
    <3> QED
      BY <3>1 DEF Coming, OnItsWay
  <2> QED
    BY <2>3, <2>4
<1>9. WaitsAt(s)'
  <2>1. "EXIT_SERVER" \notin PastServers
    BY Phases
  <2>2. ASSUME quit'[s] # {}
        PROVE  NoExit(inbox'[s]) /\ phase'[Manager] \notin BeforeExit
    <3>1. task[s].type = "EXIT"
      <4>1. task[s] \in Message /\ task[s].cat # {}
        BY <1>1, <1>2, <1>5, <2>2 DEF TypeOK
      <4> QED
        BY <4>1 DEF Message
    <3>2. Told(s) /\ ToldOnceAt(s)
      BY <1>1, <3>1 DEF Told, OrderRest
    <3> QED
      BY <1>2, <1>4, <1>7, <3>2 DEF ToldOnceAt, Quieter
  <2> QED
    BY <1>4, <2>1, <2>2 DEF WaitsAt
<1> QED
  BY <1>2, <1>3, <1>4, <1>5, <1>6, <1>7, <1>8, <1>9, WorkSends, ServerAnswers

LEMMA ServerWorksAnswers ==
  ASSUME AnswerInv, NEW s \in Servers, ServerWorks(s), ~ServerInit(s), ~Leave(s)
  PROVE  AnswerRest'
<1>1. WaitsAt(s)
  BY AnswerParts DEF AnswerRest
<1>2. CASE Starting(s)
  BY <1>2, Phases, WorkAnswers DEF Starting, Open, Released
<1>3. CASE Started(s)
  BY <1>3, Phases, WorkAnswers DEF Started, Open, Released
<1>4. CASE StartFails(s)
  BY <1>4, Phases, WorkAnswers DEF StartFails, Open, Released
<1>5. CASE Run(s)
  BY <1>5, Phases, WorkAnswers DEF Run, Open, Released
<1>6. CASE ErrorExits(s)
  BY <1>6, Phases, WorkAnswers DEF ErrorExits, Open, Released
<1>7. CASE ExitInit(s)
  BY <1>7, ExitInitAnswers
<1>8. CASE ExitServer(s)
  <2>1. /\ phase[s] = "EXIT_SERVER" /\ Open(s) /\ quit' = quit
        /\ \/ Work(s, "EXIT_SERVER")
           \/ quit[s] = {} /\ Work(s, "EXIT_STAGE1")
    BY <1>8 DEF ExitServer, Open, Released
  <2> QED
    BY <2>1, Phases, WorkAnswers
<1>9. CASE ExitStage1(s)
  <2>1. quit[s] = {}
    BY <1>1, <1>9, Phases DEF ExitStage1, WaitsAt
  <2> QED
    BY <1>9, <2>1, Phases, WorkAnswers DEF ExitStage1, Open, Released
<1>10. CASE ExitThread(s)
  <2>1. PICK status \in {"EXIT_THREAD", "EXIT_STAGE2"} : Work(s, status)
    BY <1>10 DEF ExitThread
  <2>2. quit[s] = {}
    BY <1>1, <1>10, Phases DEF ExitThread, WaitsAt
  <2> QED
    BY <1>10, <2>1, <2>2, Phases, WorkAnswers DEF ExitThread, Open, Released
<1>11. CASE ExitStage2(s)
  <2>1. quit[s] = {}
    BY <1>1, <1>11, Phases DEF ExitStage2, WaitsAt
  <2> QED
    BY <1>11, <2>1, Phases, WorkAnswers DEF ExitStage2, Open, Released
<1> QED
  BY <1>2, <1>3, <1>4, <1>5, <1>6, <1>7, <1>8, <1>9, <1>10, <1>11 DEF ServerWorks

LEMMA ServerInitAnswers ==
  ASSUME AnswerInv, NEW s \in Servers, ServerInit(s)
  PROVE  AnswerRest'
<1>1. TypeOK /\ AnswerRest
  BY AnswerParts
<1>2. s \in Nodes /\ Manager \in Nodes \ {s} /\ Servers \subseteq Nodes
  BY ServersAssumption DEF Nodes
<1>3. /\ phase[s] = "created" /\ phase'[s] = "STARTING"
      /\ \A n \in Nodes \ {s} : phase'[n] = phase[n]
      /\ \A t \in Servers \ {s} : quit'[t] = quit[t]
      /\ UNCHANGED <<pc, inbox, task, running, early, lost>>
  BY <1>1, <1>2 DEF ServerInit, TypeOK
<1>4. Acknowledged' = Acknowledged
  BY <1>2, <1>3 DEF Acknowledged
<1>5. ComesTo(s)'
  BY <1>1, <1>2, <1>3, <1>4 DEF AnswerRest, ComesTo
<1>6. WaitsAt(s)'
  BY <1>3, Phases DEF WaitsAt
<1> QED
  BY <1>2, <1>3, <1>4, <1>5, <1>6, KeptUnchanged, UnchangedQuietly, ServerAnswers

LEMMA LeaveAnswers ==
  ASSUME AnswerInv, NEW s \in Servers, Leave(s)
  PROVE  AnswerRest'
<1>1. TypeOK /\ AnswerRest
  BY AnswerParts
<1>2. s \in Nodes /\ Manager \in Nodes \ {s} /\ Servers \subseteq Nodes
  BY ServersAssumption DEF Nodes
<1>3. /\ phase[s] = "EXIT_FINISH" /\ phase'[s] = "gone"
      /\ \A n \in Nodes \ {s} : phase'[n] = phase[n] /\ task'[n] = task[n]
      /\ quit'[s] = {} /\ \A t \in Servers \ {s} : quit'[t] = quit[t]
      /\ UNCHANGED <<pc, running, early>>
      /\ Send({Manager}, Msg("EXIT_ACK", s))
  BY <1>1, <1>2 DEF Leave, TypeOK
<1>4. Acknowledged' = Acknowledged \cup {s}
  BY <1>2, <1>3 DEF Acknowledged
<1>5. Msg("EXIT_ACK", s) \in Message /\ Msg("EXIT_ACK", s).type # "EXIT"
  BY MsgTypes DEF Msg
<1>6. ASSUME ~lost'
      PROVE  /\ ~lost
             /\ \A n \in Nodes \ {s} : Kept(inbox[n], inbox'[n])
             /\ \A t \in Acknowledged' \ Acknowledged : Tells(inbox'[Manager], t)
  <2>1. /\ ~lost /\ \A n \in Nodes : Kept(inbox[n], inbox'[n])
        /\ Open(Manager) => \E j \in DOMAIN inbox'[Manager] : inbox'[Manager][j] = Msg("EXIT_ACK", s)
    BY <1>1, <1>2, <1>3, <1>5, <1>6, SendKept
  <2>2. ASSUME NEW t \in Acknowledged' \ Acknowledged
        PROVE  Tells(inbox'[Manager], t)
    <3>1. t = s /\ Open(Manager)
      BY <1>3, <1>4, <2>2, StillRunning
    <3> QED
      BY <2>1, <3>1 DEF Tells, Msg
  <2> QED
    BY <2>1, <2>2
<1>7. \A t \in Servers : Quieter(inbox[t], inbox'[t])
  BY <1>1, <1>3, <1>5, SendQuietly
<1>8. ComesTo(s)' /\ WaitsAt(s)'
  BY <1>3, <1>4 DEF ComesTo, WaitsAt
<1> QED
  BY <1>2, <1>3, <1>4, <1>6, <1>7, <1>8, ServerAnswers

(* A server takes a message: an answer strikes its sender off, and         *)
(* MSG_MANAGER_EXIT is obeyed next.                                        *)
LEMMA ServerReceivesAnswers ==
  ASSUME AnswerInv, NEW s \in Servers, ServerReceives(s)
  PROVE  AnswerRest'
<1> DEFINE m == Head(inbox[s])
           rest == Tail(inbox[s])
<1>1. TypeOK /\ IInv /\ AnswerRest /\ OrderRest /\ ServerOK(s)
  BY AnswerParts, Regrouped
<1>2. s \in Nodes /\ Manager \in Nodes \ {s} /\ Servers \subseteq Nodes
  BY ServersAssumption DEF Nodes
<1>3. inbox[s] \in Seq(Message) /\ inbox[s] # <<>>
  BY <1>1, <1>2 DEF ServerReceives, Pops, TypeOK
<1>4. /\ NoExit(inbox[s]) => NoExit(rest) /\ m.type # "EXIT"
      /\ OneExit(inbox[s]) => OneExit(rest)
      /\ \A i \in DOMAIN inbox[s] : inbox[s][i] = m \/ \E j \in DOMAIN rest : rest[j] = inbox[s][i]
  BY <1>3, TailExits, TailKept
<1>5. /\ inbox' = [inbox EXCEPT ![s] = rest] /\ pc' = [pc EXCEPT ![s] = "work"]
      /\ pc[s] # "work"
      /\ early' = early /\ failed' = failed /\ lost' = lost /\ running' = running
  BY DEF ServerReceives, Pops
<1>6. ReceiveExit(s, m) \/ ReceiveExitAck(s, m) \/ ReceiveStart(s, m) \/ ReceiveOther(s, m)
  BY DEF ServerReceives
<1> HIDE DEF m, rest
<1>7. /\ inbox'[s] = rest /\ pc'[s] = "work"
      /\ \A n \in Nodes \ {s} : inbox'[n] = inbox[n] /\ pc'[n] = pc[n]
  BY <1>1, <1>2, <1>5 DEF TypeOK
<1>8. /\ phase'[s] = phase[s] \/ (m.type = "EXIT" /\ phase'[s] = "EXIT_INIT")
      /\ \A n \in Nodes \ {s} : phase'[n] = phase[n] /\ task'[n] = task[n]
      /\ \A t \in Servers \ {s} : quit'[t] = quit[t]
      /\ quit'[s] \subseteq quit[s]
      /\ m.type = "EXIT" => phase'[s] = "EXIT_INIT" /\ task'[s] = m
      /\ m.type = "EXIT_ACK" => m.from \notin quit'[s]
  BY <1>1, <1>2, <1>6 DEF ReceiveExit, ReceiveExitAck, ReceiveStart, ReceiveOther, TypeOK
<1>9. phase[s] \notin {"created", "gone"}
  BY <1>1, <1>5 DEF ServerOK
<1>10. Acknowledged' = Acknowledged
  BY <1>2, <1>5, <1>8, <1>9 DEF Acknowledged
<1>11. ComesTo(s)'
  <2> SUFFICES ASSUME ~lost', phase'[Manager] \notin BeforeExit, s \in running' \ Acknowledged',
                      NEW t \in quit'[s] \cap Acknowledged'
               PROVE  Coming(t, s)'
    BY <1>8, <1>9 DEF ComesTo
  <2>1. Coming(t, s)
    BY <1>1, <1>2, <1>5, <1>8, <1>10 DEF AnswerRest, ComesTo
  <2>2. CASE OnItsWay(t, s) /\ ~Tells(inbox[s], t)
    BY <1>2, <1>7, <1>8, <2>2 DEF OnItsWay, Coming
  <2>3. CASE Tells(inbox[s], t)
    <3>1. Tells(rest, t)
      BY <1>4, <1>8, <2>3 DEF Tells
    <3> QED
      BY <1>7, <3>1 DEF OnItsWay, Coming
  <2>4. CASE Spares(inbox[s], t)
    <3>1. Spares(rest, t) \/ (m.type = "EXIT" /\ t \notin m.cat)
      BY <1>4, <2>4 DEF Spares
    <3> QED
      BY <1>7, <1>8, <3>1 DEF Coming
  <2> QED
    BY <1>5, <2>1, <2>2, <2>3, <2>4 DEF Coming
<1>12. WaitsAt(s)'
  <2>1. WaitsAt(s) /\ phase'[Manager] = phase[Manager]
    BY <1>1, <1>2, <1>8 DEF AnswerRest
  <2> QED
    BY <1>4, <1>7, <1>8, <2>1, Phases, WaitsUndisturbed DEF Quieter
<1>13. \A n \in Nodes \ {s} : Kept(inbox[n], inbox'[n])
  BY <1>7, KeptUnchanged
<1>14. \A t \in Servers \ {s} : Quieter(inbox[t], inbox'[t])
  BY <1>2, <1>7 DEF Quieter
<1> QED
  BY <1>2, <1>5, <1>7, <1>8, <1>10, <1>11, <1>12, <1>13, <1>14, ServerAnswers

-----------------------------------------------------------------------------
(* The manager. Its steps leave the servers and their answers alone.       *)
ServersAlone ==
  /\ \A s \in Servers : phase'[s] = phase[s] /\ pc'[s] = pc[s] /\ task'[s] = task[s]
  /\ UNCHANGED <<quit, early, failed>>
  /\ \A s \in Servers : Quieter(inbox[s], inbox'[s])

LEMMA ManagerAnswersQuietly ==
  ASSUME AnswerInv, ServersAlone, running' \subseteq running,
         ManagerHears', ManagerListens', ~lost' => ~lost,
         phase'[Manager] \in BeforeExit <=> phase[Manager] \in BeforeExit,
         \A s \in running' \ Acknowledged : \A t \in quit[s] \cap Acknowledged :
           ~lost' /\ phase[Manager] \notin BeforeExit /\ Coming(t, s) => Coming(t, s)'
  PROVE  AnswerRest'
<1>1. AnswerRest
  BY AnswerParts
<1>2. Acknowledged' = Acknowledged
  BY DEF ServersAlone, Acknowledged
<1>3. ASSUME NEW s \in Servers
      PROVE  ComesTo(s)' /\ WaitsAt(s)'
  <2>1. ComesTo(s)'
    BY <1>1, <1>2 DEF AnswerRest, ComesTo, ServersAlone
  <2>2. WaitsAt(s)'
    BY <1>1, WaitsUndisturbed DEF AnswerRest, ServersAlone
  <2> QED
    BY <2>1, <2>2
<1> QED
  BY <1>3 DEF AnswerRest

LEMMA ManagerLeavesServers ==
  ASSUME TypeOK, NEW from, NEW to, ManagerGoes(from, to)
  PROVE  /\ phase[Manager] = from /\ phase'[Manager] = to
         /\ pc[Manager] = "work"
         /\ \A s \in Servers : phase'[s] = phase[s] /\ pc'[s] = pc[s] /\ task'[s] = task[s]
         /\ UNCHANGED <<task, quit, early, failed, running>>
BY ServersAssumption DEF ManagerGoes, ManagerWork, TypeOK, Nodes

(* Before the exit, and when nobody runs any more.                         *)
LEMMA ManagerGoesAnswers ==
  ASSUME AnswerInv, NEW from, NEW to, ManagerGoes(from, to),
         to \notin {"off", "created"},
         to \in BeforeExit <=> from \in BeforeExit,
         from \in BeforeExit \/ running = {},
         \A s \in Servers : inbox'[s] = inbox[s],
         inbox'[Manager] = inbox[Manager] \/ running = {},
         lost' = lost
  PROVE  AnswerRest'
<1>1. TypeOK /\ AnswerRest
  BY AnswerParts
<1>2. /\ phase[Manager] = from /\ phase'[Manager] = to
      /\ running' = running
      /\ ServersAlone
  BY <1>1, ManagerLeavesServers DEF ServersAlone, Quieter
<1>3. Acknowledged' = Acknowledged
  BY <1>2 DEF ServersAlone, Acknowledged
<1>4. ManagerHears' /\ ManagerListens'
  BY <1>1, <1>2, <1>3 DEF AnswerRest, ManagerHears, ManagerListens
<1> QED
  BY <1>2, <1>4, ManagerAnswersQuietly

(* The servers are told; each of them is there, and those that have        *)
(* answered are still to be relayed or are not named.                      *)
LEMMA TellServersAnswers ==
  ASSUME AnswerInv, TellServers
  PROVE  AnswerRest'
<1> DEFINE m == Exit(running)
<1>1. TypeOK /\ AnswerRest /\ running \subseteq Servers /\ ManagerOK /\ m \in Message
  BY AnswerParts, MsgTypes
<1>2. Manager \in Nodes /\ Manager \notin Servers /\ Servers \subseteq Nodes
  BY ServersAssumption DEF Nodes
<1>3. /\ phase[Manager] = "EXIT_INIT" /\ phase'[Manager] = "EXIT_SERVER"
      /\ \A s \in Servers : phase'[s] = phase[s]
      /\ UNCHANGED <<quit, early, failed, running>>
      /\ Send(running, m)
  BY <1>1, ManagerLeavesServers DEF TellServers
<1>4. Acknowledged' = Acknowledged
  BY <1>3 DEF Acknowledged
<1>5. ASSUME ~lost'
      PROVE  /\ ~lost /\ ~Loses(running, m)
             /\ \A n \in Nodes : Kept(inbox[n], inbox'[n])
             /\ \A n \in running : Open(n) => \E j \in DOMAIN inbox'[n] : inbox'[n][j] = m
  BY <1>1, <1>2, <1>3, <1>5, SendKept
<1>6. ManagerHears'
  BY <1>1, <1>2, <1>3, <1>4, <1>5, HearsUndisturbed DEF AnswerRest
<1>7. ASSUME NEW s \in Servers
      PROVE  ComesTo(s)'
  <2> SUFFICES ASSUME ~lost', s \in running' \ Acknowledged'
               PROVE  /\ phase'[s] # "created"
                      /\ \A t \in quit'[s] \cap Acknowledged' : Coming(t, s)'
    BY DEF ComesTo
  <2>1. s \in running \ Acknowledged
    BY <1>3, <1>4
  <2>2. phase[s] # "created"
    BY <1>5, <2>1 DEF Loses, IsExit, Exit
  <2>3. ASSUME NEW t \in quit[s] \cap Acknowledged
        PROVE  Coming(t, s)'
    <3>1. CASE t \in running
      <4>1. Tells(inbox'[Manager], t)
        BY <1>3, <1>4, <1>5, <1>6, <3>1, <2>3 DEF ManagerHears
      <4> QED
        BY <4>1 DEF Coming, OnItsWay
    <3>2. CASE t \notin running
      <4>1. phase[s] # "off"
        BY <1>1, <2>1 DEF ManagerOK, StartedTogether
      <4>2. phase[s] \notin PastServers
        BY <1>1, <2>3 DEF AnswerRest, WaitsAt
      <4>3. Open(s)
        BY <2>2, <4>1, <4>2, Phases DEF Open, Released
      <4>4. Spares(inbox'[s], t)
        <5>1. \E j \in DOMAIN inbox'[s] : inbox'[s][j] = m
          BY <1>5, <2>1, <4>3
        <5>2. m.type = "EXIT" /\ t \notin m.cat
          BY <3>2 DEF Exit
        <5> QED
          BY <5>1, <5>2 DEF Spares
      <4> QED
        BY <4>4 DEF Coming
    <3> QED
      BY <3>1, <3>2
  <2> QED
    BY <1>3, <1>4, <2>2, <2>3
<1>8. ASSUME NEW s \in Servers
      PROVE  WaitsAt(s)'
  <2>1. WaitsAt(s) /\ ~(phase[s] = "EXIT_SERVER" /\ quit[s] # {})
    BY <1>1, <1>3, BeforeAndAfter DEF AnswerRest, WaitsAt
  <2> QED
    BY <1>3, <2>1 DEF WaitsAt
<1> QED
  BY <1>3, <1>6, <1>7, <1>8 DEF AnswerRest, ManagerListens

LEMMA StartServersAnswers ==
  ASSUME AnswerInv, StartServers
  PROVE  AnswerRest'
<1>1. TypeOK /\ OrderRest /\ AnswerRest /\ ManagerOK
  BY AnswerParts
<1>2. Manager \in Nodes /\ Manager \notin Servers /\ Servers \subseteq Nodes
  BY ServersAssumption DEF Nodes
<1>3. /\ phase[Manager] = "SETUP" /\ phase'[Manager] = "RUN"
      /\ \A s \in Servers : phase'[s] = "created"
      /\ early' = early
  BY <1>2 DEF StartServers, ManagerWork
<1>4. Acknowledged' = {}
  <2>1. \A s \in Servers : s \notin early
    BY <1>1, <1>3, BeforeAndAfter DEF OrderRest, ToldOnceAt, Told
  <2> QED
    BY <1>1, <1>3, <2>1 DEF Acknowledged, TypeOK
<1>5. ManagerHears' /\ ManagerListens'
  BY <1>3, <1>4 DEF ManagerHears, ManagerListens
<1>6. ASSUME NEW s \in Servers
      PROVE  ComesTo(s)' /\ WaitsAt(s)'
  BY <1>3, Phases, BeforeAndAfter DEF ComesTo, WaitsAt
<1> QED
  BY <1>5, <1>6 DEF AnswerRest

(* An answer in info.task.msg is relayed before the manager takes another  *)
(* message.                                                                *)
LEMMA RelayAnswerAnswers ==
  ASSUME AnswerInv, RelayAnswer
  PROVE  AnswerRest'
<1> DEFINE m == Msg("EXIT_ACK", task[Manager].from)
<1>1. TypeOK /\ IInv /\ AnswerRest /\ ManagerOK /\ running \subseteq Servers
      /\ MessagesAreTruthful
  BY AnswerParts DEF IInv
<1>2. Manager \in Nodes /\ Manager \notin Servers /\ Servers \subseteq Nodes
  BY ServersAssumption DEF Nodes
<1>3. /\ phase[Manager] = "EXIT_SERVER" /\ phase'[Manager] = "EXIT_SERVER"
      /\ \A s \in Servers : phase'[s] = phase[s] /\ pc'[s] = pc[s] /\ task'[s] = task[s]
      /\ UNCHANGED <<task, quit, early, failed, running>>
  BY <1>1, ManagerLeavesServers DEF RelayAnswer
<1>4. task[Manager].type = "EXIT_ACK" => m \in Message /\ m.type # "EXIT" /\ Send(running, m)
  <2>1. ASSUME task[Manager].type = "EXIT_ACK"
        PROVE  task[Manager].from \in Servers
    BY <1>1, <1>2, <2>1 DEF MessagesAreTruthful, Truthful, Acknowledged, TypeOK
  <2> QED
    BY <2>1, MsgTypes DEF RelayAnswer, Msg
<1>5. task[Manager].type # "EXIT_ACK" => inbox' = inbox /\ lost' = lost
  BY DEF RelayAnswer
<1> HIDE DEF m
<1>6. ~lost' => /\ ~lost
                /\ \A n \in Nodes : Kept(inbox[n], inbox'[n])
                /\ task[Manager].type = "EXIT_ACK" =>
                     \A n \in running : Open(n) => \E j \in DOMAIN inbox'[n] : inbox'[n][j] = m
  BY <1>1, <1>2, <1>4, <1>5, SendKept, KeptUnchanged
<1>7. \A s \in Servers : Quieter(inbox[s], inbox'[s])
  BY <1>1, <1>4, <1>5, SendQuietly, UnchangedQuietly
<1>8. ManagerHears'
  <2>1. Acknowledged' = Acknowledged
    BY <1>3 DEF Acknowledged
  <2> QED
    BY <1>1, <1>2, <1>3, <1>6, <2>1, HearsUndisturbed DEF AnswerRest
<1>9. ASSUME NEW s \in running \ Acknowledged, NEW t \in quit[s] \cap Acknowledged,
             ~lost', Coming(t, s)
      PROVE  Coming(t, s)'
  <2>1. ~lost /\ Kept(inbox[s], inbox'[s]) /\ Kept(inbox[Manager], inbox'[Manager])
    BY <1>1, <1>2, <1>6, <1>9
  <2>2. CASE task[Manager].type = "EXIT_ACK" /\ task[Manager].from = t
    <3>1. phase[s] # "off" /\ phase[s] \notin PastServers
      BY <1>1 DEF ManagerOK, StartedTogether, AnswerRest, WaitsAt
    <3>2. phase[s] # "created"
      BY <1>1, <1>3, <2>1, BeforeAndAfter DEF AnswerRest, ComesTo
    <3>3. Open(s)
      BY <3>1, <3>2, Phases DEF Open, Released
    <3>4. Tells(inbox'[s], t)
      BY <1>6, <1>9, <2>2, <3>3 DEF Tells, Msg, m
    <3> QED
      BY <3>4 DEF Coming, OnItsWay
  <2>3. CASE ~(task[Manager].type = "EXIT_ACK" /\ task[Manager].from = t)
    BY <1>1, <1>3, <1>9, <2>1, <2>3, KeptTells DEF Coming, OnItsWay
  <2> QED
    BY <2>2, <2>3
<1>10. ManagerListens' /\ ServersAlone
  BY <1>3, <1>7 DEF ManagerListens, ServersAlone
<1> QED
  BY <1>3, <1>6, <1>8, <1>9, <1>10, ManagerAnswersQuietly

(* The manager takes a message; an answer it keeps in info.task.msg.       *)
LEMMA ManagerReceivesAnswers ==
  ASSUME AnswerInv, ManagerReceives
  PROVE  AnswerRest'
<1> DEFINE m == Head(inbox[Manager])
           rest == Tail(inbox[Manager])
           note == Msg("OTHER", Manager)
<1>1. TypeOK /\ IInv /\ AnswerRest /\ ManagerOK /\ running \subseteq Servers
  BY AnswerParts
<1>2. Manager \in Nodes /\ Manager \notin Servers /\ Servers \subseteq Nodes
  BY ServersAssumption DEF Nodes
<1>3. inbox[Manager] \in Seq(Message) /\ inbox[Manager] # <<>> /\ rest \in Seq(Message)
  BY <1>1, <1>2 DEF ManagerReceives, Pops, TypeOK
<1>4. \A i \in DOMAIN inbox[Manager] :
        inbox[Manager][i] = m \/ \E j \in DOMAIN rest : rest[j] = inbox[Manager][i]
  BY <1>3, TailKept
<1>5. \A i \in DOMAIN rest : \E j \in DOMAIN Append(rest, note) : Append(rest, note)[j] = rest[i]
  BY <1>3, MsgTypes, AppendKept
<1>6. /\ pc[Manager] # "work" /\ pc' = [pc EXCEPT ![Manager] = "work"]
      /\ task' = [task EXCEPT ![Manager] = m]
      /\ UNCHANGED <<quit, early, failed, lost>>
      /\ ManagerSignalled(m) \/ ManagerAnswered(m) \/ ManagerOther(m)
  BY DEF ManagerReceives, Pops
<1> HIDE DEF m, rest, note
<1>7. /\ \/ inbox' = [inbox EXCEPT ![Manager] = rest]
         \/ inbox' = [inbox EXCEPT ![Manager] = Append(rest, note)]
      /\ m.type = "EXIT_ACK" => running' = running \ {m.from}
      /\ m.type # "EXIT_ACK" => running' = running
      /\ \A s \in Servers : phase'[s] = phase[s]
      /\ \/ phase'[Manager] = phase[Manager]
         \/ phase[Manager] \notin Exiting /\ phase'[Manager] = "EXIT_INIT"
  <2>1. CASE ManagerSignalled(m)
    BY <1>1, <1>2, <2>1 DEF ManagerSignalled, TypeOK, rest
  <2>2. CASE ManagerAnswered(m)
    BY <2>2 DEF ManagerAnswered, rest, note
  <2>3. CASE ManagerOther(m)
    BY <2>3 DEF ManagerOther, rest
  <2> QED
    BY <1>6, <2>1, <2>2, <2>3
<1>8. /\ task'[Manager] = m /\ pc'[Manager] = "work"
      /\ inbox'[Manager] = rest \/ inbox'[Manager] = Append(rest, note)
      /\ \A s \in Servers : pc'[s] = pc[s] /\ task'[s] = task[s] /\ inbox'[s] = inbox[s]
  BY <1>1, <1>2, <1>6, <1>7 DEF TypeOK
<1>9. ASSUME NEW t, Tells(inbox[Manager], t)
      PROVE  Tells(inbox'[Manager], t) \/ (m.type = "EXIT_ACK" /\ m.from = t)
  <2>1. PICK i \in DOMAIN inbox[Manager] :
          inbox[Manager][i].type = "EXIT_ACK" /\ inbox[Manager][i].from = t
    BY <1>9 DEF Tells
  <2>2. CASE inbox[Manager][i] = m
    BY <2>1, <2>2
  <2>3. CASE inbox[Manager][i] # m
    <3>1. PICK j \in DOMAIN rest : rest[j] = inbox[Manager][i]
      BY <1>4, <2>3
    <3>2. \E k \in DOMAIN inbox'[Manager] : inbox'[Manager][k] = inbox[Manager][i]
      BY <1>5, <1>8, <3>1
    <3> QED
      BY <2>1, <3>2 DEF Tells
  <2> QED
    BY <2>2, <2>3
<1>10. ServersAlone /\ running' \subseteq running
  BY <1>6, <1>7, <1>8 DEF ServersAlone, Quieter
<1>11. Acknowledged' = Acknowledged
  BY <1>10 DEF ServersAlone, Acknowledged
<1>12. ManagerHears'
  BY <1>1, <1>6, <1>7, <1>9, <1>10, <1>11 DEF AnswerRest, ManagerHears
<1>13. /\ ManagerListens'
       /\ phase'[Manager] \in BeforeExit <=> phase[Manager] \in BeforeExit
  BY <1>1, <1>2, <1>7 DEF AnswerRest, ManagerListens, BeforeExit, TypeOK
<1>14. ASSUME NEW s \in running' \ Acknowledged, NEW t \in quit[s] \cap Acknowledged,
              phase[Manager] \notin BeforeExit, Coming(t, s)
       PROVE  Coming(t, s)'
  <2>1. phase'[Manager] = phase[Manager] /\ phase[Manager] = "EXIT_SERVER"
    <3>1. phase[Manager] \notin PastServers
      BY <1>1, <1>10 DEF ManagerOK
    <3> QED
      BY <1>1, <1>2, <1>7, <1>14, <3>1 DEF TypeOK, BeforeExit, Exiting
  <2>2. CASE Tells(inbox[Manager], t)
    <3>1. CASE Tells(inbox'[Manager], t)
      BY <3>1 DEF Coming, OnItsWay
    <3>2. CASE m.type = "EXIT_ACK" /\ m.from = t
      BY <1>8, <2>1, <3>2 DEF Coming, OnItsWay
    <3> QED
      BY <1>9, <2>2, <3>1, <3>2
  <2>3. CASE ~Tells(inbox[Manager], t)
    <3>1. s \in Servers /\ quit' = quit
      BY <1>1, <1>6, <1>10
    <3>2. /\ phase'[s] = phase[s] /\ pc'[s] = pc[s]
          /\ task'[s] = task[s] /\ inbox'[s] = inbox[s]
      BY <1>7, <1>8, <3>1
    <3>3. \/ Tells(inbox[s], t) \/ Spares(inbox[s], t)
          \/ /\ phase[s] = "EXIT_INIT" /\ pc[s] = "work"
             /\ task[s].type = "EXIT" /\ t \notin task[s].cat
      BY <1>6, <1>14, <2>3 DEF Coming, OnItsWay
    <3> QED
      BY <3>2, <3>3 DEF Coming, OnItsWay
  <2> QED
    BY <2>2, <2>3
<1> QED
  BY <1>6, <1>10, <1>12, <1>13, <1>14, ManagerAnswersQuietly

LEMMA ManagerStepAnswers ==
  ASSUME AnswerInv, ManagerStep
  PROVE  AnswerRest'
<1>1. TypeOK /\ AnswerRest /\ ManagerOK /\ running \subseteq Servers
  BY AnswerParts
<1>2. Manager \in Nodes /\ Manager \notin Servers /\ Servers \subseteq Nodes
  BY ServersAssumption DEF Nodes
<1>3. CASE Prepare
  BY <1>3, BeforeAndAfter, Phases, ManagerGoesAnswers DEF Prepare
<1>4. CASE StartServers
  BY <1>4, StartServersAnswers
<1>5. CASE Watch
  BY <1>5, BeforeAndAfter, Phases, ManagerGoesAnswers DEF Watch
<1>6. CASE TellServers
  BY <1>6, TellServersAnswers
<1>7. CASE AllQuit
  BY <1>7, BeforeAndAfter, Phases, ManagerGoesAnswers DEF AllQuit
<1>8. CASE RelayAnswer
  BY <1>8, RelayAnswerAnswers
<1>9. phase[Manager] \in PastServers => running = {}
  BY <1>1 DEF ManagerOK
<1>10. CASE ManagerStages
  <2>1. PICK from, to : /\ ManagerGoes(from, to)
                        /\ <<from, to>> \in {<<"EXIT_STAGE1", "EXIT_THREAD">>,
                                            <<"EXIT_THREAD", "EXIT_STAGE2">>}
    BY <1>10 DEF ManagerStages
  <2>2. /\ from \in PastServers /\ from \notin BeforeExit /\ to \notin BeforeExit
        /\ to \notin {"off", "created"}
    BY <2>1, BeforeAndAfter, Phases
  <2>3. running = {}
    BY <1>9, <2>1, <2>2 DEF ManagerGoes
  <2> QED
    BY <1>10, <2>1, <2>2, <2>3, ManagerGoesAnswers DEF ManagerStages
<1>11. CASE ManagerReleases
  <2>1. \A s \in Servers : inbox'[s] = inbox[s]
    BY <1>1, <1>2, <1>11 DEF ManagerReleases, TypeOK
  <2>2. running = {}
    BY <1>9, <1>11, Phases DEF ManagerReleases, ManagerGoes
  <2> QED
    BY <1>11, <2>1, <2>2, BeforeAndAfter, Phases, ManagerGoesAnswers DEF ManagerReleases
<1>12. CASE ProcessExits
  <2>1. running = {}
    BY <1>9, <1>12, Phases DEF ProcessExits, ManagerGoes
  <2> QED
    BY <1>12, <2>1, BeforeAndAfter, Phases, ManagerGoesAnswers DEF ProcessExits
<1>13. CASE ManagerReceives
  BY <1>13, ManagerReceivesAnswers
<1>14. CASE NothingToPop(Manager)
  BY <1>2, <1>14, OthersAnswer
<1> QED
  BY <1>3, <1>4, <1>5, <1>6, <1>7, <1>8, <1>10, <1>11, <1>12, <1>13, <1>14
     DEF ManagerStep

LEMMA InitAnswers ==
  ASSUME Init
  PROVE  AnswerInv
<1>1. OrderInv /\ TypeOK
  BY InitOrder DEF OrderInv, IInv
<1>2. /\ running = {} /\ phase[Manager] = "NONE"
      /\ \A s \in Servers : phase[s] = "off"
  BY ServersAssumption DEF Init, Nodes
<1>3. AnswersCome /\ ManagerListens
  BY <1>2 DEF AnswersCome, ManagerListens
<1>4. WaitsAsTold
  BY <1>2, Phases DEF WaitsAsTold
<1> QED
  BY <1>1, <1>3, <1>4 DEF AnswerInv

LEMMA NextAnswers ==
  ASSUME AnswerInv, [Next]_vars
  PROVE  AnswerInv'
<1>1. OrderInv'
  BY AnswerParts, NextOrder
<1>2. AnswerRest'
  <2>1. CASE UNCHANGED vars
    BY <2>1, OthersAnswer
  <2>2. CASE ManagerStep
    BY <2>2, ManagerStepAnswers
  <2>3. ASSUME NEW s \in Servers, ServerStep(s)
        PROVE  AnswerRest'
    BY <2>3, ServerWorksAnswers, ServerInitAnswers, LeaveAnswers, ServerReceivesAnswers,
       OthersAnswer DEF ServerStep, Nodes
  <2>4. CASE Signal \/ \E s \in Servers : ThreadStep(s) \/ StopsItself(s) \/ Request(s)
    BY <2>4, OthersAnswer
  <2> QED
    BY <2>1, <2>2, <2>3, <2>4 DEF Next
<1>3. running' \subseteq Servers
  BY <1>1 DEF OrderInv, IInv, TypeOK
<1>4. AnswersCome' /\ WaitsAsTold' /\ ManagerListens'
  BY <1>2, <1>3 DEF AnswerRest, ManagerHears, ComesTo, WaitsAt, AnswersCome, WaitsAsTold
<1> QED
  BY <1>1, <1>4 DEF AnswerInv

(* An answer that somebody still waits for is on its way to him, as long   *)
(* as no exit message is lost; for every set of servers, every exit        *)
(* condition and every capacity of the buffers.                            *)
THEOREM AnswersAlwaysReach == Spec => []AnswersReach
<1>1. Init => AnswerInv
  BY InitAnswers
<1>2. AnswerInv /\ [Next]_vars => AnswerInv'
  BY NextAnswers
<1>3. AnswerInv => AnswersReach
  <2> SUFFICES ASSUME AnswerInv, ~lost
               PROVE  /\ \A t \in running \cap Acknowledged : Tells(inbox[Manager], t)
                      /\ \A s \in Servers \ Acknowledged :
                           phase[s] = "EXIT_SERVER" =>
                             \A t \in quit[s] \cap Acknowledged : OnItsWay(t, s)
    BY DEF AnswersReach
  <2>1. AnswersCome /\ WaitsAsTold
    BY DEF AnswerInv
  <2>2. ASSUME NEW s \in Servers \ Acknowledged, phase[s] = "EXIT_SERVER",
               NEW t \in quit[s] \cap Acknowledged
        PROVE  OnItsWay(t, s)
    <3>1. s \in running
      BY <2>2, StillRunning
    <3>2. NoExit(inbox[s]) /\ phase[Manager] \notin BeforeExit
      BY <2>1, <2>2 DEF WaitsAsTold
    <3>3. Coming(t, s)
      BY <2>1, <2>2, <3>1, <3>2 DEF AnswersCome
    <3>4. ~Spares(inbox[s], t)
      BY <3>2 DEF Spares, NoExit
    <3> QED
      BY <2>2, <3>3, <3>4 DEF Coming
  <2> QED
    BY <2>1, <2>2 DEF AnswersCome
<1> QED
  BY <1>1, <1>2, <1>3, PTL DEF Spec

-----------------------------------------------------------------------------
(* A server asleep in EXIT_THREAD is not forgotten: a thread is left that  *)
(* has been told, or has cleared the bit and not yet sent its message.     *)
AsleepIn(s) == phase[s] = "EXIT_THREAD" /\ pc[s] = "wait" /\ inbox[s] = <<>>
WillWake == {"told", "ending", "dead"}
WokenAt(s) == AsleepIn(s) => threads[s] \in WillWake
SleepersAreWoken == \A s \in Servers : WokenAt(s)

(* Sending never empties a buffer, and fills those it is meant for.        *)
LEMMA ReachesFills ==
  ASSUME TypeOK, NEW to, NEW m, NEW n \in Nodes, Reaches(to, m)[n] = <<>>
  PROVE  inbox[n] = <<>> /\ ~(n \in to /\ Open(n))
<1>1. inbox[n] \in Seq(Message)
  BY DEF TypeOK
<1>2. Push(inbox[n], m) # <<>>
  <2>1. ASSUME NEW q \in Seq(Message)
        PROVE  Append(q, m) # <<>>
    <3>1. q \in Seq(Message \cup {m})
      OBVIOUS
    <3>2. Len(Append(q, m)) = Len(q) + 1 /\ Len(q) \in Nat
      BY <3>1, AppendProperties, LenProperties
    <3>3. Len(<<>>) = 0
      OBVIOUS
    <3> QED
      BY <3>2, <3>3
  <2>2. Len(inbox[n]) = Capacity => Tail(inbox[n]) \in Seq(Message)
    BY <1>1, BoundsAssumption
  <2> QED
    BY <1>1, <2>1, <2>2 DEF Push
<1> QED
  BY <1>2 DEF Reaches

(* A step that leaves the status of s and its loop alone.                  *)
LEMMA SleepsOn ==
  ASSUME NEW s \in Servers, WokenAt(s),
         phase'[s] = "EXIT_THREAD" /\ pc'[s] = "wait" =>
           /\ phase'[s] = phase[s] /\ pc'[s] = pc[s]
           /\ inbox'[s] = <<>> => inbox[s] = <<>>
           /\ threads'[s] \in WillWake \/ threads'[s] = threads[s] \/ inbox'[s] # <<>>
  PROVE  WokenAt(s)'
BY DEF WokenAt, AsleepIn

LEMMA WorkSleeps ==
  ASSUME TypeOK, SleepersAreWoken, NEW s \in Servers, NEW status, Work(s, status),
         \A t \in Servers \ {s} : threads'[t] = threads[t],
         status = "EXIT_THREAD" /\ phase[s] = "EXIT_THREAD" => threads'[s] \in WillWake
  PROVE  SleepersAreWoken'
<1>1. s \in Nodes /\ Servers \subseteq Nodes
  BY DEF Nodes
<1>2. WokenAt(s)'
  BY <1>1 DEF Work, WokenAt, AsleepIn, TypeOK
<1>3. ASSUME NEW t \in Servers \ {s}
      PROVE  WokenAt(t)'
  <2>1. /\ phase'[t] = phase[t] /\ pc'[t] = pc[t] /\ threads'[t] = threads[t]
        /\ inbox'[t] = Reaches(Answered(s, status), Msg("EXIT_ACK", s))[t]
    BY <1>1 DEF Work, TypeOK, Reaches
  <2>2. inbox'[t] = <<>> => inbox[t] = <<>>
    BY <1>1, <2>1, ReachesFills
  <2> QED
    BY <2>1, <2>2, SleepsOn DEF SleepersAreWoken
<1> QED
  BY <1>2, <1>3 DEF SleepersAreWoken

LEMMA NextSleeps ==
  ASSUME TypeOK, SleepersAreWoken, [Next]_vars
  PROVE  SleepersAreWoken'
<1>1. Manager \in Nodes /\ Manager \notin Servers /\ Servers \subseteq Nodes
  BY ServersAssumption DEF Nodes
<1>2. ASSUME NEW s \in Servers, ServerWorks(s)
      PROVE  SleepersAreWoken'
  <2>1. CASE ServerInit(s)
    BY <1>1, <2>1, SleepsOn DEF ServerInit, TypeOK, SleepersAreWoken
  <2>2. CASE Starting(s)
    <3>1. \A t \in Servers \ {s} : threads'[t] = threads[t]
      BY <2>2 DEF Starting, TypeOK
    <3> QED
      BY <2>2, <3>1, WorkSleeps DEF Starting
  <2>3. CASE ExitThread(s)
    <3>1. /\ \A t \in Servers \ {s} : threads'[t] = threads[t]
          /\ threads[s] \in {"running", "told", "dead"} => threads'[s] \in WillWake
      BY <2>3 DEF ExitThread, TypeOK, WillWake
    <3>2. CASE threads[s] \in {"running", "told", "dead"}
      BY <2>3, <3>1, <3>2, WorkSleeps DEF ExitThread
    <3>3. CASE threads[s] \notin {"running", "told", "dead"}
      BY <2>3, <3>1, <3>3, WorkSleeps DEF ExitThread
    <3> QED
      BY <3>2, <3>3
  <2>4. CASE Leave(s)
    <3>1. ASSUME NEW t \in Servers
          PROVE  WokenAt(t)'
      <4>1. /\ phase'[t] = (IF t = s THEN "gone" ELSE phase[t])
            /\ UNCHANGED <<pc, threads>>
            /\ inbox'[t] = Reaches({Manager}, Msg("EXIT_ACK", s))[t]
        BY <1>1, <2>4 DEF Leave, Send, TypeOK
      <4>2. inbox'[t] = <<>> => inbox[t] = <<>>
        BY <1>1, <4>1, ReachesFills
      <4> QED
        BY <4>1, <4>2, SleepsOn DEF SleepersAreWoken
    <3> QED
      BY <3>1 DEF SleepersAreWoken
  <2>5. CASE \/ Started(s) \/ StartFails(s) \/ Run(s) \/ ErrorExits(s) \/ ExitInit(s)
             \/ ExitServer(s) \/ ExitStage1(s) \/ ExitStage2(s)
    <3>1. /\ threads' = threads
          /\ \E status : Work(s, status) /\ ~(status = "EXIT_THREAD" /\ phase[s] = "EXIT_THREAD")
      BY <2>5 DEF Started, StartFails, Run, ErrorExits, ExitInit, ExitServer, ExitStage1,
         ExitStage2
    <3> QED
      BY <3>1, WorkSleeps
  <2> QED
    BY <1>2, <2>1, <2>2, <2>3, <2>4, <2>5 DEF ServerWorks
<1>3. ASSUME NEW s \in Servers, ServerReceives(s)
      PROVE  SleepersAreWoken'
  <2>1. ASSUME NEW t \in Servers
        PROVE  WokenAt(t)'
    <3>1. /\ pc'[t] = "work" \/ (pc'[t] = pc[t] /\ phase'[t] = phase[t] /\ inbox'[t] = inbox[t])
          /\ threads' = threads
      BY <1>1, <1>3 DEF ServerReceives, Pops, ReceiveExit, ReceiveExitAck, ReceiveStart,
         ReceiveOther, TypeOK
    <3> QED
      BY <3>1, SleepsOn DEF SleepersAreWoken
  <2> QED
    BY <2>1 DEF SleepersAreWoken
<1>4. ASSUME NEW n \in Nodes, NothingToPop(n)
      PROVE  SleepersAreWoken'
  <2>1. ASSUME NEW t \in Servers
        PROVE  WokenAt(t)'
    <3>1. /\ pc'[t] = "work" \/ pc'[t] = pc[t]
          /\ UNCHANGED <<phase, inbox, threads>>
      BY <1>1, <1>4, <2>1 DEF NothingToPop, TypeOK
    <3> QED
      BY <2>1, <3>1, SleepsOn DEF SleepersAreWoken
  <2> QED
    BY <2>1 DEF SleepersAreWoken
<1>5. ASSUME NEW s \in Servers, ThreadStep(s) \/ StopsItself(s)
      PROVE  SleepersAreWoken'
  <2>1. /\ UNCHANGED <<phase, pc>>
        /\ \A t \in Servers \ {s} : threads'[t] = threads[t]
        /\ \/ threads'[s] \in WillWake /\ inbox' = inbox
           \/ Send({s}, Msg("OTHER", s))
    BY <1>5 DEF ThreadStep, StopsItself, Registers, ReturnsAtOnce, StopsAsTold, Ends,
       ThreadIs, TypeOK, WillWake
  <2>2. ASSUME NEW t \in Servers
        PROVE  /\ inbox'[t] = <<>> => inbox[t] = <<>>
               /\ ~(inbox' = inbox) /\ t = s /\ Open(s) => inbox'[t] # <<>>
    BY <1>1, <2>1, ReachesFills DEF Send
  <2>3. ASSUME NEW t \in Servers
        PROVE  WokenAt(t)'
    <3>1. CASE t = s /\ ~(threads'[s] \in WillWake)
      <4>1. phase[s] = "EXIT_THREAD" => Open(s)
        BY DEF Open, Released
      <4>2. phase[s] = "EXIT_THREAD" => inbox'[s] # <<>>
        BY <1>1, <2>1, <3>1, <4>1, ReachesFills DEF Send
      <4> QED
        BY <2>1, <3>1, <4>2 DEF WokenAt, AsleepIn
    <3>2. CASE ~(t = s /\ ~(threads'[s] \in WillWake))
      BY <2>1, <2>2, <3>2, SleepsOn DEF SleepersAreWoken
    <3> QED
      BY <3>1, <3>2
  <2> QED
    BY <2>3 DEF SleepersAreWoken
<1>6. ASSUME \/ UNCHANGED vars \/ Signal \/ \E s \in Servers : Request(s)
             \/ ManagerStep /\ ~StartServers /\ ~NothingToPop(Manager)
      PROVE  SleepersAreWoken'
  <2>1. /\ threads' = threads
        /\ \A t \in Servers : phase'[t] = phase[t] /\ pc'[t] = pc[t]
    BY <1>1, <1>6 DEF vars, Signal, Request, ManagerStep, Prepare, Watch, TellServers,
       AllQuit, RelayAnswer, ManagerStages, ManagerReleases, ProcessExits, ManagerGoes,
       ManagerWork, ManagerReceives, Pops, ManagerSignalled, ManagerAnswered, ManagerOther,
       TypeOK
  <2>2. ASSUME NEW t \in Servers
        PROVE  inbox'[t] = <<>> => inbox[t] = <<>>
    <3>1. inbox'[t] = inbox[t] \/ \E to : \E m : Send(to, m)
      BY <1>1, <1>6 DEF vars, Signal, Request, ManagerStep, Prepare, Watch, TellServers,
         AllQuit, RelayAnswer, ManagerStages, ManagerReleases, ProcessExits,
         ManagerReceives, Pops, ManagerSignalled, ManagerAnswered, ManagerOther, TypeOK
    <3> QED
      BY <1>1, <3>1, ReachesFills DEF Send
  <2> QED
    BY <2>1, <2>2, SleepsOn DEF SleepersAreWoken
<1>7. ASSUME StartServers
      PROVE  SleepersAreWoken'
  BY <1>1, <1>7 DEF StartServers, SleepersAreWoken, WokenAt, AsleepIn
<1> QED
  BY <1>1, <1>2, <1>3, <1>4, <1>5, <1>6, <1>7 DEF Next, ServerStep

(* No wake-up is lost: while a server sleeps in EXIT_THREAD its thread has *)
(* been told and not yet sent its last message, or is one that returned    *)
(* with its bit set (audio.c:198).                                         *)
THEOREM NoWakeUpIsLost == Spec => []SleepersAreWoken
<1>1. Init => SleepersAreWoken
  BY DEF Init, Nodes, SleepersAreWoken, WokenAt, AsleepIn
<1>2. TypeOK /\ SleepersAreWoken /\ [Next]_vars => SleepersAreWoken'
  BY NextSleeps
<1> QED
  BY <1>1, <1>2, TypeCorrect, PTL DEF Spec
=============================================================================
