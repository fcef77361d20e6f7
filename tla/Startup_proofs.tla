--------------------------- MODULE Startup_proofs ---------------------------
(***************************************************************************)
(* The start handshake for every set of clients, every buffer size and any *)
(* number of failures. Only a running goke says that it runs, and from     *)
(* STATUS_RUN it does not go back: IInv of module Startup.                 *)
(***************************************************************************)
EXTENDS Startup, SequenceTheorems, TLAPS

(* A buffer that holds at most Capacity messages, each satisfying that it  *)
(* says "run" only if goke runs.                                           *)
Honest(q, running) ==
  /\ q \in Seq(Message)
  /\ Len(q) <= Capacity
  /\ \A i \in DOMAIN q : q[i].run => running

LEMMA AppendIsHonest ==
  ASSUME NEW q, NEW r \in BOOLEAN, Honest(q, r), Len(q) < Capacity,
         NEW m \in Message, m.run => r
  PROVE  Honest(Append(q, m), r)
<1>1. /\ Append(q, m) \in Seq(Message)
      /\ Len(Append(q, m)) = Len(q) + 1
      /\ \A i \in 1 .. Len(q) : Append(q, m)[i] = q[i]
      /\ Append(q, m)[Len(q) + 1] = m
  BY AppendProperties DEF Honest
<1>2. DOMAIN Append(q, m) = 1 .. Len(q) + 1 /\ DOMAIN q = 1 .. Len(q) /\ Len(q) \in Nat
  BY <1>1, LenProperties DEF Honest
<1>3. ASSUME NEW i \in 1 .. Len(q) + 1
      PROVE  i \in 1 .. Len(q) \/ i = Len(q) + 1
  BY <1>2
<1>4. Len(Append(q, m)) <= Capacity
  BY <1>1, <1>2, StartupAssumption
<1> QED
  BY <1>1, <1>2, <1>3, <1>4 DEF Honest

LEMMA TailIsHonest ==
  ASSUME NEW q, NEW r \in BOOLEAN, Honest(q, r), q # <<>>
  PROVE  /\ Honest(Tail(q), r)
         /\ Len(Tail(q)) < Capacity
         /\ Head(q) \in Message
         /\ Head(q).run => r
<1>1. q \in Seq(Message) /\ Len(q) <= Capacity
  BY DEF Honest
<1>2. /\ Tail(q) \in Seq(Message) /\ Len(Tail(q)) = Len(q) - 1 /\ Len(q) >= 1
      /\ Head(q) \in Message /\ Head(q) = q[1]
  BY <1>1
<1>3. \A i \in 1 .. Len(q) - 1 : Tail(q)[i] = q[i + 1] /\ i + 1 \in 1 .. Len(q)
  BY <1>1, <1>2
<1>4. DOMAIN q = 1 .. Len(q) /\ DOMAIN Tail(q) = 1 .. Len(q) - 1 /\ Len(q) \in Nat
  BY <1>1, <1>2, LenProperties
<1>5. Len(Tail(q)) < Capacity
  BY <1>1, <1>2, <1>4, StartupAssumption
<1>6. Head(q).run => r
  BY <1>2, <1>4 DEF Honest
<1>7. ASSUME NEW i \in DOMAIN Tail(q)
      PROVE  Tail(q)[i].run => r
  BY <1>3, <1>4 DEF Honest
<1>8. Len(Tail(q)) <= Capacity
  BY <1>1, <1>2, <1>4, StartupAssumption
<1> QED
  BY <1>2, <1>5, <1>6, <1>7, <1>8 DEF Honest

LEMMA PushIsHonest ==
  ASSUME NEW q, NEW r \in BOOLEAN, Honest(q, r), NEW m \in Message, m.run => r
  PROVE  Honest(Push(q, m), r)
<1>1. CASE Len(q) = Capacity
  <2>1. q # <<>>
    BY <1>1, StartupAssumption
  <2>2. Honest(Append(Tail(q), m), r)
    BY <2>1, TailIsHonest, AppendIsHonest
  <2> QED
    BY <1>1, <2>2 DEF Push
<1>2. CASE Len(q) # Capacity
  <2>1. Len(q) < Capacity
    BY <1>2, LenProperties, StartupAssumption DEF Honest
  <2>2. Honest(Append(q, m), r)
    BY <2>1, AppendIsHonest
  <2> QED
    BY <1>2, <2>2 DEF Push
<1> QED
  BY <1>1, <1>2

LEMMA MsgTypes ==
  ASSUME NEW type \in {"GET", "GET_ACK", "NOTIFY", "OTHER"}, NEW n \in Nodes,
         NEW run \in BOOLEAN
  PROVE  Msg(type, n, run) \in Message /\ Msg(type, n, run).run = run
BY DEF Msg, Message

-----------------------------------------------------------------------------
(* The buffers, and what the servers know, in terms of whether goke runs.  *)
HonestBuffers(boxes, running) ==
  /\ boxes \in [Nodes -> Seq(Message)]
  /\ \A n \in Nodes : Honest(boxes[n], running)

Running == status[Goke] = "RUN"

Statuses == {"created", "NONE", "INIT", "SETUP", "START", "RUN", "ERROR"}

Places ==
  /\ status \in [Nodes -> Statuses]
  /\ pc \in [Nodes -> {"work", "recv", "wait"}]
  /\ others \in 0 .. MaxOther
  /\ faults \in 0 .. MaxFaults

Knowledge ==
  /\ ready \subseteq Clients
  /\ ready # {} => Running
  /\ \A c \in Clients : status[c] = "SETUP" => c \in ready

LEMMA Regrouped ==
  IInv <=> Places /\ Knowledge /\ HonestBuffers(inbox, Running)
BY DEF IInv, TypeOK, OnlyRunningSaysRun, SetUpAfterGokeRuns, Places, Knowledge,
       HonestBuffers, Honest, Running, Statuses

LEMMA RegroupedNext ==
  ASSUME Places', Knowledge', HonestBuffers(inbox', Running')
  PROVE  IInv'
BY DEF IInv, TypeOK, OnlyRunningSaysRun, SetUpAfterGokeRuns, Places, Knowledge,
       HonestBuffers, Honest, Running, Statuses

LEMMA NodeTypes == Goke \in Nodes /\ Clients \subseteq Nodes /\ Goke \notin Clients
BY StartupAssumption DEF Nodes

(* What was honest stays so when goke starts to run.                       *)
LEMMA HonestyIsMonotone ==
  ASSUME NEW boxes, NEW r \in BOOLEAN, NEW s \in BOOLEAN, r => s,
         HonestBuffers(boxes, r)
  PROVE  HonestBuffers(boxes, s)
BY DEF HonestBuffers, Honest

LEMMA ReachesIsHonest ==
  ASSUME NEW r \in BOOLEAN, HonestBuffers(inbox, r),
         NEW to, NEW m \in Message, m.run => r
  PROVE  HonestBuffers(Reaches(to, m), r)
<1>1. ASSUME NEW n \in Nodes
      PROVE  Honest(Reaches(to, m)[n], r)
  BY PushIsHonest DEF Reaches, HonestBuffers
<1>2. Reaches(to, m) \in [Nodes -> Seq(Message)]
  BY <1>1 DEF Reaches, Honest
<1> QED
  BY <1>1, <1>2 DEF HonestBuffers

LEMMA ChangeOfOneBuffer ==
  ASSUME NEW boxes, NEW r \in BOOLEAN, HonestBuffers(boxes, r),
         NEW n \in Nodes, NEW q, Honest(q, r)
  PROVE  HonestBuffers([boxes EXCEPT ![n] = q], r)
BY DEF HonestBuffers, Honest

LEMMA InitIInv == Init => IInv
<1> SUFFICES ASSUME Init PROVE IInv
  OBVIOUS
<1>1. Places
  BY NodeTypes, StartupAssumption DEF Init, Places, Statuses
<1>2. Knowledge
  BY NodeTypes DEF Init, Knowledge
<1>3. HonestBuffers(inbox, Running)
  BY StartupAssumption DEF Init, HonestBuffers, Honest
<1> QED
  BY <1>1, <1>2, <1>3, Regrouped

-----------------------------------------------------------------------------
(* One turn of a server's loop keeps the places in order, and goke runs    *)
(* from then on if it did before.                                          *)
LEMMA WorkPlaces ==
  ASSUME Places, NEW n \in Nodes, NEW from \in Statuses, NEW s \in Statuses,
         Work(n, from, s), faults' \in 0 .. MaxFaults
  PROVE  /\ Places'
         /\ status'[n] = s
         /\ \A k \in Nodes \ {n} : status'[k] = status[k]
BY DEF Places, Work

(* goke's own turns: the clients stay where they are.                      *)
LEMMA GokeWorkIInv ==
  ASSUME IInv, NEW from \in Statuses, NEW s \in Statuses, Work(Goke, from, s),
         faults' \in 0 .. MaxFaults, from = "RUN" => s = "RUN",
         HonestBuffers(inbox', Running')
  PROVE  IInv'
<1>1. Places /\ Knowledge
  BY Regrouped
<1>2. Places' /\ status'[Goke] = s /\ \A k \in Nodes \ {Goke} : status'[k] = status[k]
  BY <1>1, WorkPlaces, NodeTypes
<1>3. status[Goke] = from /\ ready' = ready
  BY DEF Work
<1>4. Knowledge'
  BY <1>1, <1>2, <1>3, NodeTypes DEF Knowledge, Running
<1> QED
  BY <1>2, <1>4, RegroupedNext

(* A client's turns, which leave goke where it is.                         *)
LEMMA ClientWorkIInv ==
  ASSUME IInv, NEW c \in Clients, NEW from \in Statuses, NEW s \in Statuses,
         Work(c, from, s), faults' = faults, s = "SETUP" => c \in ready,
         HonestBuffers(inbox', Running)
  PROVE  IInv'
<1>1. Places /\ Knowledge
  BY Regrouped
<1>2. Places' /\ status'[c] = s /\ \A k \in Nodes \ {c} : status'[k] = status[k]
  BY <1>1, WorkPlaces, NodeTypes DEF Places
<1>3. Running' <=> Running
  BY <1>2, NodeTypes DEF Running
<1>4. Knowledge'
  BY <1>1, <1>2, <1>3, NodeTypes DEF Knowledge, Work
<1> QED
  BY <1>2, <1>3, <1>4, RegroupedNext

LEMMA GokeTurnsIInv ==
  ASSUME IInv,
         Begins(Goke) \/ GokeInit \/ GokeSetup \/ GokeSetupAgain \/ GokeFails
         \/ GokeRuns
  PROVE  IInv'
<1>1. Places /\ Knowledge /\ HonestBuffers(inbox, Running) /\ Running \in BOOLEAN
  BY Regrouped DEF Running
<1>2. faults' \in 0 .. MaxFaults
  <2>1. faults \in 0 .. MaxFaults
    BY <1>1 DEF Places
  <2>2. faults' = faults \/ (faults < MaxFaults /\ faults' = faults + 1)
    BY DEF Begins, GokeInit, GokeSetup, GokeSetupAgain, GokeFails, GokeRuns, Quiet
  <2> QED
    BY <2>1, <2>2, StartupAssumption
<1>3. CASE Begins(Goke) \/ GokeInit \/ GokeSetup \/ GokeSetupAgain
  <2>1. PICK from \in Statuses, s \in Statuses :
            Work(Goke, from, s) /\ from # "RUN" /\ s # "RUN"
    BY <1>3 DEF Begins, GokeInit, GokeSetup, GokeSetupAgain, Statuses
  <2>2. inbox' = inbox /\ (Running' <=> Running)
    BY <1>1, <1>3, <2>1, WorkPlaces, <1>2, NodeTypes
       DEF Begins, GokeInit, GokeSetup, GokeSetupAgain, Quiet, Running, Work
  <2>3. HonestBuffers(inbox', Running')
    BY <1>1, <2>2
  <2> QED
    BY <1>2, <2>1, <2>3, GokeWorkIInv
<1>4. CASE GokeFails
  <2>1. Work(Goke, "SETUP", "ERROR") /\ "SETUP" \in Statuses /\ "ERROR" \in Statuses
    BY <1>4 DEF GokeFails, Statuses
  <2>2. ~Running /\ ~Running'
    BY <1>1, <1>2, <2>1, WorkPlaces, NodeTypes DEF Running, Work
  <2>3. Honest(<<>>, Running)
    BY StartupAssumption DEF Honest
  <2>4. HonestBuffers(inbox', Running)
    BY <1>1, <1>4, <2>3, NodeTypes, ChangeOfOneBuffer DEF GokeFails
  <2>5. HonestBuffers(inbox', Running')
    BY <1>1, <2>2, <2>4, HonestyIsMonotone DEF Running
  <2> QED
    BY <1>2, <2>1, <2>5, GokeWorkIInv
<1>5. CASE GokeRuns
  <2>1. PICK from \in Statuses : Work(Goke, from, "RUN") /\ "RUN" \in Statuses
    BY <1>5 DEF GokeRuns, Statuses
  <2>2. Running'
    BY <1>1, <1>2, <2>1, WorkPlaces, NodeTypes DEF Running
  <2>3. HonestBuffers(inbox, TRUE)
    BY <1>1, HonestyIsMonotone
  <2>4. HonestBuffers(inbox', TRUE)
    BY <1>5, <2>3, MsgTypes, NodeTypes, ReachesIsHonest DEF GokeRuns
  <2>5. HonestBuffers(inbox', Running')
    BY <2>2, <2>4 DEF Running
  <2> QED
    BY <1>2, <2>1, <2>5, GokeWorkIInv
<1> QED
  BY <1>3, <1>4, <1>5

LEMMA ClientTurnsIInv ==
  ASSUME IInv, NEW c \in Clients,
         Begins(c) \/ ClientAsks(c) \/ ClientGoesOn(c) \/ ClientWorks(c)
  PROVE  IInv'
<1>1. Knowledge /\ HonestBuffers(inbox, Running) /\ Running \in BOOLEAN
  BY Regrouped DEF Running
<1>2. PICK from \in Statuses, s \in Statuses :
          Work(c, from, s) /\ (s = "SETUP" => c \in ready)
  <2>1. CASE Begins(c) \/ ClientAsks(c)
    BY <2>1 DEF Begins, ClientAsks, Statuses
  <2>2. CASE ClientGoesOn(c)
    BY <2>2 DEF ClientGoesOn, Statuses
  <2>3. CASE ClientWorks(c)
    <3>1. c \in ready
      BY <1>1, <2>3 DEF ClientWorks, Work, Knowledge
    <3> QED
      BY <2>3, <3>1 DEF ClientWorks, Statuses
  <2> QED
    BY <2>1, <2>2, <2>3
<1>3. faults' = faults
  BY DEF Begins, ClientAsks, ClientGoesOn, ClientWorks, Quiet
<1>4. HonestBuffers(inbox', Running)
  <2>1. CASE ClientAsks(c)
    BY <1>1, <2>1, MsgTypes, NodeTypes, ReachesIsHonest DEF ClientAsks
  <2>2. CASE Begins(c) \/ ClientGoesOn(c) \/ ClientWorks(c)
    BY <1>1, <2>2 DEF Begins, ClientGoesOn, ClientWorks, Quiet
  <2> QED
    BY <2>1, <2>2
<1> QED
  BY <1>2, <1>3, <1>4, ClientWorkIInv

-----------------------------------------------------------------------------
(* Steps that change no status: buffers, and what the clients know.        *)
LEMMA SameStatusIInv ==
  ASSUME IInv, status' = status, pc' \in [Nodes -> {"work", "recv", "wait"}],
         others' \in 0 .. MaxOther, faults' = faults,
         ready \subseteq ready', ready' \subseteq Clients, ready' # {} => Running,
         HonestBuffers(inbox', Running)
  PROVE  IInv'
<1>1. Places /\ Knowledge
  BY Regrouped
<1>2. Places' /\ Knowledge' /\ (Running' <=> Running)
  BY <1>1 DEF Places, Knowledge, Running
<1>3. HonestBuffers(inbox', Running')
  BY <1>2, HonestyIsMonotone DEF Running
<1> QED
  BY <1>2, <1>3, RegroupedNext

LEMMA PopsPlaces ==
  ASSUME IInv, NEW n \in Nodes, Pops(n)
  PROVE  /\ status' = status /\ faults' = faults /\ others' \in 0 .. MaxOther
         /\ pc' \in [Nodes -> {"work", "recv", "wait"}]
         /\ Honest(Tail(inbox[n]), Running)
         /\ Head(inbox[n]) \in Message
         /\ Head(inbox[n]).run => Running
BY Regrouped, TailIsHonest DEF Pops, Places, HonestBuffers, Running

LEMMA GokeAnswersIInv ==
  ASSUME IInv, GokeAnswers
  PROVE  IInv'
<1>1. Knowledge /\ HonestBuffers(inbox, Running) /\ Running \in BOOLEAN
  BY Regrouped DEF Running
<1>2. Pops(Goke) /\ ready' = ready
  BY DEF GokeAnswers
<1> DEFINE m == Head(inbox[Goke])
           read == [inbox EXCEPT ![Goke] = Tail(@)]
<1>3. HonestBuffers(read, Running)
  BY <1>1, <1>2, NodeTypes, PopsPlaces, ChangeOfOneBuffer
<1>4. m.from \in Nodes
  BY <1>2, NodeTypes, PopsPlaces DEF Message
<1>5. HonestBuffers(inbox', Running)
  <2>1. CASE m.type = "GET" /\ Open(m.from)
    <3>1. Honest(read[m.from], Running)
      BY <1>3, <1>4 DEF HonestBuffers
    <3>2. Honest(Push(read[m.from], Msg("GET_ACK", Goke, FALSE)), Running)
      BY <1>1, <3>1, MsgTypes, NodeTypes, PushIsHonest
    <3>3. inbox' = [read EXCEPT ![m.from] = Push(read[m.from], Msg("GET_ACK", Goke, FALSE))]
      BY <2>1 DEF GokeAnswers
    <3> QED
      BY <1>1, <1>3, <1>4, <3>2, <3>3, ChangeOfOneBuffer
  <2>2. CASE ~(m.type = "GET" /\ Open(m.from))
    BY <1>3, <2>2 DEF GokeAnswers
  <2> QED
    BY <2>1, <2>2
<1> QED
  BY <1>1, <1>2, <1>5, NodeTypes, PopsPlaces, SameStatusIInv DEF Knowledge

LEMMA ClientHearsIInv ==
  ASSUME IInv, NEW c \in Clients, ClientHears(c)
  PROVE  IInv'
<1>1. Knowledge /\ HonestBuffers(inbox, Running) /\ Running \in BOOLEAN
  BY Regrouped DEF Running
<1>2. Pops(c) /\ c \in Nodes
  BY NodeTypes DEF ClientHears
<1>3. HonestBuffers(inbox', Running)
  BY <1>1, <1>2, PopsPlaces, ChangeOfOneBuffer DEF ClientHears
<1>4. ready \subseteq ready' /\ ready' \subseteq Clients /\ (ready' # {} => Running)
  BY <1>1, <1>2, PopsPlaces DEF ClientHears, Knowledge
<1> QED
  BY <1>2, <1>3, <1>4, PopsPlaces, SameStatusIInv

LEMMA NothingToPopIInv ==
  ASSUME IInv, NEW n \in Nodes, NothingToPop(n)
  PROVE  IInv'
<1>1. Places /\ Knowledge /\ HonestBuffers(inbox, Running)
  BY Regrouped
<1>2. /\ status' = status /\ faults' = faults /\ others' \in 0 .. MaxOther
      /\ pc' \in [Nodes -> {"work", "recv", "wait"}]
      /\ ready' = ready /\ inbox' = inbox
  BY <1>1 DEF NothingToPop, Places
<1> QED
  BY <1>1, <1>2, SameStatusIInv DEF Knowledge

LEMMA ServerInitIInv ==
  ASSUME IInv, NEW n \in Nodes, ServerInit(n)
  PROVE  IInv'
<1>1. Places /\ Knowledge /\ HonestBuffers(inbox, Running)
  BY Regrouped
<1>2. Places' /\ Knowledge' /\ (Running' <=> Running)
  BY <1>1, NodeTypes DEF ServerInit, Places, Knowledge, Running, Statuses
<1>3. HonestBuffers(inbox', Running')
  BY <1>1, <1>2, HonestyIsMonotone DEF ServerInit, Running
<1> QED
  BY <1>1, <1>2, <1>3, RegroupedNext

LEMMA OtherIInv ==
  ASSUME IInv, NEW n \in Nodes, Other(n)
  PROVE  IInv'
<1>1. Places /\ Knowledge /\ HonestBuffers(inbox, Running) /\ Running \in BOOLEAN
  BY Regrouped DEF Running
<1>2. /\ status' = status /\ pc' = pc /\ faults' = faults /\ ready' = ready
      /\ others' \in 0 .. MaxOther
  BY <1>1, StartupAssumption DEF Other, Places
<1>3. HonestBuffers(inbox', Running)
  BY <1>1, MsgTypes, ReachesIsHonest DEF Other
<1> QED
  BY <1>1, <1>2, <1>3, SameStatusIInv DEF Knowledge, Places

LEMMA NextIInv ==
  ASSUME IInv, [Next]_vars
  PROVE  IInv'
<1>1. CASE UNCHANGED vars
  BY <1>1 DEF vars, IInv, TypeOK, OnlyRunningSaysRun, SetUpAfterGokeRuns
<1>2. CASE GokeStep
  BY <1>2, NodeTypes, ServerInitIInv, GokeTurnsIInv, NothingToPopIInv, GokeAnswersIInv
     DEF GokeStep
<1>3. ASSUME NEW c \in Clients, ClientStep(c)
      PROVE  IInv'
  BY <1>3, NodeTypes, ServerInitIInv, ClientTurnsIInv, NothingToPopIInv, ClientHearsIInv
     DEF ClientStep
<1> QED
  BY <1>1, <1>2, <1>3, OtherIInv DEF Next

(* Every reachable state satisfies the inductive invariant.                *)
THEOREM Invariance == Spec => []IInv
<1>1. Init => IInv
  BY InitIInv
<1>2. IInv /\ [Next]_vars => IInv'
  BY NextIInv
<1> QED
  BY <1>1, <1>2, PTL DEF Spec

(* Type correctness, and no buffer beyond its capacity, for every set of   *)
(* clients and every capacity.                                             *)
THEOREM TypeCorrect == Spec => []TypeOK
<1>1. IInv => TypeOK
  BY DEF IInv
<1> QED
  BY <1>1, Invariance, PTL

(* audio and video set up only in a running media system, for every number *)
(* of clients, every capacity and every pattern of loss.                   *)
THEOREM SetUpOnlyInRunningSystem == Spec => []SetUpAfterGokeRuns
<1>1. IInv => SetUpAfterGokeRuns
  BY DEF IInv
<1> QED
  BY <1>1, Invariance, PTL
=============================================================================
