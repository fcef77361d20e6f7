---------------------------- MODULE Recorder_proofs ----------------------------
(***************************************************************************)
(* The recorder for every number of slots, every set of modes and any      *)
(* number of requests: IInv of module Recorder.                            *)
(***************************************************************************)
EXTENDS Recorder, WellFoundedInduction, SequenceTheorems, FiniteSetTheorems, TLAPS

(* The least element of a set of natural numbers is one of them.           *)
LEMMA MinOfNat ==
  ASSUME NEW T \in SUBSET Nat, T # {}
  PROVE  Min(T) \in T
<1>1. PICK x \in T : \A y \in T : <<y, x>> \notin OpToRel(<, Nat)
  BY NatLessThanWellFounded, WFMin, Zenon
<1>2. \A y \in T : ~(y < x)
  BY <1>1, Zenon DEF OpToRel
<1>3. \A y \in T : x =< y
  BY <1>2
<1> QED
  BY <1>3 DEF Min

LEMMA MinOfFree ==
  ASSUME Free # {}
  PROVE  Min(Free) \in Jobs /\ job[Min(Free)] = "free"
BY MinOfNat, RecorderConstants DEF Free, Jobs

(* What the queue holds when a message is taken or added.                  *)
LEMMA TailOfInbox ==
  ASSUME TypeOK, inbox # <<>>
  PROVE  Head(inbox) \in Messages /\ Tail(inbox) \in Seq(Messages)
BY DEF TypeOK

LEMMA AppendToInbox ==
  ASSUME TypeOK, NEW m \in Messages
  PROVE  Append(inbox, m) \in Seq(Messages)
BY DEF TypeOK

LEMMA MessagesAreThere == Modes \cup {"add", "format", "exit", "sd", "other"} \subseteq Messages
BY DEF Messages

(* No more than one plan writes, whatever the number of threads.           *)
LEMMA OnePlan ==
  ASSUME TypeOK, FilesHaveThreads, PlanIsPlanned
  PROVE  OnePlanIsWritten
<1> DEFINE S == {j \in open \ strays : job[j] = "plan"}
<1> SUFFICES ASSUME ~dropped PROVE ~(Cardinality(S) > 1)
  BY DEF OnePlanIsWritten
<1>1. S \subseteq Planning
  BY DEF Planning, FilesHaveThreads, Live, TypeOK
<1>2. \A i, j \in S : i = j
  BY <1>1 DEF PlanIsPlanned
<1> HIDE DEF S
<1>3. CASE S = {}
  <2>1. Cardinality(S) = 0
    BY <1>3, FS_EmptySet
  <2> QED
    BY <2>1
<1>4. ASSUME NEW x \in S PROVE ~(Cardinality(S) > 1)
  <2>1. S = {x}
    BY <1>2
  <2>2. Cardinality(S) = 1
    BY <2>1, FS_Singleton
  <2> QED
    BY <2>2
<1> QED
  BY <1>3, <1>4

LEMMA InitIInv == Init => IInv
<1> SUFFICES ASSUME Init PROVE IInv
  OBVIOUS
<1>1. TypeOK
  <2>1. inbox \in Seq(Messages) /\ status \in Statuses /\ sends \in 0 .. MaxSends
    BY RecorderConstants DEF Init, Statuses
  <2>2. /\ job \in [Jobs -> {"free", "plan", "alarm"}]
        /\ at \in [Jobs -> {"none", "created", "tests", "acts", "waits", "ends", "clears"}]
        /\ ctrl \in [Jobs -> {"STARTED", "RUN", "EXIT"}]
    BY DEF Init
  <2> QED
    BY <2>1, <2>2 DEF Init, TypeOK
<1>2. Live = {}
  BY DEF Init, Live, Entered
<1>3. FilesHaveThreads /\ LetGoOfThreads /\ WaitsForCard /\ AllAreTold
  BY <1>2 DEF Init, FilesHaveThreads, LetGoOfThreads, WaitsForCard, AllAreTold, Live
<1>4. OffThreadsAreTold /\ PlanIsPlanned
  BY <1>2 DEF Init, OffThreadsAreTold, PlanIsPlanned, Planning
<1> QED
  BY <1>1, <1>3, <1>4 DEF IInv

-----------------------------------------------------------------------------
(* The server's turns. *)

(* A step that leaves the threads and what they were told alone.           *)
ThreadsStay ==
  UNCHANGED <<started, told, job, at, ctrl, copy, open, strays, dropped, wiped, missed>>

LEMMA StatusTurn ==
  ASSUME IInv, server = "work", UNCHANGED <<mode, reply, sends>>,
         NoneTurn \/ InitTurn \/ WaitTurn \/ StartTurn
  PROVE  IInv'
<1> USE DEF IInv
<1>1. /\ ThreadsStay /\ UNCHANGED <<planned, ready, inbox, misled, card>>
      /\ asked' \in BOOLEAN /\ server' \in {"recv", "pass"} /\ status' \in Statuses
      /\ status \notin {"EXIT_FINISH", "EXIT_STAGE2"} /\ status' \notin {"EXIT_FINISH", "EXIT_STAGE2"}
  BY DEF NoneTurn, InitTurn, WaitTurn, StartTurn, Then, TypeOK, Statuses, Exiting, threadVars,
         history, ThreadsStay
<1>2. TypeOK'
  BY <1>1 DEF ThreadsStay, TypeOK
<1>3. Entered' = Entered /\ Live' = Live /\ Planning' = Planning
  BY <1>1 DEF ThreadsStay, Entered, Live, Planning
<1>4. FilesHaveThreads' /\ LetGoOfThreads' /\ AllAreTold'
  BY <1>1, <1>3 DEF ThreadsStay, FilesHaveThreads, LetGoOfThreads, AllAreTold
<1>5. WaitsForCard'
  <2> SUFFICES ASSUME card = "released", ~misled PROVE status' \in {"NONE", "INIT", "REINIT"} \cup Exiting
    BY <1>1, <1>3 DEF ThreadsStay, WaitsForCard
  <2>1. ~ready /\ status \in {"NONE", "INIT", "REINIT"} \cup Exiting
    BY DEF WaitsForCard
  <2> QED
    BY <2>1 DEF NoneTurn, InitTurn, WaitTurn, StartTurn, Then, Exiting
<1>6. OffThreadsAreTold'
  <2>1. status' = "SETUP" => mode # "none"
    BY DEF NoneTurn, InitTurn, WaitTurn, StartTurn, Then
  <2>2. status' \in {"START", "RUN"} => status \in {"SETUP", "START"}
    BY DEF NoneTurn, InitTurn, WaitTurn, StartTurn, Then
  <2> QED
    BY <1>1, <1>3, <2>1, <2>2 DEF ThreadsStay, OffThreadsAreTold
<1>7. PlanIsPlanned'
  BY <1>1, <1>3 DEF ThreadsStay, PlanIsPlanned
<1> QED
  BY <1>2, <1>4, <1>5, <1>6, <1>7

(* A thread that is created is not one that writes for the second time.    *)
LEMMA AddJobKeeps ==
  ASSUME IInv, NEW type \in {"plan", "alarm"}, AddJob(type),
         status' = "RUN", status = "RUN", server # "joins", server' # "joins",
         UNCHANGED <<mode, started, strays, dropped, wiped, card, misled, ready>>,
         type = "plan" => ~planned, planned' = (planned \/ type = "plan"),
         server # "gone"
  PROVE  /\ job' \in [Jobs -> {"free", "plan", "alarm"}]
         /\ at' \in [Jobs -> {"none", "created", "tests", "acts", "waits", "ends", "clears"}]
         /\ ctrl' = ctrl /\ told' \subseteq Jobs /\ UNCHANGED <<copy, open>>
         /\ FilesHaveThreads' /\ WaitsForCard' /\ AllAreTold' /\ OffThreadsAreTold'
         /\ PlanIsPlanned'
<1> USE DEF IInv
<1>1. CASE CreatesNone
  <2>1. UNCHANGED <<job, at, ctrl, copy, open, told>>
    BY <1>1 DEF CreatesNone, threadVars
  <2>2. Entered' = Entered /\ Live' = Live /\ Planning' = Planning
    BY <2>1 DEF Entered, Live, Planning
  <2>3. FilesHaveThreads' /\ WaitsForCard' /\ AllAreTold' /\ OffThreadsAreTold'
    BY <2>1, <2>2 DEF FilesHaveThreads, WaitsForCard, AllAreTold, OffThreadsAreTold, Exiting
  <2>4. PlanIsPlanned'
    BY <2>2 DEF PlanIsPlanned
  <2> QED
    BY <2>1, <2>3, <2>4 DEF TypeOK
<1>2. CASE Allows(type) /\ Free # {} /\ Creates(type)
  <2> DEFINE j == Min(Free)
  <2>1. j \in Jobs /\ job[j] = "free" /\ at[j] = "none"
    BY <1>2, MinOfFree DEF FilesHaveThreads
  <2>2. /\ job' = [job EXCEPT ![j] = type] /\ at' = [at EXCEPT ![j] = "created"]
        /\ told' = told \ {j} /\ UNCHANGED <<ctrl, copy, open>>
    BY <1>2 DEF Creates
  <2> HIDE DEF j
  <2>3. \A k \in Jobs : /\ job'[k] = IF k = j THEN type ELSE job[k]
                        /\ at'[k] = IF k = j THEN "created" ELSE at[k]
    BY <2>1, <2>2 DEF TypeOK
  <2>4. /\ job' \in [Jobs -> {"free", "plan", "alarm"}]
        /\ at' \in [Jobs -> {"none", "created", "tests", "acts", "waits", "ends", "clears"}]
        /\ told' \subseteq Jobs
    BY <2>1, <2>2 DEF TypeOK
  <2>5. Entered' = Entered /\ Live' = Live \cup {j} /\ j \notin Live
    BY <2>1, <2>3 DEF Entered, Live
  <2>6. FilesHaveThreads'
    BY <2>2, <2>3, <2>5 DEF FilesHaveThreads
  <2>7. WaitsForCard' /\ AllAreTold'
    BY DEF WaitsForCard, AllAreTold, Exiting
  <2>8. OffThreadsAreTold'
    BY <1>2 DEF Allows, OffThreadsAreTold
  <2>9. PlanIsPlanned'
    <3>1. CASE type = "alarm"
      <4>1. Planning' = Planning
        BY <2>1, <2>2, <2>3, <2>5, <3>1 DEF Planning, Live, Entered
      <4> QED
        BY <3>1, <4>1 DEF PlanIsPlanned
    <3>2. CASE type = "plan"
      <4>1. ~dropped => Planning = {}
        BY <3>2 DEF PlanIsPlanned
      <4>2. Planning' \subseteq Planning \cup {j}
        BY <2>1, <2>2, <2>3, <2>5 DEF Planning, Live, Entered
      <4> QED
        BY <3>2, <4>1, <4>2 DEF PlanIsPlanned
    <3> QED
      BY <3>1, <3>2
  <2> QED
    BY <2>2, <2>4, <2>6, <2>7, <2>8, <2>9
<1> QED
  BY <1>1, <1>2 DEF AddJob

LEMMA RunTurnKeepsIInv ==
  ASSUME IInv, server = "work", UNCHANGED <<mode, reply, sends>>, RunTurn
  PROVE  IInv'
<1> USE DEF IInv
<1>1. /\ status = "RUN" /\ status' = "RUN" /\ server' = "recv"
      /\ UNCHANGED <<ready, started, asked, strays, misled, dropped, wiped, missed, card>>
  BY DEF RunTurn, Then, history
<1>2. CASE ~planned /\ AddJob("plan") /\ planned' = TRUE /\ inbox' = Append(inbox, "other")
  <2>1. /\ job' \in [Jobs -> {"free", "plan", "alarm"}]
        /\ at' \in [Jobs -> {"none", "created", "tests", "acts", "waits", "ends", "clears"}]
        /\ ctrl' = ctrl /\ told' \subseteq Jobs /\ UNCHANGED <<copy, open>>
        /\ FilesHaveThreads' /\ WaitsForCard' /\ AllAreTold' /\ OffThreadsAreTold'
        /\ PlanIsPlanned'
    BY <1>1, <1>2, AddJobKeeps
  <2>2. inbox' \in Seq(Messages)
    BY <1>2, AppendToInbox, MessagesAreThere
  <2>3. TypeOK'
    BY <1>1, <1>2, <2>1, <2>2 DEF TypeOK
  <2>4. LetGoOfThreads'
    BY <1>1 DEF LetGoOfThreads
  <2> QED
    BY <2>1, <2>3, <2>4
<1>3. CASE CreatesNone /\ UNCHANGED <<planned, inbox>>
  <2>1. ThreadsStay
    BY <1>1, <1>3 DEF CreatesNone, threadVars, ThreadsStay
  <2>2. TypeOK'
    BY <1>1, <1>3, <2>1 DEF ThreadsStay, TypeOK
  <2>3. Entered' = Entered /\ Live' = Live /\ Planning' = Planning
    BY <2>1 DEF ThreadsStay, Entered, Live, Planning
  <2>4. FilesHaveThreads' /\ LetGoOfThreads' /\ AllAreTold' /\ WaitsForCard'
    BY <1>1, <1>3, <2>1, <2>3 DEF ThreadsStay, FilesHaveThreads, LetGoOfThreads, AllAreTold,
                                  WaitsForCard
  <2>5. OffThreadsAreTold' /\ PlanIsPlanned'
    BY <1>1, <1>3, <2>1, <2>3 DEF ThreadsStay, OffThreadsAreTold, PlanIsPlanned
  <2> QED
    BY <2>2, <2>4, <2>5
<1> QED
  BY <1>2, <1>3 DEF RunTurn

(* Waking the threads that wait changes none of the sets.                  *)
LEMMA BroadcastKeeps ==
  ASSUME TypeOK, at' = at \/ at' = Broadcast(at), UNCHANGED <<job, open>>
  PROVE  /\ at' \in [Jobs -> {"none", "created", "tests", "acts", "waits", "ends", "clears"}]
         /\ \A j \in Jobs : at'[j] = at[j] \/ (at[j] = "waits" /\ at'[j] = "tests")
         /\ Entered' = Entered /\ Live' = Live
         /\ {j \in Jobs : at'[j] = "created"} = {j \in Jobs : at[j] = "created"}
<1>1. /\ at' \in [Jobs -> {"none", "created", "tests", "acts", "waits", "ends", "clears"}]
      /\ \A j \in Jobs : at'[j] = at[j] \/ (at[j] = "waits" /\ at'[j] = "tests")
  BY DEF Broadcast, TypeOK
<1> QED
  BY <1>1 DEF Entered, Live

LEMMA TellTurnKeepsIInv ==
  ASSUME IInv, server = "work", UNCHANGED <<mode, reply, sends>>, TellTurn
  PROVE  IInv'
<1> USE DEF IInv
<1>1. /\ status \in {"STOP", "REINIT"} /\ told' = Jobs /\ at' = Broadcast(at)
      /\ inbox' = Append(inbox, "other") /\ server' = "joins"
      /\ UNCHANGED <<status, planned, ready, started, job, ctrl, copy, open, asked, strays, misled,
                     dropped, wiped, missed, card>>
  BY DEF TellTurn, infoVars, history
<1>2. /\ at' \in [Jobs -> {"none", "created", "tests", "acts", "waits", "ends", "clears"}]
      /\ \A j \in Jobs : at'[j] = at[j] \/ (at[j] = "waits" /\ at'[j] = "tests")
      /\ Entered' = Entered /\ Live' = Live
  BY <1>1, BroadcastKeeps
<1>3. inbox' \in Seq(Messages)
  BY <1>1, AppendToInbox, MessagesAreThere
<1>4. TypeOK'
  BY <1>1, <1>2, <1>3 DEF TypeOK
<1>5. FilesHaveThreads' /\ LetGoOfThreads' /\ WaitsForCard'
  BY <1>1, <1>2 DEF FilesHaveThreads, LetGoOfThreads, WaitsForCard
<1>6. AllAreTold' /\ OffThreadsAreTold'
  BY <1>1, <1>2 DEF AllAreTold, OffThreadsAreTold, Live, Entered
<1>7. PlanIsPlanned'
  <2>1. Planning' \subseteq Planning
    BY <1>1, <1>2 DEF Planning, Live, Entered
  <2> QED
    BY <1>1, <2>1 DEF PlanIsPlanned
<1> QED
  BY <1>4, <1>5, <1>6, <1>7

LEMMA ExitTurnKeepsIInv ==
  ASSUME IInv, server = "work", UNCHANGED <<mode, reply, sends>>, ExitTurn
  PROVE  IInv'
<1> USE DEF IInv
<1>1. /\ status \in Exiting /\ status' \in {"EXIT_SERVER", "EXIT_STAGE1", "EXIT_THREAD"}
      /\ server' \in {"recv", "pass"} /\ (at' = at \/ at' = Broadcast(at))
      /\ status # "EXIT_FINISH"
      /\ UNCHANGED <<planned, ready, started, told, job, ctrl, copy, open, inbox, asked, strays,
                     misled, dropped, wiped, missed, card>>
  BY DEF ExitTurn, Then, Exiting, history
<1>2. /\ at' \in [Jobs -> {"none", "created", "tests", "acts", "waits", "ends", "clears"}]
      /\ \A j \in Jobs : at'[j] = at[j] \/ (at[j] = "waits" /\ at'[j] = "tests")
      /\ Entered' = Entered /\ Live' = Live
  BY <1>1, BroadcastKeeps
<1>3. TypeOK'
  BY <1>1, <1>2 DEF TypeOK, Statuses, Exiting
<1>4. FilesHaveThreads' /\ LetGoOfThreads' /\ WaitsForCard'
  BY <1>1, <1>2 DEF FilesHaveThreads, LetGoOfThreads, WaitsForCard, Exiting
<1>5. AllAreTold' /\ OffThreadsAreTold'
  BY <1>1 DEF AllAreTold, OffThreadsAreTold
<1>6. PlanIsPlanned'
  <2>1. Planning' \subseteq Planning
    BY <1>1, <1>2 DEF Planning, Live, Entered
  <2> QED
    BY <1>1, <2>1 DEF PlanIsPlanned
<1> QED
  BY <1>3, <1>4, <1>5, <1>6

LEMMA ExitThreadTurnKeepsIInv ==
  ASSUME IInv, server = "work", UNCHANGED <<mode, reply, sends>>, ExitThreadTurn
  PROVE  IInv'
<1> USE DEF IInv
<1>1. /\ status = "EXIT_THREAD" /\ told' = started /\ at' = Broadcast(at)
      /\ server' = "looks" /\ dropped' = (dropped \/ TakesBack(started)) /\ missed' = {}
      /\ UNCHANGED <<status, planned, ready, started, job, ctrl, copy, open, inbox, asked, strays,
                     misled, wiped, card>>
  BY DEF ExitThreadTurn, infoVars
<1>2. /\ at' \in [Jobs -> {"none", "created", "tests", "acts", "waits", "ends", "clears"}]
      /\ \A j \in Jobs : at'[j] = at[j] \/ (at[j] = "waits" /\ at'[j] = "tests")
      /\ Entered' = Entered /\ Live' = Live
  BY <1>1, BroadcastKeeps
<1>3. dropped' \in BOOLEAN /\ (~dropped' => ~dropped /\ \A j \in told \ started : at[j] = "none")
  BY <1>1 DEF TypeOK, TakesBack
<1>4. TypeOK'
  BY <1>1, <1>2, <1>3 DEF TypeOK
<1>5. FilesHaveThreads' /\ LetGoOfThreads' /\ WaitsForCard'
  BY <1>1, <1>2 DEF FilesHaveThreads, LetGoOfThreads, WaitsForCard
<1>6. AllAreTold' /\ OffThreadsAreTold'
  BY <1>1 DEF AllAreTold, OffThreadsAreTold
<1>7. PlanIsPlanned'
  <2> SUFFICES ASSUME ~dropped' PROVE Planning' \subseteq Planning
    BY <1>1, <1>3 DEF PlanIsPlanned
  <2> SUFFICES ASSUME NEW j \in Planning' PROVE j \in Planning
    OBVIOUS
  <2>1. j \in Live /\ j \notin strays /\ job[j] = "plan" /\ j \in Jobs /\ at[j] # "none"
    BY <1>1, <1>2 DEF Planning, Live, Entered
  <2>2. j \in told => j \in started
    BY <1>3, <2>1
  <2>3. j \in told => j \in open \/ at[j] \in {"acts", "waits"}
    BY <1>1, <1>2, <2>1, <2>2 DEF Planning
  <2> QED
    BY <2>1, <2>3 DEF Planning
<1> QED
  BY <1>4, <1>5, <1>6, <1>7

LEMMA ReleaseTurnKeepsIInv ==
  ASSUME IInv, server = "work", UNCHANGED <<mode, reply, sends>>, ReleaseTurn \/ FinishTurn
  PROVE  IInv'
<1> USE DEF IInv
<1>1. /\ status \in {"EXIT_STAGE2", "EXIT_FINISH"} /\ status' = "EXIT_FINISH"
      /\ server' \in {"pass", "leaves"} /\ (inbox' = <<>> \/ (inbox' = inbox /\ status = "EXIT_FINISH"))
      /\ ThreadsStay /\ UNCHANGED <<planned, ready, asked, misled, card>>
  BY DEF ReleaseTurn, FinishTurn, Then, infoVars, threadVars, history, ThreadsStay
<1>2. inbox' = <<>>
  BY <1>1 DEF LetGoOfThreads
<1>3. TypeOK'
  <2>1. inbox' \in Seq(Messages)
    BY <1>2
  <2> QED
    BY <1>1, <2>1 DEF ThreadsStay, TypeOK, Statuses, Exiting
<1>4. Entered' = Entered /\ Live' = Live /\ Planning' = Planning
  BY <1>1 DEF ThreadsStay, Entered, Live, Planning
<1>5. FilesHaveThreads' /\ LetGoOfThreads' /\ WaitsForCard'
  BY <1>1, <1>2, <1>4 DEF ThreadsStay, FilesHaveThreads, LetGoOfThreads, WaitsForCard, Exiting
<1>6. AllAreTold' /\ OffThreadsAreTold' /\ PlanIsPlanned'
  BY <1>1, <1>4 DEF ThreadsStay, AllAreTold, OffThreadsAreTold, PlanIsPlanned
<1> QED
  BY <1>3, <1>5, <1>6

LEMMA TurnKeepsIInv ==
  ASSUME IInv, Turn
  PROVE  IInv'
<1>1. server = "work" /\ UNCHANGED <<mode, reply, sends>>
  BY DEF Turn
<1> QED
  BY <1>1, StatusTurn, RunTurnKeepsIInv, TellTurnKeepsIInv, ExitTurnKeepsIInv,
     ExitThreadTurnKeepsIInv, ReleaseTurnKeepsIInv DEF Turn

(* Once thread_start is empty only unseen threads are left.                *)
LEMMA OnlyTheUnseen ==
  ASSUME IInv, server # "gone", started = {}
  PROVE  /\ Entered \subseteq wiped /\ open \subseteq wiped
         /\ Live \subseteq Unseen /\ Unseen \subseteq Jobs
         /\ wiped \subseteq strays
BY DEF IInv, FilesHaveThreads, Live, Unseen, TypeOK

LEMMA LooksForThreadsKeepsIInv ==
  ASSUME IInv, LooksForThreads
  PROVE  IInv'
<1> USE DEF IInv
<1>1. /\ server = "looks" /\ server' \in {"recv", "pass"}
      /\ \/ started = {} /\ status' = "EXIT_STAGE2" /\ strays' = Unseen
         \/ status' = "EXIT_THREAD" /\ strays' = strays
      /\ UNCHANGED <<planned, ready, started, told, job, at, ctrl, copy, open, inbox, mode, card,
                     asked, reply, sends, misled, dropped, wiped, missed>>
  BY DEF LooksForThreads, Then, threadVars, outside
<1>2. status = "EXIT_THREAD"
  BY <1>1 DEF LetGoOfThreads
<1>3. /\ strays' = strays \/ (started = {} /\ strays' = Unseen /\ Live \subseteq strays')
      /\ strays' \subseteq Jobs /\ wiped \subseteq strays'
      /\ status' = "EXIT_STAGE2" => Live \subseteq strays'
  BY <1>1, OnlyTheUnseen DEF TypeOK, FilesHaveThreads, Unseen
<1>4. TypeOK'
  BY <1>1, <1>3 DEF TypeOK, Statuses, Exiting
<1>5. Entered' = Entered /\ Live' = Live
  BY <1>1 DEF Entered, Live
<1>6. FilesHaveThreads' /\ LetGoOfThreads'
  BY <1>1, <1>3, <1>5 DEF FilesHaveThreads, LetGoOfThreads
<1>7. WaitsForCard'
  BY <1>1, <1>2, <1>3, <1>5 DEF WaitsForCard, Exiting
<1>8. AllAreTold' /\ OffThreadsAreTold'
  BY <1>1 DEF AllAreTold, OffThreadsAreTold
<1>9. PlanIsPlanned'
  <2>1. Planning' \subseteq Planning
    BY <1>1, <1>3, <1>5 DEF Planning
  <2> QED
    BY <1>1, <2>1 DEF PlanIsPlanned
<1> QED
  BY <1>4, <1>6, <1>7, <1>8, <1>9

LEMMA StoppedKeepsIInv ==
  ASSUME IInv, Stopped
  PROVE  IInv'
<1> USE DEF IInv
<1>1. /\ server = "joins" /\ status = "STOP" /\ started = {} /\ planned' = FALSE
      /\ status' = "START" /\ server' = "pass"
      /\ ThreadsStay /\ UNCHANGED <<ready, inbox, mode, card, asked, reply, sends, misled>>
  BY DEF Stopped, Then, threadVars, outside, history, ThreadsStay
<1>2. Entered \subseteq wiped /\ open \subseteq wiped /\ wiped \subseteq strays
  BY <1>1, OnlyTheUnseen
<1>3. TypeOK'
  BY <1>1 DEF ThreadsStay, TypeOK, Statuses
<1>4. Entered' = Entered /\ Live' = Live /\ Planning' = Planning
  BY <1>1 DEF ThreadsStay, Entered, Live, Planning
<1>5. FilesHaveThreads' /\ LetGoOfThreads' /\ AllAreTold'
  BY <1>1, <1>4 DEF ThreadsStay, FilesHaveThreads, LetGoOfThreads, AllAreTold
<1>6. WaitsForCard'
  BY <1>1 DEF WaitsForCard, Exiting
<1>7. ~dropped => Live \subseteq told
  BY <1>1 DEF AllAreTold
<1>8. OffThreadsAreTold'
  <2>1. \A j \in Jobs \ wiped : at[j] \notin {"acts", "waits"}
    BY <1>2 DEF Entered
  <2> QED
    BY <1>1, <1>2, <1>4, <1>7, <2>1 DEF ThreadsStay, OffThreadsAreTold
<1>9. PlanIsPlanned'
  <2>1. ~dropped => Planning = {}
    BY <1>2, <1>7 DEF Planning, Entered, Live
  <2> QED
    BY <1>1, <1>4, <2>1 DEF ThreadsStay, PlanIsPlanned
<1> QED
  BY <1>3, <1>5, <1>6, <1>8, <1>9

LEMMA JoinedKeepsIInv ==
  ASSUME IInv, Joined
  PROVE  IInv'
<1> USE DEF IInv
<1>1. /\ server = "joins" /\ status = "REINIT" /\ started = {} /\ card' \in {card, "released"}
      /\ status' = "NONE" /\ server' = "clears" /\ strays' = Unseen /\ misled' = FALSE
      /\ UNCHANGED <<planned, ready, started, told, job, at, ctrl, copy, open, inbox, mode, asked,
                     reply, sends, dropped, wiped, missed>>
  BY DEF Joined, threadVars
<1>2. Live \subseteq strays' /\ strays' \subseteq Jobs /\ wiped \subseteq strays'
  BY <1>1, OnlyTheUnseen DEF Unseen
<1>3. TypeOK'
  BY <1>1, <1>2 DEF TypeOK, Statuses
<1>4. Entered' = Entered /\ Live' = Live
  BY <1>1 DEF Entered, Live
<1>5. FilesHaveThreads' /\ LetGoOfThreads' /\ AllAreTold' /\ OffThreadsAreTold'
  BY <1>1, <1>2, <1>4 DEF FilesHaveThreads, LetGoOfThreads, AllAreTold, OffThreadsAreTold
<1>6. WaitsForCard'
  BY <1>1, <1>2, <1>4 DEF WaitsForCard
<1>7. PlanIsPlanned'
  <2>1. Planning' = {}
    BY <1>1, <1>2, <1>4 DEF Planning
  <2> QED
    BY <2>1 DEF PlanIsPlanned
<1> QED
  BY <1>3, <1>5, <1>6, <1>7

(* The threads whose bits are wiped are among those that were unseen when  *)
(* the poll ended.                                                         *)
LEMMA ClearsKeepsIInv ==
  ASSUME IInv, Clears
  PROVE  IInv'
<1> USE DEF IInv
<1>1. /\ server = "clears" /\ planned' = FALSE /\ ready' = FALSE /\ started' = {} /\ told' = {}
      /\ wiped' = wiped \cup started /\ status' = "INIT" /\ server' \in {"pass", "recv"}
      /\ UNCHANGED <<job, at, ctrl, copy, open, inbox, mode, card, asked, reply, sends, strays,
                     misled, dropped, missed>>
  BY DEF Clears, Then, threadVars, outside
<1>2. Live \subseteq strays
  BY <1>1 DEF LetGoOfThreads
<1>3. wiped' \subseteq Entered /\ wiped' \subseteq strays /\ Entered \subseteq wiped'
  BY <1>1, <1>2 DEF FilesHaveThreads, Live
<1>4. TypeOK'
  BY <1>1 DEF TypeOK, Statuses
<1>5. Entered' = Entered /\ Live' = Live
  BY <1>1 DEF Entered, Live
<1>6. FilesHaveThreads' /\ LetGoOfThreads' /\ AllAreTold' /\ OffThreadsAreTold' /\ WaitsForCard'
  BY <1>1, <1>2, <1>3, <1>5 DEF FilesHaveThreads, LetGoOfThreads, AllAreTold, OffThreadsAreTold,
                                WaitsForCard
<1>7. PlanIsPlanned'
  <2>1. Planning' = {}
    BY <1>1, <1>2, <1>5 DEF Planning
  <2> QED
    BY <2>1 DEF PlanIsPlanned
<1> QED
  BY <1>4, <1>6, <1>7

LEMMA LeavesKeepsIInv ==
  ASSUME IInv, Leaves
  PROVE  IInv'
<1> USE DEF IInv
<1>1. /\ server = "leaves" /\ server' = "gone"
      /\ planned' = FALSE /\ ready' = FALSE /\ started' = {} /\ told' = {}
      /\ UNCHANGED <<status, job, at, ctrl, copy, open, inbox, mode, card, asked, reply, sends,
                     strays, misled, dropped, wiped, missed>>
  BY DEF Leaves, threadVars, outside, history
<1>2. status = "EXIT_FINISH" /\ Live \subseteq strays
  BY <1>1 DEF LetGoOfThreads
<1>3. TypeOK'
  BY <1>1 DEF TypeOK
<1>4. Entered' = Entered /\ Live' = Live
  BY <1>1 DEF Entered, Live
<1>5. FilesHaveThreads' /\ LetGoOfThreads' /\ WaitsForCard' /\ AllAreTold' /\ OffThreadsAreTold'
  BY <1>1, <1>2, <1>4 DEF FilesHaveThreads, LetGoOfThreads, WaitsForCard, AllAreTold,
                          OffThreadsAreTold
<1>6. PlanIsPlanned'
  <2>1. Planning' = {}
    BY <1>1, <1>2, <1>4 DEF Planning
  <2> QED
    BY <2>1 DEF PlanIsPlanned
<1> QED
  BY <1>3, <1>5, <1>6

-----------------------------------------------------------------------------
(* A message. *)

LEMMA ThreadsStayKeep ==
  ASSUME IInv, ThreadsStay, planned' = planned, server # "gone", server' # "gone",
         server' = "joins" => server = "joins"
  PROVE  /\ Entered' = Entered /\ Live' = Live
         /\ FilesHaveThreads' /\ AllAreTold' /\ PlanIsPlanned'
<1>1. Entered' = Entered /\ Live' = Live /\ Planning' = Planning
  BY DEF ThreadsStay, Entered, Live, Planning
<1>2. FilesHaveThreads' /\ AllAreTold'
  BY <1>1 DEF IInv, ThreadsStay, FilesHaveThreads, AllAreTold
<1>3. PlanIsPlanned'
  BY <1>1 DEF IInv, ThreadsStay, PlanIsPlanned
<1> QED
  BY <1>1, <1>2, <1>3

LEMMA ReceiveKeepsIInv ==
  ASSUME IInv, Receive
  PROVE  IInv'
<1> USE DEF IInv
<1>1. /\ server \in {"recv", "pass"} /\ server' = "work"
      /\ UNCHANGED <<started, card, asked, reply, sends, strays, dropped, wiped, missed>>
  BY DEF Receive, outside
<1>2. CASE inbox = <<>> /\ UNCHANGED <<infoVars, inbox, mode, told, threadVars, misled>>
  <2>1. ThreadsStay /\ UNCHANGED <<status, planned, ready, inbox, mode, misled>>
    BY <1>1, <1>2 DEF infoVars, threadVars, ThreadsStay
  <2>2. TypeOK'
    BY <1>1, <2>1 DEF ThreadsStay, TypeOK
  <2>3. /\ Entered' = Entered /\ Live' = Live
        /\ FilesHaveThreads' /\ AllAreTold' /\ PlanIsPlanned'
    BY <1>1, <2>1, ThreadsStayKeep
  <2>4. LetGoOfThreads' /\ WaitsForCard' /\ OffThreadsAreTold'
    BY <1>1, <2>1, <2>3 DEF ThreadsStay, LetGoOfThreads, WaitsForCard, OffThreadsAreTold
  <2> QED
    BY <2>2, <2>3, <2>4
<1>3. ASSUME inbox # <<>>, inbox' = Tail(inbox), Adds \/ SetsMode \/ ChangesStatus \/ Learns
      PROVE  IInv'
  <2>1. Head(inbox) \in Messages /\ inbox' \in Seq(Messages)
    BY <1>3, TailOfInbox
  <2>2. status # "EXIT_FINISH"
    BY <1>3 DEF LetGoOfThreads
  <2>3. CASE Adds /\ status = "RUN"
    <3>1. AddJob("alarm") /\ UNCHANGED <<status, planned, ready, mode, misled>>
      BY <2>3 DEF Adds
    <3>2. /\ job' \in [Jobs -> {"free", "plan", "alarm"}]
          /\ at' \in [Jobs -> {"none", "created", "tests", "acts", "waits", "ends", "clears"}]
          /\ ctrl' = ctrl /\ told' \subseteq Jobs /\ UNCHANGED <<copy, open>>
          /\ FilesHaveThreads' /\ WaitsForCard' /\ AllAreTold' /\ OffThreadsAreTold'
          /\ PlanIsPlanned'
      <4>1. planned' = (planned \/ "alarm" = "plan")
        BY <3>1 DEF TypeOK
      <4> QED
        BY <1>1, <2>3, <3>1, <4>1, AddJobKeeps
    <3>3. TypeOK'
      BY <1>1, <2>1, <3>1, <3>2 DEF TypeOK
    <3>4. LetGoOfThreads'
      BY <1>1, <2>3, <3>1 DEF LetGoOfThreads
    <3> QED
      BY <3>2, <3>3, <3>4
  <2>4. CASE (Adds /\ status # "RUN") \/ SetsMode \/ ChangesStatus \/ Learns
    <3>1. ThreadsStay /\ planned' = planned
      BY <1>1, <2>4 DEF Adds, CreatesNone, SetsMode, ChangesStatus, Learns, threadVars, ThreadsStay
    <3>2. /\ Entered' = Entered /\ Live' = Live
          /\ FilesHaveThreads' /\ AllAreTold' /\ PlanIsPlanned'
      BY <1>1, <3>1, ThreadsStayKeep
    <3>3. /\ status' = status \/ status' \in {"STOP", "START", "EXIT_INIT", "REINIT"}
          /\ status' \in Statuses /\ mode' \in Modes /\ ready' \in BOOLEAN /\ misled' \in BOOLEAN
      BY <2>4 DEF Adds, SetsMode, ChangesStatus, Learns, TypeOK, Statuses, Exiting
    <3>4. TypeOK'
      BY <1>1, <2>1, <3>1, <3>3 DEF ThreadsStay, TypeOK
    <3>5. LetGoOfThreads'
      BY <1>1, <2>2, <3>1, <3>2, <3>3 DEF ThreadsStay, LetGoOfThreads
    <3>6. OffThreadsAreTold'
      <4>1. status' = "SETUP" => mode' # "none"
        BY <2>4 DEF Adds, SetsMode, ChangesStatus, Learns, OffThreadsAreTold
      <4>2. mode' = "none" /\ status' \in {"START", "RUN"} =>
              mode = "none" /\ status \in {"START", "RUN"}
        BY <2>4 DEF Adds, SetsMode, ChangesStatus, Learns
      <4> QED
        BY <3>1, <3>2, <4>1, <4>2 DEF ThreadsStay, OffThreadsAreTold
    <3>7. WaitsForCard'
      <4> SUFFICES ASSUME card = "released", ~misled'
                   PROVE  ~ready' /\ ~misled /\ (status' = status \/ status' \in {"EXIT_INIT", "REINIT"})
        BY <1>1, <3>1, <3>2 DEF ThreadsStay, WaitsForCard, Exiting
      <4>1. ~misled
        BY <2>4 DEF Adds, SetsMode, ChangesStatus, Learns, TypeOK
      <4>2. ~ready
        BY <1>1, <4>1 DEF WaitsForCard
      <4>3. CASE Adds /\ status # "RUN"
        BY <4>1, <4>2, <4>3 DEF Adds
      <4>4. CASE SetsMode
        <5>1. ready' = ready /\ (status' # status /\ ~ready => misled')
          BY <4>4 DEF SetsMode
        <5> QED
          BY <4>1, <4>2, <5>1
      <4>5. CASE ChangesStatus
        BY <4>1, <4>2, <4>5 DEF ChangesStatus
      <4>6. CASE Learns
        <5>1. Head(inbox) # "sd"
          BY <4>6 DEF Learns
        <5> QED
          BY <4>1, <4>2, <4>6, <5>1 DEF Learns, TypeOK
      <4> QED
        BY <2>4, <4>3, <4>4, <4>5, <4>6
    <3> QED
      BY <3>2, <3>4, <3>5, <3>6, <3>7
  <2> QED
    BY <1>3, <2>3, <2>4
<1> QED
  BY <1>2, <1>3 DEF Receive

LEMMA ServerKeepsIInv ==
  ASSUME IInv, Server
  PROVE  IInv'
BY TurnKeepsIInv, LooksForThreadsKeepsIInv, StoppedKeepsIInv, JoinedKeepsIInv, ClearsKeepsIInv,
   LeavesKeepsIInv, ReceiveKeepsIInv DEF Server

-----------------------------------------------------------------------------
(* The threads. *)

(* What a step of a thread leaves alone.                                   *)
Aside == UNCHANGED <<status, server, mode, planned, ready, card, asked, reply, sends, misled>>

(* A thread that goes on in its loop: it stays among those entered, and it *)
(* acts only when it was not told before or acted already.                 *)
LEMMA MoveKeepsIInv ==
  ASSUME IInv, Aside, NEW j \in Jobs, NEW p \in {"tests", "acts", "waits", "ends"},
         at[j] \in {"created", "tests", "acts", "waits"}, at' = [at EXCEPT ![j] = p],
         started' = IF at[j] = "created" THEN started \cup {j} ELSE started,
         open' \subseteq open \cup {j}, j \in open' \ open => at[j] = "acts",
         p \in {"acts", "waits"} => at[j] = "acts" \/ j \notin told,
         p \in {"acts", "waits"} => at[j] # "created",
         ctrl' \in [Jobs -> {"STARTED", "RUN", "EXIT"}],
         missed' \subseteq Jobs,
         UNCHANGED <<told, job, copy, inbox, strays, dropped, wiped>>
  PROVE  IInv'
<1> USE DEF IInv, Aside
<1>1. /\ at' \in [Jobs -> {"none", "created", "tests", "acts", "waits", "ends", "clears"}]
      /\ at'[j] = p /\ \A k \in Jobs \ {j} : at'[k] = at[k]
  BY DEF TypeOK
<1>2. TypeOK'
  <2>1. started' \subseteq Jobs /\ open' \subseteq Jobs
    BY DEF TypeOK
  <2> QED
    BY <1>1, <2>1 DEF TypeOK
<1>3. Entered' = Entered \cup {j} /\ Live' = Live /\ j \in Live
  BY <1>1 DEF Entered, Live
<1>4. FilesHaveThreads'
  <2>1. open' \subseteq Entered'
    BY <1>3 DEF FilesHaveThreads
  <2>2. /\ started' \cup wiped' \subseteq Entered'
        /\ server' # "gone" => Entered' \subseteq started' \cup wiped'
    <3>1. at[j] # "created" => j \in Entered
      BY DEF Entered
    <3> QED
      BY <1>3, <3>1 DEF FilesHaveThreads
  <2>3. \A k \in Jobs : job'[k] = "free" => at'[k] = "none"
    BY <1>1 DEF FilesHaveThreads
  <2> QED
    BY <2>1, <2>2, <2>3 DEF FilesHaveThreads
<1>5. LetGoOfThreads' /\ WaitsForCard' /\ AllAreTold'
  BY <1>3 DEF LetGoOfThreads, WaitsForCard, AllAreTold
<1>6. OffThreadsAreTold'
  <2> SUFFICES ASSUME mode = "none", status \in {"START", "RUN"}, ~dropped
               PROVE  open' \subseteq wiped /\ \A k \in Jobs \ wiped : at'[k] \notin {"acts", "waits"}
    BY <1>3 DEF OffThreadsAreTold
  <2>1. j \in told /\ open \subseteq wiped /\ \A k \in Jobs \ wiped : at[k] \notin {"acts", "waits"}
    BY <1>3 DEF OffThreadsAreTold
  <2>2. p \in {"acts", "waits"} => j \in wiped
    BY <2>1
  <2> QED
    BY <1>1, <2>1, <2>2
<1>7. PlanIsPlanned'
  <2>1. Planning' \subseteq Planning
    <3> SUFFICES ASSUME NEW k \in Planning' PROVE k \in Planning
      OBVIOUS
    <3>1. k \in Live /\ k \notin strays /\ job[k] = "plan"
          /\ (k \in told => k \in open' \/ at'[k] \in {"acts", "waits"})
      BY <1>3 DEF Planning
    <3>2. CASE k # j
      BY <1>1, <3>1, <3>2 DEF Planning, Live, Entered
    <3>3. CASE k = j
      <4>1. j \in told => j \in open \/ at[j] = "acts"
        BY <1>1, <3>1, <3>3
      <4> QED
        BY <3>1, <3>3, <4>1 DEF Planning
    <3> QED
      BY <3>2, <3>3
  <2> QED
    BY <2>1 DEF PlanIsPlanned
<1> QED
  BY <1>2, <1>4, <1>5, <1>6, <1>7

LEMMA EndsKeepsIInv ==
  ASSUME IInv, Aside, NEW j \in Jobs, Ends(j), dropped' = dropped
  PROVE  IInv'
<1> USE DEF IInv, Aside
<1>1. /\ at[j] = "ends" /\ at' = [at EXCEPT ![j] = "clears"] /\ open' = open \ {j}
      /\ started' = started \ {j} /\ copy' = told /\ ctrl' = [ctrl EXCEPT ![j] = "STARTED"]
      /\ wiped' = wiped \ {j} /\ missed' = missed \ {j}
      /\ UNCHANGED <<told, job, inbox, strays>>
  BY DEF Ends
<1>2. /\ at' \in [Jobs -> {"none", "created", "tests", "acts", "waits", "ends", "clears"}]
      /\ at'[j] = "clears" /\ \A k \in Jobs \ {j} : at'[k] = at[k]
  BY <1>1 DEF TypeOK
<1>3. TypeOK'
  BY <1>1, <1>2 DEF TypeOK
<1>4. Entered' = Entered \ {j} /\ Live' = Live \ {j}
  BY <1>1, <1>2 DEF Entered, Live
<1>5. FilesHaveThreads'
  BY <1>1, <1>2, <1>4 DEF FilesHaveThreads
<1>6. LetGoOfThreads' /\ WaitsForCard' /\ AllAreTold'
  BY <1>1, <1>4 DEF LetGoOfThreads, WaitsForCard, AllAreTold
<1>7. OffThreadsAreTold'
  BY <1>1, <1>2, <1>4 DEF OffThreadsAreTold
<1>8. PlanIsPlanned'
  <2>1. Planning' \subseteq Planning
    BY <1>1, <1>2, <1>4 DEF Planning
  <2> QED
    BY <2>1 DEF PlanIsPlanned
<1> QED
  BY <1>3, <1>5, <1>6, <1>7, <1>8

(* What the thread writes back holds all that have been told, unless it is *)
(* noted that one has been forgotten.                                      *)
LEMMA FreesKeepsIInv ==
  ASSUME IInv, Aside, NEW j \in Jobs, Frees(j), dropped' = (dropped \/ TakesBack(copy \cup {j}))
  PROVE  IInv'
<1> USE DEF IInv, Aside
<1>1. /\ at[j] = "clears" /\ told' = copy \ {j} /\ copy' = {}
      /\ job' = [job EXCEPT ![j] = "free"] /\ at' = [at EXCEPT ![j] = "none"]
      /\ strays' = strays \ {j} /\ UNCHANGED <<started, ctrl, open, wiped, missed>>
      /\ inbox' = IF status = "EXIT_FINISH" THEN inbox ELSE Append(inbox, "other")
  BY DEF Frees
<1>2. /\ at' \in [Jobs -> {"none", "created", "tests", "acts", "waits", "ends", "clears"}]
      /\ job' \in [Jobs -> {"free", "plan", "alarm"}]
      /\ at'[j] = "none" /\ job'[j] = "free"
      /\ \A k \in Jobs \ {j} : at'[k] = at[k] /\ job'[k] = job[k]
  BY <1>1 DEF TypeOK
<1>3. /\ dropped' \in BOOLEAN
      /\ ~dropped' => ~dropped /\ \A k \in Jobs : k \in told /\ k # j /\ at[k] # "none" => k \in told'
  BY <1>1 DEF TypeOK, TakesBack
<1>4. inbox' \in Seq(Messages)
  BY <1>1, AppendToInbox, MessagesAreThere DEF TypeOK
<1>5. TypeOK'
  BY <1>1, <1>2, <1>3, <1>4 DEF TypeOK
<1>6. Entered' = Entered /\ Live' = Live /\ j \notin Live /\ j \notin Entered
  BY <1>1, <1>2 DEF Entered, Live
<1>7. FilesHaveThreads'
  BY <1>1, <1>2, <1>6 DEF FilesHaveThreads
<1>8. LetGoOfThreads' /\ WaitsForCard'
  BY <1>1, <1>6 DEF LetGoOfThreads, WaitsForCard
<1>9. ~dropped' => Live \cap told \subseteq told'
  BY <1>3, <1>6 DEF Live, Entered
<1>10. AllAreTold' /\ OffThreadsAreTold'
  BY <1>1, <1>2, <1>3, <1>6, <1>9 DEF AllAreTold, OffThreadsAreTold
<1>11. PlanIsPlanned'
  <2>1. ~dropped' => Planning' \subseteq Planning
    <3> SUFFICES ASSUME ~dropped', NEW k \in Planning' PROVE k \in Planning
      OBVIOUS
    <3>1. k \in Live /\ k # j /\ k \in Jobs
      BY <1>6 DEF Planning, Live, Entered
    <3>2. k \in told => k \in told'
      BY <1>9, <3>1
    <3> QED
      BY <1>1, <1>2, <1>6, <3>1, <3>2 DEF Planning
  <2> QED
    BY <1>3, <2>1 DEF PlanIsPlanned
<1> QED
  BY <1>5, <1>7, <1>8, <1>10, <1>11

LEMMA ThreadKeepsIInv ==
  ASSUME IInv, NEW j \in Jobs, Thread(j)
  PROVE  IInv'
<1>1. Aside /\ dropped' = (dropped \/ (at[j] = "clears" /\ TakesBack(copy \cup {j})))
  BY DEF Thread, infoVars, outside, Aside
<1>2. at[j] # "clears" => dropped' = dropped
  BY <1>1 DEF IInv, TypeOK
<1>3. CASE Registers(j)
  <2>1. ctrl' \in [Jobs -> {"STARTED", "RUN", "EXIT"}] /\ missed' \subseteq Jobs
    BY <1>3 DEF Registers, IInv, TypeOK
  <2> QED
    BY <1>1, <1>2, <1>3, <2>1, MoveKeepsIInv DEF Registers
<1>4. CASE Tests(j)
  <2> DEFINE p == IF server = "leaves" \/ ctrl[j] = "EXIT" \/ j \in told THEN "ends" ELSE "acts"
  <2>1. at' = [at EXCEPT ![j] = p]
    BY <1>4 DEF Tests
  <2>2. p \in {"tests", "acts", "waits", "ends"} /\ (p \in {"acts", "waits"} => j \notin told)
    OBVIOUS
  <2>3. ctrl' \in [Jobs -> {"STARTED", "RUN", "EXIT"}] /\ missed' \subseteq Jobs
    BY <1>4 DEF Tests, IInv, TypeOK
  <2>4. /\ at[j] = "tests" /\ at[j] # "clears"
        /\ UNCHANGED <<started, told, job, ctrl, copy, open, inbox, strays, wiped>>
    BY <1>4 DEF Tests
  <2> HIDE DEF p
  <2> QED
    BY <1>1, <1>2, <2>1, <2>2, <2>3, <2>4, MoveKeepsIInv
<1>5. CASE Opens(j)
  <2>1. ctrl' \in [Jobs -> {"STARTED", "RUN", "EXIT"}] /\ missed' \subseteq Jobs
    BY <1>5 DEF Opens, IInv, TypeOK
  <2>2. at[j] = "acts" /\ at' = [at EXCEPT ![j] = "tests"] /\ open' \subseteq open \cup {j}
        /\ UNCHANGED <<started, told, job, copy, inbox, strays, wiped>>
    BY <1>5 DEF Opens
  <2> QED
    BY <1>1, <1>2, <2>1, <2>2, MoveKeepsIInv
<1>6. CASE Waits(j)
  <2>1. ctrl' \in [Jobs -> {"STARTED", "RUN", "EXIT"}] /\ missed' \subseteq Jobs
    BY <1>6 DEF Waits, IInv, TypeOK
  <2> QED
    BY <1>1, <1>2, <1>6, <2>1, MoveKeepsIInv DEF Waits
<1>7. CASE Writes(j)
  <2>1. ctrl' \in [Jobs -> {"STARTED", "RUN", "EXIT"}] /\ missed' \subseteq Jobs
    BY <1>7 DEF Writes, IInv, TypeOK
  <2>2. at[j] \in {"waits", "acts"} /\ at' = [at EXCEPT ![j] = "tests"] /\ open' \subseteq open
        /\ UNCHANGED <<started, told, job, copy, inbox, strays, wiped>>
    BY <1>7 DEF Writes
  <2> QED
    BY <1>1, <1>2, <2>1, <2>2, MoveKeepsIInv
<1>8. CASE Ends(j)
  <2>1. dropped' = dropped
    BY <1>2, <1>8 DEF Ends
  <2> QED
    BY <1>1, <1>8, <2>1, EndsKeepsIInv
<1>9. CASE Frees(j)
  <2>1. dropped' = (dropped \/ TakesBack(copy \cup {j}))
    BY <1>1, <1>9 DEF Frees
  <2> QED
    BY <1>1, <1>9, <2>1, FreesKeepsIInv
<1> QED
  BY <1>3, <1>4, <1>5, <1>6, <1>7, <1>8, <1>9 DEF Thread

-----------------------------------------------------------------------------
(* The other servers, and the theorems. *)

LEMMA OthersKeepIInv ==
  ASSUME IInv, Others
  PROVE  IInv'
<1> USE DEF IInv
<1>1. /\ UNCHANGED <<status, planned, ready, server, mode, misled>> /\ ThreadsStay
      /\ card' \in {card, "asked", "mounted"}
      /\ asked' \in BOOLEAN /\ reply' \in BOOLEAN /\ sends' \in 0 .. MaxSends
  <2>1. UNCHANGED <<status, planned, ready, server, mode, misled>> /\ ThreadsStay
    BY DEF Others, infoVars, threadVars, history, ThreadsStay
  <2>2. card' \in {card, "asked", "mounted"} /\ asked' \in BOOLEAN /\ reply' \in BOOLEAN
    BY DEF Others, Requests, Looks, Answers, Formats, TypeOK
  <2>3. sends' = sends \/ (sends > 0 /\ sends' = sends - 1)
    BY DEF Others, Requests, Looks, Answers, Formats
  <2>4. sends' \in 0 .. MaxSends
    BY <2>3, RecorderConstants DEF TypeOK
  <2> QED
    BY <2>1, <2>2, <2>4
<1>2. inbox' = inbox \/ (status # "EXIT_FINISH" /\ \E m \in Messages : inbox' = Append(inbox, m))
  BY MessagesAreThere DEF Others, Requests, Looks, Answers, Formats
<1>3. inbox' \in Seq(Messages)
  BY <1>2, AppendToInbox DEF TypeOK
<1>4. TypeOK'
  BY <1>1, <1>3 DEF ThreadsStay, TypeOK
<1>5. Entered' = Entered /\ Live' = Live /\ Planning' = Planning
  BY <1>1 DEF ThreadsStay, Entered, Live, Planning
<1>6. FilesHaveThreads' /\ AllAreTold' /\ PlanIsPlanned' /\ OffThreadsAreTold'
  BY <1>1, <1>5 DEF ThreadsStay, FilesHaveThreads, AllAreTold, PlanIsPlanned, OffThreadsAreTold
<1>7. LetGoOfThreads'
  BY <1>1, <1>2, <1>5 DEF ThreadsStay, LetGoOfThreads
<1>8. WaitsForCard'
  BY <1>1, <1>5 DEF ThreadsStay, WaitsForCard
<1> QED
  BY <1>4, <1>6, <1>7, <1>8

(* Every step of the server, of a thread and of the other servers keeps    *)
(* IInv: the threads are accounted for, and those told stay told.          *)
THEOREM Inductive == Spec => []IInv
<1>1. Init => IInv
  BY InitIInv
<1>2. IInv /\ [Next]_vars => IInv'
  <2> SUFFICES ASSUME IInv, [Next]_vars PROVE IInv'
    OBVIOUS
  <2>1. CASE Next
    BY <2>1, ServerKeepsIInv, ThreadKeepsIInv, OthersKeepIInv DEF Next
  <2>2. CASE UNCHANGED vars
    <3>1. ThreadsStay /\ UNCHANGED <<status, server, inbox, mode, planned, ready, card, asked,
                                     reply, sends, misled>>
      BY <2>2 DEF vars, ThreadsStay
    <3>2. Entered' = Entered /\ Live' = Live /\ Planning' = Planning
      BY <3>1 DEF ThreadsStay, Entered, Live, Planning
    <3>3. TypeOK' /\ FilesHaveThreads' /\ LetGoOfThreads' /\ WaitsForCard'
      BY <3>1, <3>2 DEF IInv, ThreadsStay, TypeOK, FilesHaveThreads, LetGoOfThreads, WaitsForCard
    <3>4. AllAreTold' /\ OffThreadsAreTold' /\ PlanIsPlanned'
      BY <3>1, <3>2 DEF IInv, ThreadsStay, AllAreTold, OffThreadsAreTold, PlanIsPlanned
    <3> QED
      BY <3>3, <3>4 DEF IInv
  <2> QED
    BY <2>1, <2>2
<1> QED
  BY <1>1, <1>2, PTL DEF Spec

(* The variables keep their types, for every number of slots.              *)
THEOREM RecorderIsTyped == Spec => []TypeOK
<1>1. IInv => TypeOK
  BY DEF IInv
<1> QED
  BY <1>1, Inductive, PTL

(* server_reinit and the exit answer for every recording but those named.  *)
THEOREM RecordingsAreClosed == Spec => []CardIsReleased
<1>1. IInv => CardIsReleased
  <2> SUFFICES ASSUME IInv PROVE CardIsReleased
    OBVIOUS
  <2>1. open \subseteq Live
    BY DEF IInv, FilesHaveThreads, Live
  <2>2. card = "released" => open \subseteq strays \/ misled
    BY <2>1 DEF IInv, WaitsForCard
  <2>3. server = "gone" => open \subseteq strays
    BY <2>1 DEF IInv, LetGoOfThreads
  <2> QED
    BY <2>2, <2>3 DEF CardIsReleased
<1> QED
  BY <1>1, Inductive, PTL

(* info.status2 keeps the plan from being written twice.                   *)
THEOREM OnePlanAtATime == Spec => []OnePlanIsWritten
<1>1. IInv => OnePlanIsWritten
  BY OnePlan DEF IInv
<1> QED
  BY <1>1, Inductive, PTL

(* With the recording switch off a running server writes nothing.          *)
THEOREM SwitchIsObeyed == Spec => []OffMeansOff
<1>1. IInv => OffMeansOff
  BY DEF IInv, OffThreadsAreTold, OffMeansOff
<1> QED
  BY <1>1, Inductive, PTL
=============================================================================
