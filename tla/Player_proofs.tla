----------------------------- MODULE Player_proofs -----------------------------
(***************************************************************************)
(* The player for every number of slots, every set of channels and any     *)
(* number of requests: IInv of module Player.                              *)
(***************************************************************************)
EXTENDS Player, WellFoundedInduction, SequenceTheorems, TLAPS

(* The least element of a set of natural numbers is one of them.           *)
LEMMA MinOfNat ==
  ASSUME NEW T \in SUBSET Nat, T # {}
  PROVE  Min(T) \in T
<1>1. PICK x \in T : \A y \in T : <<y, x>> \notin OpToRel(<, Nat)
  BY NatLessThanWellFounded, WFMin, Zenon
<1>2. \A y \in T : ~(y < x)
  BY <1>1, Zenon DEF OpToRel
<1>3. \A y \in T : x =< y
  BY <1>2
<1> QED
  BY <1>3 DEF Min

LEMMA MinIsJob ==
  ASSUME NEW T \in SUBSET Jobs, T # {}
  PROVE  Min(T) \in T
BY MinOfNat, PlayerConstants DEF Jobs

(* What the queue holds when a message is taken or added.                  *)
LEMMA TailOfInbox ==
  ASSUME TypeOK, inbox # <<>>
  PROVE  /\ Head(inbox) \in Messages /\ Head(inbox) = inbox[1]
         /\ Tail(inbox) \in Seq(Messages)
         /\ Len(inbox) \in Nat \ {0} /\ Len(Tail(inbox)) = Len(inbox) - 1
         /\ \A k \in 1 .. Len(Tail(inbox)) : Tail(inbox)[k] = inbox[k + 1]
BY DEF TypeOK

LEMMA AppendToInbox ==
  ASSUME TypeOK, NEW m \in Messages
  PROVE  /\ Append(inbox, m) \in Seq(Messages)
         /\ Len(Append(inbox, m)) = Len(inbox) + 1
         /\ \A k \in 1 .. Len(Append(inbox, m)) :
               \/ k \in 1 .. Len(inbox) /\ Append(inbox, m)[k] = inbox[k]
               \/ Append(inbox, m)[k] = m
BY AppendProperties DEF TypeOK

(* Messages about the cloud tell the truth.                                *)
Truthful == \A k \in 1 .. Len(inbox) : inbox[k] \in {<<"quit">>, <<"exit", FALSE>>} => ~cloud

LEMMA TruthAfterTail ==
  ASSUME TypeOK, Truthful, inbox # <<>>, inbox' = Tail(inbox), cloud' = cloud
  PROVE  Truthful'
<1>1. \A k \in 1 .. Len(Tail(inbox)) : k + 1 \in 1 .. Len(inbox)
  BY TailOfInbox
<1> QED
  BY <1>1, TailOfInbox DEF Truthful

LEMMA TruthAfterAppend ==
  ASSUME TypeOK, Truthful, NEW m \in Messages, cloud' => cloud,
         m \in {<<"quit">>, <<"exit", FALSE>>} => ~cloud',
         inbox' = inbox \/ inbox' = Append(inbox, m)
  PROVE  Truthful'
BY AppendToInbox DEF Truthful

LEMMA MessageParts ==
  ASSUME NEW m \in Messages
  PROVE  /\ m[1] \in {"play", "seek", "stop", "format", "exit", "quit", "sd", "other"}
         /\ m[1] \in {"play", "seek", "stop"} => m[2] \in Channels /\ m = <<m[1], m[2]>>
         /\ m[1] = "exit" => m[2] \in BOOLEAN /\ m = <<"exit", m[2]>>
         /\ m[1] = "quit" => m = <<"quit">>
BY DEF Messages, Requested

LEMMA MessagesAreThere ==
  /\ <<"other">> \in Messages /\ <<"sd">> \in Messages /\ <<"quit">> \in Messages
  /\ <<"format">> \in Messages
  /\ \A b \in BOOLEAN : <<"exit", b>> \in Messages
  /\ Requested \subseteq Messages
<1>1. \A b \in BOOLEAN : <<"exit", b>> \in Messages
  BY Zenon DEF Messages
<1>2. Requested \subseteq Messages
  BY Zenon DEF Messages
<1> QED
  BY <1>1, <1>2 DEF Messages, Requested

LEMMA InitIInv == Init => IInv
<1> SUFFICES ASSUME Init PROVE IInv
  OBVIOUS
<1>1. TypeOK
  <2>1. inbox \in Seq(Messages) /\ target \in {<<>>} \cup ({"seek", "stop"} \X Jobs)
    BY DEF Init
  <2>2. status \in Statuses /\ sends \in 0 .. MaxSends
    BY PlayerConstants DEF Init, Statuses
  <2>3. /\ job \in [Jobs -> Channels \cup {"free"}]
        /\ at \in [Jobs -> {"none", "created", "loop", "over", "ends"}]
        /\ play \in [Jobs -> {"INITED", "SYNC", "RUN", "OVER"}]
    BY DEF Init
  <2> QED
    BY <2>1, <2>2, <2>3 DEF Init, TypeOK
<1>2. ChannelHasItsThread
  BY DEF Init, ChannelHasItsThread
<1>3. ThreadsAreEntered /\ LetGoOfThreads /\ WaitsForCard
  BY DEF Init, ThreadsAreEntered, LetGoOfThreads, LetGo, WaitsForCard
<1>4. QuitMeansGone /\ CloudGoesFirst /\ UpdatesAreExcused
  BY DEF Init, QuitMeansGone, CloudGoesFirst, UpdatesAreExcused
<1> QED
  BY <1>1, <1>2, <1>3, <1>4 DEF Init, IInv

-----------------------------------------------------------------------------
(* The server's turns. *)

(* What every turn leaves alone.                                           *)
TurnFrame ==
  UNCHANGED <<target, ready, started, at, play, open, card, reply, cloud, sends,
              misled, overwritten, haunted, formatted>>

LEMMA StatusTurn ==
  ASSUME IInv, server = "work", StartTurn \/ InitTurn \/ ExitTurn, TurnFrame
  PROVE  IInv'
<1> USE DEF IInv
<1>1. /\ UNCHANGED <<inbox, closed, quit, told, slots, strays, excused>>
      /\ asked' \in BOOLEAN /\ server' \in {"recv", "pass"} /\ status' \in Statuses
      /\ status \notin {"EXIT_FINISH", "EXIT_STAGE2"} /\ status' \notin {"EXIT_FINISH", "EXIT_STAGE2"}
  BY DEF StartTurn, InitTurn, ExitTurn, Then, TypeOK, Statuses, Exiting
<1>2. TypeOK'
  BY <1>1 DEF TurnFrame, slots, TypeOK
<1>3. ChannelHasItsThread' /\ ThreadsAreEntered'
  BY <1>1 DEF TurnFrame, slots, ChannelHasItsThread, ThreadsAreEntered
<1>4. LetGoOfThreads'
  BY <1>1 DEF LetGoOfThreads, LetGo
<1>5. WaitsForCard'
  <2> SUFFICES ASSUME card = "released", ~misled
               PROVE  Live \subseteq strays /\ status' \in {"INIT", "REINIT"} \cup Exiting /\ ~ready
    BY <1>1 DEF TurnFrame, WaitsForCard, Live
  <2>1. Live \subseteq strays /\ status \in {"INIT", "REINIT"} \cup Exiting /\ ~ready
    BY DEF WaitsForCard
  <2> QED
    BY <2>1 DEF StartTurn, InitTurn, ExitTurn, Then, Exiting
<1>6. QuitMeansGone'
  BY <1>1 DEF TurnFrame, QuitMeansGone
<1>7. CloudGoesFirst'
  BY <1>1 DEF TurnFrame, StartTurn, InitTurn, ExitTurn, Then, CloudGoesFirst, QuitMeansGone
<1>8. UpdatesAreExcused'
  BY <1>1 DEF TurnFrame, slots, UpdatesAreExcused
<1> QED
  BY <1>1, <1>2, <1>3, <1>4, <1>5, <1>6, <1>7, <1>8

LEMMA ReinitTurnKeepsIInv ==
  ASSUME IInv, server = "work", ReinitTurn, TurnFrame
  PROVE  IInv'
<1> USE DEF IInv
<1>1. /\ status = "REINIT" /\ server' = "joins" /\ exits' = Jobs /\ excused' = Jobs
      /\ inbox' = inbox \/ (~closed /\ inbox' = Append(inbox, <<"other">>))
      /\ UNCHANGED <<status, closed, quit, told, job, restarts, asked, strays>>
  BY DEF ReinitTurn, Posted
<1>2. inbox' \in Seq(Messages) /\ Truthful'
  <2>1. Truthful /\ TypeOK /\ (cloud' => cloud)
    BY DEF TurnFrame, Truthful, QuitMeansGone
  <2>2. Truthful'
    BY <1>1, <2>1, TruthAfterAppend, MessagesAreThere
  <2> QED
    BY <1>1, <2>2, AppendToInbox, MessagesAreThere DEF TypeOK
<1>3. TypeOK'
  BY <1>1, <1>2 DEF TurnFrame, TypeOK
<1>4. ChannelHasItsThread' /\ ThreadsAreEntered' /\ LetGoOfThreads'
  BY <1>1 DEF TurnFrame, ChannelHasItsThread, ThreadsAreEntered, LetGoOfThreads, LetGo
<1>5. WaitsForCard'
  BY <1>1 DEF TurnFrame, WaitsForCard, Live
<1>6. QuitMeansGone' /\ CloudGoesFirst'
  BY <1>1, <1>2 DEF TurnFrame, QuitMeansGone, Truthful, CloudGoesFirst
<1>7. UpdatesAreExcused'
  BY <1>1 DEF UpdatesAreExcused, TypeOK
<1> QED
  BY <1>1, <1>3, <1>4, <1>5, <1>6, <1>7

LEMMA ExitThreadTurnKeepsIInv ==
  ASSUME IInv, server = "work", ExitThreadTurn, TurnFrame
  PROVE  IInv'
<1> USE DEF IInv
<1>1. /\ status = "EXIT_THREAD" /\ told' = started /\ excused' = Jobs
      /\ server' \in {"recv", "pass"}
      /\ UNCHANGED <<inbox, closed, quit, slots, asked>>
      /\ \/ started = {} /\ status' = "EXIT_STAGE2" /\ strays' = strays \cup {j \in Jobs : at[j] = "created"}
         \/ status' = "EXIT_THREAD" /\ strays' = strays
  BY DEF ExitThreadTurn, Then
<1>2. TypeOK'
  BY <1>1 DEF TurnFrame, slots, TypeOK, Statuses, Exiting
<1>3. ChannelHasItsThread' /\ ThreadsAreEntered'
  BY <1>1 DEF TurnFrame, slots, ChannelHasItsThread, ThreadsAreEntered
<1>4. LetGoOfThreads'
  BY <1>1 DEF TurnFrame, LetGoOfThreads, LetGo, Live, ThreadsAreEntered, TypeOK
<1>5. WaitsForCard'
  BY <1>1 DEF TurnFrame, WaitsForCard, Live, Exiting
<1>6. QuitMeansGone' /\ CloudGoesFirst'
  BY <1>1 DEF TurnFrame, QuitMeansGone, CloudGoesFirst
<1>7. UpdatesAreExcused'
  BY <1>1 DEF slots, UpdatesAreExcused, TypeOK
<1> QED
  BY <1>1, <1>2, <1>3, <1>4, <1>5, <1>6, <1>7

LEMMA ReleaseTurnKeepsIInv ==
  ASSUME IInv, server = "work", ReleaseTurn, TurnFrame
  PROVE  IInv'
<1> USE DEF IInv
<1>1. /\ status = "EXIT_STAGE2" /\ status' = "EXIT_FINISH" /\ server' = "pass"
      /\ closed' = TRUE /\ inbox' = <<>>
      /\ job' = [j \in Jobs |-> "free"] /\ exits' = {} /\ restarts' = {}
      /\ UNCHANGED <<quit, told, asked, strays, excused>>
  BY DEF ReleaseTurn, Then
<1>2. inbox' \in Seq(Messages) /\ Truthful'
  BY <1>1 DEF Truthful
<1>3. TypeOK'
  BY <1>1, <1>2 DEF TurnFrame, TypeOK, Statuses, Exiting
<1>4. ChannelHasItsThread' /\ ThreadsAreEntered'
  BY <1>1 DEF TurnFrame, ChannelHasItsThread, ThreadsAreEntered
<1>5. LetGoOfThreads' /\ WaitsForCard'
  BY <1>1 DEF TurnFrame, LetGoOfThreads, LetGo, WaitsForCard, Live, Exiting
<1>6. QuitMeansGone' /\ CloudGoesFirst'
  BY <1>1, <1>2 DEF TurnFrame, QuitMeansGone, Truthful, CloudGoesFirst
<1>7. UpdatesAreExcused'
  BY <1>1 DEF UpdatesAreExcused
<1> QED
  BY <1>1, <1>3, <1>4, <1>5, <1>6, <1>7

LEMMA FinishTurnKeepsIInv ==
  ASSUME IInv, server = "work", FinishTurn, TurnFrame
  PROVE  IInv'
<1> USE DEF IInv
<1>1. /\ status = "EXIT_FINISH" /\ server' = "leaves"
      /\ UNCHANGED <<status, inbox, closed, quit, told, slots, asked, strays, excused>>
  BY DEF FinishTurn
<1>2. TypeOK'
  BY <1>1 DEF TurnFrame, slots, TypeOK
<1>3. ChannelHasItsThread' /\ ThreadsAreEntered'
  BY <1>1 DEF TurnFrame, slots, ChannelHasItsThread, ThreadsAreEntered
<1>4. LetGoOfThreads' /\ WaitsForCard'
  BY <1>1 DEF TurnFrame, LetGoOfThreads, LetGo, WaitsForCard, Live
<1>5. QuitMeansGone' /\ CloudGoesFirst'
  BY <1>1 DEF TurnFrame, QuitMeansGone, CloudGoesFirst
<1>6. UpdatesAreExcused'
  BY <1>1 DEF TurnFrame, slots, UpdatesAreExcused
<1> QED
  BY <1>1, <1>2, <1>3, <1>4, <1>5, <1>6

LEMMA TurnKeepsIInv ==
  ASSUME IInv, Turn
  PROVE  IInv'
<1>1. TurnFrame /\ server = "work"
  BY DEF Turn, TurnFrame, threads
<1> QED
  BY <1>1, StatusTurn, ReinitTurnKeepsIInv, ExitThreadTurnKeepsIInv, ReleaseTurnKeepsIInv,
     FinishTurnKeepsIInv DEF Turn

LEMMA JoinedKeepsIInv ==
  ASSUME IInv, Joined
  PROVE  IInv'
<1> USE DEF IInv
<1>1. /\ server = "joins" /\ started = {} /\ server' = "clears" /\ ~misled'
      /\ strays' = strays \cup {j \in Jobs : at[j] = "created"}
      /\ card' \in {card, "released"} /\ misled' = FALSE
      /\ UNCHANGED <<status, inbox, closed, target, ready, quit, started, told, job, exits, restarts,
                     at, play, open, asked, reply, cloud, sends, overwritten, haunted,
                     excused, formatted>>
  BY DEF Joined, slots, threads
<1>2. TypeOK'
  BY <1>1 DEF TypeOK
<1>3. ChannelHasItsThread' /\ ThreadsAreEntered'
  BY <1>1 DEF ChannelHasItsThread, ThreadsAreEntered
<1>4. (Live \subseteq strays)'
  BY <1>1 DEF Live, ThreadsAreEntered, TypeOK
<1>5. LetGoOfThreads'
  BY <1>4 DEF LetGoOfThreads
<1>6. WaitsForCard'
  BY <1>1, <1>4 DEF WaitsForCard
<1>7. QuitMeansGone' /\ CloudGoesFirst' /\ UpdatesAreExcused'
  BY <1>1 DEF QuitMeansGone, CloudGoesFirst, UpdatesAreExcused
<1> QED
  BY <1>1, <1>2, <1>3, <1>5, <1>6, <1>7

LEMMA ClearsKeepsIInv ==
  ASSUME IInv, Clears
  PROVE  IInv'
<1> USE DEF IInv
<1>1. /\ server = "clears" /\ server' = "pass" /\ status' = "INIT"
      /\ ready' = FALSE /\ quit' = FALSE /\ started' = {} /\ told' = {} /\ formatted' = TRUE
      /\ UNCHANGED <<inbox, closed, target, job, exits, restarts, at, play, open, card, asked, reply,
                     cloud, sends, strays, misled, overwritten, haunted, excused>>
  BY DEF Clears, slots, threads, outside
<1>2. TypeOK'
  BY <1>1 DEF TypeOK, Statuses
<1>3. Live \subseteq strays
  BY <1>1 DEF LetGoOfThreads, LetGo
<1>4. ChannelHasItsThread'
  BY <1>1 DEF ChannelHasItsThread
<1>5. ThreadsAreEntered' /\ LetGoOfThreads' /\ WaitsForCard'
  BY <1>1, <1>3 DEF ThreadsAreEntered, LetGoOfThreads, LetGo, WaitsForCard, Live
<1>6. QuitMeansGone' /\ CloudGoesFirst' /\ UpdatesAreExcused'
  BY <1>1 DEF QuitMeansGone, CloudGoesFirst, UpdatesAreExcused
<1> QED
  BY <1>1, <1>2, <1>4, <1>5, <1>6

LEMMA LeavesKeepsIInv ==
  ASSUME IInv, Leaves
  PROVE  IInv'
<1> USE DEF IInv
<1>1. /\ server = "leaves" /\ server' = "gone"
      /\ ready' = FALSE /\ quit' = FALSE /\ started' = {} /\ told' = {}
      /\ UNCHANGED <<status, inbox, closed, target, job, exits, restarts, at, play, open, card, asked,
                     reply, cloud, sends, strays, misled, overwritten, haunted, excused,
                     formatted>>
  BY DEF Leaves, slots, threads, outside, history
<1>2. TypeOK'
  BY <1>1 DEF TypeOK
<1>3. Live \subseteq strays
  BY <1>1 DEF LetGoOfThreads, LetGo
<1>4. ChannelHasItsThread'
  BY <1>1 DEF ChannelHasItsThread
<1>5. ThreadsAreEntered' /\ LetGoOfThreads' /\ WaitsForCard'
  BY <1>1, <1>3 DEF ThreadsAreEntered, LetGoOfThreads, LetGo, WaitsForCard, Live
<1>6. QuitMeansGone' /\ CloudGoesFirst' /\ UpdatesAreExcused'
  BY <1>1 DEF QuitMeansGone, CloudGoesFirst, UpdatesAreExcused
<1> QED
  BY <1>1, <1>2, <1>4, <1>5, <1>6

-----------------------------------------------------------------------------
(* Messages. *)

(* What no message changes.                                                *)
ReceiveFrame ==
  UNCHANGED <<closed, started, told, open, card, asked, reply, cloud, sends, strays, overwritten,
              haunted, formatted>>

(* An update of a slot that is in use, or was.                             *)
LEMMA UpdateIsExcused ==
  ASSUME IInv, NEW j \in Jobs, Updates(j), told' = told, server # "leaves",
         status' = status, closed' = closed, ~closed, server' # "leaves"
  PROVE  /\ exits' \subseteq Jobs /\ restarts' \subseteq Jobs /\ excused' \subseteq Jobs
         /\ UNCHANGED <<at, play>>
         /\ UpdatesAreExcused'
<1> USE DEF IInv
<1>1. /\ restarts' = restarts \cup {j} /\ exits' = exits \ {j} /\ UNCHANGED <<at, play>>
      /\ excused' = IF Departing(j) THEN excused \cup {j} ELSE excused \ {j}
  BY DEF Updates
<1>2. \A k \in restarts' : k \in exits' \cup told' \/ at'[k] \in {"over", "ends"} => k \in excused'
  BY <1>1 DEF UpdatesAreExcused, Departing
<1> QED
  BY <1>1, <1>2 DEF UpdatesAreExcused, TypeOK

LEMMA AddsKeepsIInv ==
  ASSUME IInv, server \in {"recv", "pass"}, inbox # <<>>, inbox' = Tail(inbox), Adds, ReceiveFrame
  PROVE  IInv'
<1> USE DEF IInv
<1> DEFINE c == Head(inbox)[2]
           same == OnChannel(c)
           free == OnChannel("free")
<1>1. /\ c \in Channels /\ c # "free"
      /\ UNCHANGED <<status, target, ready, quit, misled>> /\ server' = "work"
  <2>1. PICK d \in Channels : Head(inbox) = <<"play", d>>
    BY DEF Adds
  <2> QED
    BY <2>1, PlayerConstants DEF Adds
<1>2. inbox' \in Seq(Messages) /\ Truthful' /\ ~closed
  BY TailOfInbox, TruthAfterTail DEF ReceiveFrame, Truthful, QuitMeansGone, UpdatesAreExcused
<1>3. QuitMeansGone' /\ CloudGoesFirst'
  BY <1>1, <1>2 DEF ReceiveFrame, QuitMeansGone, CloudGoesFirst, Truthful
<1>4. CASE UNCHANGED <<slots, at, play, excused>>
  <2>1. TypeOK'
    BY <1>1, <1>2, <1>4 DEF TypeOK, ReceiveFrame, slots
  <2>2. ChannelHasItsThread' /\ ThreadsAreEntered' /\ LetGoOfThreads'
    BY <1>1, <1>4 DEF ReceiveFrame, slots, ChannelHasItsThread, ThreadsAreEntered, LetGoOfThreads,
                      LetGo, Live
  <2>3. WaitsForCard' /\ UpdatesAreExcused'
    BY <1>1, <1>2, <1>4 DEF ReceiveFrame, slots, WaitsForCard, Live, UpdatesAreExcused
  <2> QED
    BY <1>1, <1>3, <2>1, <2>2, <2>3
<1>5. CASE status = "RUN" /\ same # {} /\ Updates(Min(same)) /\ UNCHANGED job
  <2>1. Min(same) \in Jobs
    BY <1>5, MinIsJob DEF OnChannel
  <2>2. /\ exits' \subseteq Jobs /\ restarts' \subseteq Jobs /\ excused' \subseteq Jobs
        /\ UNCHANGED <<at, play>> /\ UpdatesAreExcused'
    BY <1>1, <1>2, <1>5, <2>1, UpdateIsExcused DEF ReceiveFrame
  <2>3. TypeOK'
    BY <1>1, <1>2, <1>5, <2>2 DEF TypeOK, ReceiveFrame
  <2>4. ChannelHasItsThread' /\ ThreadsAreEntered' /\ LetGoOfThreads'
    BY <1>1, <1>5, <2>2 DEF ReceiveFrame, ChannelHasItsThread, ThreadsAreEntered, LetGoOfThreads,
                      LetGo, Live
  <2>5. WaitsForCard'
    BY <1>1, <1>5, <2>2 DEF ReceiveFrame, WaitsForCard, Live
  <2> QED
    BY <1>1, <1>3, <2>2, <2>3, <2>4, <2>5
<1>6. CASE status = "RUN" /\ same = {} /\ free # {} /\ Creates(Min(free), c)
  <2> DEFINE j == Min(free)
  <2>1. j \in Jobs /\ job[j] = "free"
    BY <1>6, MinIsJob DEF OnChannel
  <2> HIDE DEF j
  <2>2. /\ job' = [job EXCEPT ![j] = c]
        /\ exits' = exits \ {j} /\ restarts' = restarts \ {j}
        /\ at' = [at EXCEPT ![j] = "created"] /\ play' = [play EXCEPT ![j] = "INITED"]
        /\ UNCHANGED excused
    BY <1>6 DEF Creates, j
  <2>3. TypeOK'
    BY <1>1, <1>2, <2>1, <2>2 DEF TypeOK, ReceiveFrame
  <2>4. ChannelHasItsThread'
    <3>1. \A k \in Jobs : job[k] # c
      BY <1>6 DEF OnChannel
    <3>2. \A k \in Jobs : /\ job'[k] = IF k = j THEN c ELSE job[k]
                          /\ at'[k] = IF k = j THEN "created" ELSE at[k]
      BY <2>1, <2>2 DEF TypeOK
    <3> QED
      BY <1>1, <3>1, <3>2 DEF ReceiveFrame, ChannelHasItsThread
  <2>5. ThreadsAreEntered'
    BY <2>1, <2>2 DEF ReceiveFrame, ThreadsAreEntered, TypeOK
  <2>6. LetGoOfThreads' /\ WaitsForCard'
    BY <1>1, <1>6 DEF ReceiveFrame, LetGoOfThreads, LetGo, WaitsForCard, Exiting
  <2>7. UpdatesAreExcused'
    BY <1>1, <1>6, <2>1, <2>2 DEF ReceiveFrame, UpdatesAreExcused, TypeOK
  <2> QED
    BY <1>1, <1>3, <2>3, <2>4, <2>5, <2>6, <2>7
<1> QED
  BY <1>4, <1>5, <1>6 DEF Adds

LEMMA FindsKeepsIInv ==
  ASSUME IInv, server \in {"recv", "pass"}, inbox # <<>>, inbox' = Tail(inbox), Finds, ReceiveFrame
  PROVE  IInv'
<1> USE DEF IInv
<1>1. UNCHANGED <<status, ready, quit, slots, at, play, misled, excused>>
  BY DEF Finds
<1>2. inbox' \in Seq(Messages) /\ Truthful' /\ ~closed
  BY TailOfInbox, TruthAfterTail DEF ReceiveFrame, Truthful, QuitMeansGone, UpdatesAreExcused
<1>3. /\ server' \in {"work", "found"}
      /\ target' \in {<<>>} \cup ({"seek", "stop"} \X Jobs)
      /\ server' = "found" => target' # <<>>
  <2> DEFINE m == Head(inbox)
  <2>1. m[1] \in {"seek", "stop"}
    BY DEF Finds
  <2>2. CASE OnChannel(m[2]) = {}
    BY <2>2 DEF Finds, TypeOK
  <2>3. CASE OnChannel(m[2]) # {}
    <3>1. Min(OnChannel(m[2])) \in Jobs
      BY <2>3, MinIsJob DEF OnChannel
    <3>2. server' = "found" /\ target' = <<m[1], Min(OnChannel(m[2]))>>
      BY <2>3 DEF Finds
    <3> HIDE DEF m
    <3> QED
      BY <2>1, <3>1, <3>2
  <2> QED
    BY <2>2, <2>3
<1>4. TypeOK'
  BY <1>1, <1>2, <1>3 DEF TypeOK, ReceiveFrame, slots
<1>5. ChannelHasItsThread' /\ ThreadsAreEntered' /\ LetGoOfThreads' /\ WaitsForCard'
  BY <1>1, <1>3 DEF ReceiveFrame, slots, ChannelHasItsThread, ThreadsAreEntered, LetGoOfThreads,
                    LetGo, WaitsForCard, Live
<1>6. QuitMeansGone' /\ CloudGoesFirst' /\ UpdatesAreExcused'
  BY <1>1, <1>2, <1>3 DEF ReceiveFrame, slots, QuitMeansGone, CloudGoesFirst, Truthful,
                          UpdatesAreExcused
<1> QED
  BY <1>3, <1>4, <1>5, <1>6

LEMMA ChangesStatusKeepsIInv ==
  ASSUME IInv, server \in {"recv", "pass"}, inbox # <<>>, inbox' = Tail(inbox), ChangesStatus,
         ReceiveFrame
  PROVE  IInv'
<1> USE DEF IInv
<1> DEFINE m == Head(inbox)
<1>1. /\ m \in Messages /\ m = inbox[1] /\ 1 \in 1 .. Len(inbox)
      /\ inbox' \in Seq(Messages) /\ Truthful' /\ ~closed
  <2>1. m \in Messages /\ m = inbox[1] /\ inbox' \in Seq(Messages) /\ Len(inbox) \in Nat \ {0}
    BY TailOfInbox
  <2>2. Truthful' /\ ~closed
    BY TruthAfterTail DEF ReceiveFrame, Truthful, QuitMeansGone, UpdatesAreExcused
  <2> QED
    BY <2>1, <2>2
<1>2. /\ status' \in {"EXIT_INIT", "REINIT"} /\ server' = "work"
      /\ UNCHANGED <<target, ready, slots, at, play, misled, excused>>
  BY DEF ChangesStatus
<1>3. quit' \in BOOLEAN /\ (~quit' => ~quit \/ ~cloud)
  <2>1. CASE m[1] = "exit"
    <3>1. m[2] \in BOOLEAN /\ m = <<"exit", m[2]>>
      BY <1>1, <2>1, MessageParts
    <3>2. quit' = (quit /\ m[2])
      BY <2>1 DEF ChangesStatus
    <3>3. ~m[2] => ~cloud
      BY <1>1, <3>1 DEF QuitMeansGone
    <3> QED
      BY <3>1, <3>2, <3>3 DEF TypeOK
  <2>2. CASE m[1] # "exit"
    BY <2>2 DEF ChangesStatus, TypeOK
  <2> QED
    BY <2>1, <2>2
<1>4. TypeOK'
  BY <1>1, <1>2, <1>3 DEF TypeOK, ReceiveFrame, slots, Statuses, Exiting
<1>5. ChannelHasItsThread' /\ ThreadsAreEntered' /\ LetGoOfThreads'
  BY <1>2 DEF ReceiveFrame, slots, ChannelHasItsThread, ThreadsAreEntered, LetGoOfThreads, LetGo
<1>6. WaitsForCard' /\ UpdatesAreExcused'
  BY <1>2 DEF ReceiveFrame, slots, WaitsForCard, Live, Exiting, UpdatesAreExcused
<1>7. QuitMeansGone' /\ CloudGoesFirst'
  BY <1>1, <1>2, <1>3 DEF ReceiveFrame, QuitMeansGone, CloudGoesFirst, Truthful
<1> QED
  BY <1>2, <1>4, <1>5, <1>6, <1>7

LEMMA LearnsKeepsIInv ==
  ASSUME IInv, server \in {"recv", "pass"}, inbox # <<>>, inbox' = Tail(inbox), Learns, ReceiveFrame
  PROVE  IInv'
<1> USE DEF IInv
<1> DEFINE m == Head(inbox)
<1>1. /\ m \in Messages /\ m = inbox[1] /\ 1 \in 1 .. Len(inbox)
      /\ inbox' \in Seq(Messages) /\ Truthful' /\ ~closed
  <2>1. m \in Messages /\ m = inbox[1] /\ inbox' \in Seq(Messages) /\ Len(inbox) \in Nat \ {0}
    BY TailOfInbox
  <2>2. Truthful' /\ ~closed
    BY TruthAfterTail DEF ReceiveFrame, Truthful, QuitMeansGone, UpdatesAreExcused
  <2> QED
    BY <2>1, <2>2
<1>2. /\ server' = "work" /\ quit' = (quit /\ m[1] # "quit")
      /\ ready' = (ready \/ m[1] = "sd") /\ misled' = (misled \/ (m[1] = "sd" /\ card # "mounted"))
      /\ UNCHANGED <<status, target, job, exits, restarts, at, play, excused>>
  BY DEF Learns
<1>3. quit' \in BOOLEAN /\ (~quit' => ~quit \/ ~cloud)
  <2>1. m[1] = "quit" => m = <<"quit">>
    BY <1>1, MessageParts
  <2> QED
    BY <1>1, <1>2, <2>1 DEF QuitMeansGone, TypeOK
<1> HIDE DEF m
<1>4. ready' \in BOOLEAN /\ misled' \in BOOLEAN
  BY <1>2 DEF TypeOK
<1>5. TypeOK'
  BY <1>1, <1>2, <1>3, <1>4 DEF TypeOK, ReceiveFrame
<1>6. ChannelHasItsThread' /\ ThreadsAreEntered' /\ LetGoOfThreads'
  BY <1>2 DEF ReceiveFrame, ChannelHasItsThread, ThreadsAreEntered, LetGoOfThreads, LetGo, Live
<1>7. WaitsForCard' /\ UpdatesAreExcused'
  BY <1>1, <1>2 DEF ReceiveFrame, WaitsForCard, Live, UpdatesAreExcused
<1>8. QuitMeansGone' /\ CloudGoesFirst'
  BY <1>1, <1>2, <1>3 DEF ReceiveFrame, QuitMeansGone, CloudGoesFirst, Truthful
<1> QED
  BY <1>2, <1>5, <1>6, <1>7, <1>8

LEMMA ReceiveKeepsIInv ==
  ASSUME IInv, Receive
  PROVE  IInv'
<1> USE DEF IInv
<1>1. ReceiveFrame /\ server \in {"recv", "pass"}
  BY DEF Receive, ReceiveFrame, outside
<1>2. CASE inbox # <<>>
  BY <1>1, <1>2, AddsKeepsIInv, FindsKeepsIInv, ChangesStatusKeepsIInv, LearnsKeepsIInv DEF Receive
<1>3. CASE inbox = <<>>
  <2>1. /\ server' = "work"
        /\ UNCHANGED <<status, inbox, target, ready, quit, slots, at, play, misled, excused>>
    BY <1>3 DEF Receive
  <2>2. TypeOK'
    BY <1>1, <2>1 DEF TypeOK, ReceiveFrame, slots
  <2>3. ChannelHasItsThread' /\ ThreadsAreEntered' /\ LetGoOfThreads' /\ WaitsForCard'
    BY <1>1, <2>1 DEF ReceiveFrame, slots, ChannelHasItsThread, ThreadsAreEntered, LetGoOfThreads,
                      LetGo, WaitsForCard, Live
  <2>4. QuitMeansGone' /\ CloudGoesFirst'
    BY <1>1, <2>1 DEF ReceiveFrame, slots, QuitMeansGone, CloudGoesFirst
  <2>5. UpdatesAreExcused'
    BY <1>1, <2>1 DEF ReceiveFrame, slots, UpdatesAreExcused
  <2> QED
    BY <2>1, <2>2, <2>3, <2>4, <2>5
<1> QED
  BY <1>2, <1>3

LEMMA AppliesKeepsIInv ==
  ASSUME IInv, Applies
  PROVE  IInv'
<1> USE DEF IInv
<1> DEFINE j == target[2]
<1>1. /\ server = "found" /\ server' = "work" /\ target' = <<>>
      /\ UNCHANGED <<status, inbox, closed, ready, quit, started, told, open, card, asked, reply, cloud,
                     sends, strays, misled, overwritten, formatted>>
  BY DEF Applies, outside
<1>2. target \in {"seek", "stop"} \X Jobs /\ j \in Jobs /\ ~closed
  BY <1>1 DEF TypeOK, UpdatesAreExcused
<1> HIDE DEF j
<1>3. QuitMeansGone' /\ CloudGoesFirst'
  BY <1>1 DEF QuitMeansGone, CloudGoesFirst
<1>4. CASE Stops
  <2>1. /\ exits' = exits \cup {j} /\ excused' = excused \cup {j}
        /\ UNCHANGED <<job, restarts, at, play, haunted>>
    BY <1>4 DEF Stops, j
  <2>2. TypeOK'
    BY <1>1, <1>2, <2>1 DEF TypeOK
  <2>3. ChannelHasItsThread' /\ ThreadsAreEntered' /\ LetGoOfThreads' /\ WaitsForCard'
    BY <1>1, <2>1 DEF ChannelHasItsThread, ThreadsAreEntered, LetGoOfThreads, LetGo,
                      WaitsForCard, Live
  <2>4. UpdatesAreExcused'
    BY <1>1, <1>2, <2>1 DEF UpdatesAreExcused
  <2> QED
    BY <1>1, <1>3, <2>2, <2>3, <2>4
<1>5. CASE Seeks
  <2>1. /\ Updates(j)
        /\ \/ job[j] = "free" /\ job' = [job EXCEPT ![j] = Zero] /\ haunted' = haunted \cup {j}
           \/ job' = job /\ haunted' = haunted
    BY <1>5 DEF Seeks, j
  <2>2. /\ exits' \subseteq Jobs /\ restarts' \subseteq Jobs /\ excused' \subseteq Jobs
        /\ UNCHANGED <<at, play>> /\ UpdatesAreExcused'
    BY <1>1, <1>2, <2>1, UpdateIsExcused
  <2>3. TypeOK'
    BY <1>1, <1>2, <2>1, <2>2, PlayerConstants DEF TypeOK
  <2>4. ChannelHasItsThread'
    <3>1. \A k \in Jobs \ haunted' : job'[k] = job[k] /\ k \notin haunted
      BY <1>2, <2>1 DEF TypeOK
    <3> QED
      BY <2>2, <3>1 DEF ChannelHasItsThread
  <2>5. ThreadsAreEntered' /\ LetGoOfThreads' /\ WaitsForCard'
    BY <1>1, <2>2 DEF ThreadsAreEntered, LetGoOfThreads, LetGo, WaitsForCard, Live
  <2> QED
    BY <1>1, <1>3, <2>2, <2>3, <2>4, <2>5
<1> QED
  BY <1>4, <1>5 DEF Applies

LEMMA ServerKeepsIInv ==
  ASSUME IInv, Server
  PROVE  IInv'
BY TurnKeepsIInv, JoinedKeepsIInv, ClearsKeepsIInv, LeavesKeepsIInv, ReceiveKeepsIInv,
   AppliesKeepsIInv DEF Server

-----------------------------------------------------------------------------
(* The threads. *)

(* What no thread changes.                                                 *)
ThreadFrame ==
  UNCHANGED <<closed, target, ready, quit, told, card, asked, reply, cloud, sends, misled, haunted,
              excused, formatted>>

LEMMA RegistersKeepsIInv ==
  ASSUME IInv, NEW j \in Jobs, Registers(j), ThreadFrame
  PROVE  IInv'
<1> USE DEF IInv
<1>1. /\ at[j] = "created" /\ started' = started \cup {j} /\ at' = [at EXCEPT ![j] = "loop"]
      /\ UNCHANGED <<status, server, inbox, job, exits, restarts, play, open, strays, overwritten>>
  BY DEF Registers, slots
<1>2. \A k \in Jobs : at'[k] = IF k = j THEN "loop" ELSE at[k]
  BY <1>1 DEF TypeOK
<1>3. TypeOK'
  BY <1>1 DEF TypeOK, ThreadFrame
<1>4. ChannelHasItsThread' /\ ThreadsAreEntered'
  BY <1>1, <1>2 DEF ThreadFrame, ChannelHasItsThread, ThreadsAreEntered
<1>5. Live' = Live
  BY <1>1, <1>2 DEF Live
<1>6. LetGoOfThreads' /\ WaitsForCard'
  BY <1>1, <1>5 DEF ThreadFrame, LetGoOfThreads, LetGo, WaitsForCard
<1>7. QuitMeansGone' /\ CloudGoesFirst'
  BY <1>1 DEF ThreadFrame, QuitMeansGone, CloudGoesFirst
<1>8. UpdatesAreExcused'
  BY <1>1, <1>2 DEF ThreadFrame, UpdatesAreExcused, TypeOK
<1> QED
  BY <1>1, <1>3, <1>4, <1>6, <1>7, <1>8 DEF ThreadFrame

(* What one round does to the thread's place, status and file.             *)
LEMMA RoundsSteps ==
  ASSUME IInv, NEW j \in Jobs, Rounds(j)
  PROVE  /\ at[j] = "loop"
         /\ UNCHANGED <<status, server, inbox, started, job, exits, strays, overwritten>>
         /\ restarts' \subseteq restarts
         /\ play' \in [Jobs -> {"INITED", "SYNC", "RUN", "OVER"}]
         /\ open' \subseteq open \cup {j}
         /\ \/ at' = at
            \/ at' = [at EXCEPT ![j] = "over"] /\ j \notin restarts'
            \/ at' = [at EXCEPT ![j] = "ends"] /\ (server = "leaves" \/ j \in exits \cup told)
<1> USE DEF IInv
<1>1. /\ at[j] = "loop"
      /\ UNCHANGED <<status, server, inbox, started, job, exits, strays, overwritten>>
  BY DEF Rounds
<1>2. CASE server = "leaves" \/ j \in exits \cup told
  BY <1>1, <1>2 DEF Rounds, TypeOK
<1>3. CASE ~(server = "leaves" \/ j \in exits \cup told)
  <2>1. restarts' = restarts \ {j} /\ Plays(j, IF j \in restarts THEN "INITED" ELSE play[j])
    BY <1>3 DEF Rounds
  <2>2. /\ play' \in [Jobs -> {"INITED", "SYNC", "RUN", "OVER"}]
        /\ open' \subseteq open \cup {j}
        /\ at' = at \/ at' = [at EXCEPT ![j] = "over"]
    BY <2>1 DEF Plays, TypeOK
  <2> QED
    BY <1>1, <2>1, <2>2
<1> QED
  BY <1>2, <1>3

LEMMA RoundsKeepsIInv ==
  ASSUME IInv, NEW j \in Jobs, Rounds(j), ThreadFrame
  PROVE  IInv'
<1> USE DEF IInv
<1>1. /\ at[j] = "loop"
      /\ UNCHANGED <<status, server, inbox, started, job, exits, strays, overwritten>>
      /\ restarts' \subseteq restarts
      /\ play' \in [Jobs -> {"INITED", "SYNC", "RUN", "OVER"}]
      /\ open' \subseteq open \cup {j}
      /\ \/ at' = at
         \/ at' = [at EXCEPT ![j] = "over"] /\ j \notin restarts'
         \/ at' = [at EXCEPT ![j] = "ends"] /\ (server = "leaves" \/ j \in exits \cup told)
  BY RoundsSteps
<1>2. /\ at' \in [Jobs -> {"none", "created", "loop", "over", "ends"}]
      /\ \A k \in Jobs : k # j => at'[k] = at[k]
      /\ at'[j] \in {"loop", "over", "ends"}
      /\ at'[j] = "over" => j \notin restarts'
      /\ at'[j] = "ends" => server = "leaves" \/ j \in exits \cup told
  BY <1>1 DEF TypeOK
<1>3. TypeOK'
  BY <1>1, <1>2 DEF TypeOK, ThreadFrame
<1>4. ChannelHasItsThread'
  BY <1>1, <1>2 DEF ThreadFrame, ChannelHasItsThread
<1>5. ThreadsAreEntered'
  BY <1>1, <1>2 DEF ThreadsAreEntered
<1>6. Live' \subseteq Live
  BY <1>1, <1>2 DEF Live
<1>7. LetGoOfThreads' /\ WaitsForCard'
  BY <1>1, <1>6 DEF ThreadFrame, LetGoOfThreads, LetGo, WaitsForCard
<1>8. QuitMeansGone' /\ CloudGoesFirst'
  BY <1>1 DEF ThreadFrame, QuitMeansGone, CloudGoesFirst
<1>9. UpdatesAreExcused'
  BY <1>1, <1>2 DEF ThreadFrame, UpdatesAreExcused, TypeOK
<1> QED
  BY <1>1, <1>3, <1>4, <1>5, <1>7, <1>8, <1>9 DEF ThreadFrame

LEMMA OverKeepsIInv ==
  ASSUME IInv, NEW j \in Jobs, Over(j), ThreadFrame
  PROVE  IInv'
<1> USE DEF IInv
<1>1. /\ at[j] = "over" /\ status' = "INIT" /\ exits' = exits \cup {j}
      /\ at' = [at EXCEPT ![j] = "loop"] /\ overwritten' \in BOOLEAN
      /\ server' = server \/ (server = "recv" /\ server' = "pass")
      /\ UNCHANGED <<inbox, started, job, restarts, play, open, strays>>
  BY DEF Over, TypeOK
<1>2. \A k \in Jobs : at'[k] = IF k = j THEN "loop" ELSE at[k]
  BY <1>1 DEF TypeOK
<1>3. TypeOK'
  BY <1>1 DEF TypeOK, ThreadFrame, Statuses
<1>4. ChannelHasItsThread' /\ ThreadsAreEntered'
  BY <1>1, <1>2 DEF ThreadFrame, ChannelHasItsThread, ThreadsAreEntered
<1>5. Live' = Live
  BY <1>1, <1>2 DEF Live
<1>6. LetGoOfThreads' /\ WaitsForCard'
  BY <1>1, <1>5 DEF ThreadFrame, LetGoOfThreads, LetGo, WaitsForCard
<1>7. QuitMeansGone' /\ CloudGoesFirst'
  BY <1>1 DEF ThreadFrame, QuitMeansGone, CloudGoesFirst
<1>8. UpdatesAreExcused'
  BY <1>1, <1>2 DEF ThreadFrame, UpdatesAreExcused, TypeOK
<1> QED
  BY <1>1, <1>3, <1>4, <1>6, <1>7, <1>8 DEF ThreadFrame

LEMMA EndsKeepsIInv ==
  ASSUME IInv, NEW j \in Jobs, Ends(j), ThreadFrame
  PROVE  IInv'
<1> USE DEF IInv
<1>1. /\ at[j] = "ends" /\ open' = open \ {j} /\ started' = started \ {j}
      /\ job' = [job EXCEPT ![j] = "free"] /\ exits' = exits \ {j} /\ restarts' = restarts \ {j}
      /\ at' = [at EXCEPT ![j] = "none"] /\ play' = [play EXCEPT ![j] = "INITED"]
      /\ strays' = strays \ {j}
      /\ inbox' = inbox \/ (~closed /\ inbox' = Append(inbox, <<"other">>))
      /\ UNCHANGED <<status, server, overwritten>>
  BY DEF Ends, Posted
<1>2. \A k \in Jobs : /\ at'[k] = IF k = j THEN "none" ELSE at[k]
                      /\ job'[k] = IF k = j THEN "free" ELSE job[k]
  BY <1>1 DEF TypeOK
<1>3. inbox' \in Seq(Messages) /\ Truthful'
  <2>1. Truthful /\ TypeOK /\ (cloud' => cloud)
    BY DEF Truthful, QuitMeansGone, ThreadFrame
  <2>2. Truthful'
    BY <1>1, <2>1, TruthAfterAppend, MessagesAreThere
  <2> QED
    BY <1>1, <2>2, AppendToInbox, MessagesAreThere DEF TypeOK
<1>4. TypeOK'
  BY <1>1, <1>3 DEF TypeOK, ThreadFrame
<1>5. ChannelHasItsThread'
  BY <1>1, <1>2 DEF ThreadFrame, ChannelHasItsThread
<1>6. ThreadsAreEntered'
  BY <1>1, <1>2 DEF ThreadsAreEntered
<1>7. Live' = Live \ {j}
  BY <1>1, <1>2 DEF Live
<1>8. LetGoOfThreads' /\ WaitsForCard'
  BY <1>1, <1>7 DEF ThreadFrame, LetGoOfThreads, LetGo, WaitsForCard
<1>9. QuitMeansGone' /\ CloudGoesFirst'
  BY <1>1, <1>3 DEF ThreadFrame, QuitMeansGone, CloudGoesFirst, Truthful
<1>10. UpdatesAreExcused'
  BY <1>1, <1>2 DEF ThreadFrame, UpdatesAreExcused, TypeOK
<1> QED
  BY <1>1, <1>4, <1>5, <1>6, <1>8, <1>9, <1>10 DEF ThreadFrame

LEMMA ThreadKeepsIInv ==
  ASSUME IInv, NEW j \in Jobs, Thread(j)
  PROVE  IInv'
<1>1. ThreadFrame
  BY DEF Thread, ThreadFrame, outside
<1> QED
  BY <1>1, RegistersKeepsIInv, RoundsKeepsIInv, OverKeepsIInv, EndsKeepsIInv DEF Thread

-----------------------------------------------------------------------------
(* The other servers. *)

LEMMA OthersKeepsIInv ==
  ASSUME IInv, Others
  PROVE  IInv'
<1> USE DEF IInv
<1>1. UNCHANGED <<status, server, closed, target, ready, quit, started, told, job, exits, restarts, at,
                  play, open, strays, misled, overwritten, haunted, excused, formatted>>
  BY DEF Others, slots, threads, history
<1>2. PICK m \in Messages :
        /\ inbox' = inbox \/ (~closed /\ inbox' = Append(inbox, m))
        /\ m \in {<<"quit">>, <<"exit", FALSE>>} => ~cloud'
        /\ cloud' \in BOOLEAN /\ (cloud' => cloud)
        /\ sends' \in 0 .. MaxSends /\ asked' \in BOOLEAN /\ reply' \in BOOLEAN
        /\ card' \in {card, "asked", "mounted"}
  <2>1. CASE \E m \in Requested \cup {<<"exit", cloud>>} : Requests(m)
    <3>1. PICK m \in Requested \cup {<<"exit", cloud>>} : Requests(m)
      BY <2>1
    <3>2. m \in Messages
      BY MessagesAreThere DEF TypeOK
    <3>3. m \in {<<"quit">>, <<"exit", FALSE>>} => ~cloud
      <4> SUFFICES ASSUME m \in {<<"quit">>, <<"exit", FALSE>>} PROVE ~cloud
        OBVIOUS
      <4>1. m[1] \in {"quit", "exit"} /\ (m[1] = "exit" => m[2] = FALSE)
        <5>1. CASE m = <<"quit">>
          BY <5>1
        <5>2. CASE m = <<"exit", FALSE>>
          BY <5>2
        <5> QED
          BY <5>1, <5>2
      <4>2. \A r \in Requested : r[1] \notin {"quit", "exit"}
        BY DEF Requested
      <4>3. m = <<"exit", cloud>>
        BY <4>1, <4>2
      <4>4. m[1] = "exit" /\ m[2] = cloud
        BY <4>3
      <4> QED
        BY <4>1, <4>4
    <3>4. sends' \in 0 .. MaxSends
      BY <3>1, PlayerConstants DEF Requests, TypeOK
    <3>5. /\ inbox' = Append(inbox, m) /\ ~closed /\ cloud' = cloud
          /\ asked' = asked /\ reply' = reply /\ card' \in {card, "asked"}
      BY <3>1 DEF Requests
    <3> QED
      BY <3>2, <3>3, <3>4, <3>5 DEF TypeOK
  <2>2. CASE Looks
    <3>1. <<"other">> \in Messages /\ <<"other">> \notin {<<"quit">>, <<"exit", FALSE>>}
      BY MessagesAreThere
    <3> QED
      BY <2>2, <3>1 DEF Looks, Posted, TypeOK
  <2>3. CASE Answers
    <3>1. <<"sd">> \in Messages /\ <<"sd">> \notin {<<"quit">>, <<"exit", FALSE>>}
      BY MessagesAreThere
    <3> QED
      BY <2>3, <3>1 DEF Answers, Posted, TypeOK
  <2>4. CASE Formats
    <3>1. <<"other">> \in Messages /\ <<"other">> \notin {<<"quit">>, <<"exit", FALSE>>}
      BY MessagesAreThere
    <3> QED
      BY <2>4, <3>1 DEF Formats, TypeOK
  <2>5. CASE CloudLeaves
    <3>1. <<"quit">> \in Messages
      BY MessagesAreThere
    <3> QED
      BY <2>5, <3>1 DEF CloudLeaves, Posted, TypeOK
  <2> QED
    BY <2>1, <2>2, <2>3, <2>4, <2>5 DEF Others
<1>3. cloud' => cloud
  BY <1>2
<1>4. inbox' \in Seq(Messages) /\ Truthful'
  <2>1. Truthful /\ TypeOK
    BY DEF Truthful, QuitMeansGone
  <2>2. Truthful'
    BY <1>2, <1>3, <2>1, TruthAfterAppend
  <2> QED
    BY <1>2, <2>2, AppendToInbox DEF TypeOK
<1>5. TypeOK'
  BY <1>1, <1>2, <1>4 DEF TypeOK
<1>6. ChannelHasItsThread' /\ ThreadsAreEntered' /\ LetGoOfThreads' /\ WaitsForCard'
  BY <1>1, <1>2 DEF ChannelHasItsThread, ThreadsAreEntered, LetGoOfThreads, LetGo, WaitsForCard,
                    Live
<1>7. QuitMeansGone' /\ CloudGoesFirst'
  BY <1>1, <1>3, <1>4 DEF QuitMeansGone, CloudGoesFirst, Truthful
<1>8. UpdatesAreExcused'
  BY <1>1, <1>2 DEF UpdatesAreExcused
<1> QED
  BY <1>1, <1>5, <1>6, <1>7, <1>8

LEMMA StutterKeepsIInv ==
  ASSUME IInv, UNCHANGED vars
  PROVE  IInv'
<1>1. UNCHANGED <<status, server, inbox, closed, target, ready, quit, started, told, job, exits, restarts,
                  at, play, open, card, asked, reply, cloud, sends, strays, misled, overwritten,
                  haunted, excused, formatted>>
  BY DEF vars, slots, threads, outside, history
<1>2. TypeOK'
  BY <1>1 DEF IInv, TypeOK
<1>3. ChannelHasItsThread' /\ ThreadsAreEntered' /\ LetGoOfThreads' /\ WaitsForCard'
  BY <1>1 DEF IInv, ChannelHasItsThread, ThreadsAreEntered, LetGoOfThreads, LetGo, WaitsForCard,
              Live
<1>4. QuitMeansGone' /\ CloudGoesFirst' /\ UpdatesAreExcused'
  BY <1>1 DEF IInv, QuitMeansGone, CloudGoesFirst, UpdatesAreExcused
<1> QED
  BY <1>1, <1>2, <1>3, <1>4 DEF IInv

-----------------------------------------------------------------------------
(* The theorems. *)

(* The inductive invariant: threads are entered in thread_start or counted  *)
(* among those the server missed, whatever the server, its threads and the  *)
(* other servers do in between.                                            *)
THEOREM Inductive == Spec => []IInv
<1>1. IInv /\ [Next]_vars => IInv'
  BY ServerKeepsIInv, ThreadKeepsIInv, OthersKeepsIInv, StutterKeepsIInv DEF Next
<1> QED
  BY <1>1, InitIInv, PTL DEF Spec

(* The player's variables stay in their types.                             *)
THEOREM PlayerIsTyped == Spec => []TypeOK
BY Inductive, PTL DEF IInv

(* A used slot of jobs[] has a thread and a channel of its own, but for the *)
(* slots that a seek has brought back.                                     *)
THEOREM ChannelsHaveOneThread == Spec => []ChannelHasItsThread
BY Inductive, PTL DEF IInv

(* When the card is given away for formatting or the manager is told that   *)
(* the player has gone, no file is open but those of the named races.      *)
THEOREM PlaybacksAreClosed == Spec => []PlaybackIsClosed
<1>1. IInv => PlaybackIsClosed
  BY DEF IInv, PlaybackIsClosed, WaitsForCard, LetGoOfThreads, LetGo, Live
<1> QED
  BY <1>1, Inductive, PTL

(* The player passes PLAYER_EXIT_CONDITION only after the cloud has gone,   *)
(* or after a format has cleared the condition.                            *)
THEOREM CloudIsWaitedFor == Spec => []CloudGoesFirst
BY Inductive, PTL DEF IInv

(* A request handed to a slot is taken by the slot's thread before it ends, *)
(* unless the thread was already bound to end.                             *)
THEOREM UpdatesAreTaken == Spec => UpdateIsTaken
<1> DEFINE Taken == \A j \in restarts : at[j] # "none" /\ at'[j] = "none" => j \in excused
<1>1. ASSUME IInv, NEW j \in restarts, at[j] # "none", at'[j] = "none", Next
      PROVE  at[j] = "ends"
  <2>1. j \in Jobs /\ at \in [Jobs -> {"none", "created", "loop", "over", "ends"}]
    BY <1>1 DEF IInv, TypeOK
  <2>2. CASE Server
    <3>1. at' = at \/ \E k \in Jobs : at' = [at EXCEPT ![k] = "created"]
      <4>1. CASE Receive
        <5>1. CASE Adds
          <6>1. ASSUME OnChannel("free") # {}
                PROVE  Min(OnChannel("free")) \in Jobs
            BY <6>1, MinIsJob DEF OnChannel
          <6> QED
            BY <5>1, <6>1 DEF Adds, Updates, Creates
        <5>2. CASE ~Adds
          BY <4>1, <5>2 DEF Receive, Finds, ChangesStatus, Learns
        <5> QED
          BY <5>1, <5>2
      <4>2. CASE Applies
        BY <4>2 DEF Applies, Stops, Seeks, Updates
      <4>3. CASE Turn \/ Joined \/ Clears \/ Leaves
        BY <4>3 DEF Turn, Joined, Clears, Leaves, threads
      <4> QED
        BY <2>2, <4>1, <4>2, <4>3 DEF Server
    <3> QED
      BY <1>1, <2>1, <3>1
  <2>3. CASE \E k \in Jobs : Thread(k)
    <3>1. PICK k \in Jobs : Thread(k)
      BY <2>3
    <3>2. CASE Rounds(k)
      BY <1>1, <2>1, <3>2, RoundsSteps
    <3>3. CASE ~Rounds(k)
      BY <1>1, <2>1, <3>1, <3>3 DEF Thread, Registers, Over, Ends
    <3> QED
      BY <3>2, <3>3
  <2>4. CASE Others
    BY <1>1, <2>4 DEF Others, threads
  <2> QED
    BY <1>1, <2>2, <2>3, <2>4 DEF Next
<1>2. IInv /\ Next => Taken
  BY <1>1 DEF IInv, UpdatesAreExcused
<1>3. IInv /\ [Next]_vars => [Taken]_vars
  BY <1>2
<1> QED
  BY <1>3, Inductive, PTL DEF Spec, UpdateIsTaken
=============================================================================
