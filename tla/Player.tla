--------------------------------- MODULE Player ---------------------------------
(***************************************************************************)
(* The player server: its state machine, its message loop, and the         *)
(* detached threads that each play recordings into one channel of the      *)
(* cloud.  A request for a channel that is playing already is handed to    *)
(* the thread that plays there, through its slot in jobs[]; server and     *)
(* threads change the slots under the lock ilock.  The device server       *)
(* formats the card when the player has answered                           *)
(* MSG_DEVICE_SD_FORMAT_START.                                             *)
(***************************************************************************)
EXTENDS Naturals, Sequences, FiniteSets, FiniteSetsExt, Functions

CONSTANTS MaxJobs,   \* the slots in jobs[], ALIYUN_VISUAL_MAX_CHANNEL in the code
          Channels,  \* the cloud's channels
          Zero,      \* channel 0, which a cleared slot seems to be for
          MaxSends,  \* bound: requests sent by other servers
          MaxQueue   \* bound: no further request is sent to a queue this long

ASSUME PlayerConstants ==
    /\ MaxJobs \in Nat \ {0} /\ MaxSends \in Nat /\ MaxQueue \in Nat
    /\ Zero \in Channels /\ "free" \notin Channels

Jobs == 0 .. MaxJobs - 1
Exiting == {"EXIT_INIT", "EXIT_SERVER", "EXIT_STAGE1", "EXIT_THREAD", "EXIT_STAGE2", "EXIT_FINISH"}
Statuses == {"NONE", "INIT", "SETUP", "START", "RUN", "REINIT"} \cup Exiting

VARIABLES
    status,      \* info.status
    server,      \* where the server's loop is
    inbox,       \* the message buffer
    closed,      \* server_release_2 has given the message buffer up
    target,      \* the slot and the request for it, found but not yet carried out
    ready,       \* info.init_status; knowing the time as well is left out
    quit,        \* info.quit_status holds the cloud's server
    started,     \* info.thread_start
    told,        \* info.thread_exit
    job,         \* jobs[]: "free" or the channel
    exits,       \* the slots with exit set
    restarts,    \* the slots with restart set
    at,          \* where each slot's thread is
    play,        \* the thread's own status
    open,        \* the slots whose thread has an mp4 file open
    card,        \* the card as the device server has it
    asked,       \* server_init's question whether there is a card waits for an answer
    reply,       \* the device server has found the card and is about to say so
    cloud,       \* the cloud's server is there
    sends,       \* requests left to send (bound)
    strays,      \* history: threads on their way when the server let go
    misled,      \* history: the server took the card for ready although it was not
    overwritten, \* history: a playback's end has undone an exit or a format
    haunted,     \* history: slots marked as used after their thread had left
    excused,     \* history: updates of slots whose thread was on its way out
    formatted    \* history: server_reinit has been run

slots == <<job, exits, restarts>>
threads == <<at, play, open>>
outside == <<card, asked, reply, cloud, sends>>
history == <<strays, misled, overwritten, haunted, excused, formatted>>
vars == <<status, server, inbox, closed, target, ready, quit, started, told, slots, threads,
          outside, history>>

Init ==
    /\ status = "NONE" /\ server = "work" /\ inbox = <<>> /\ closed = FALSE /\ target = <<>>
    /\ ready = FALSE /\ quit = TRUE /\ started = {} /\ told = {}
    /\ job = [j \in Jobs |-> "free"] /\ exits = {} /\ restarts = {}
    /\ at = [j \in Jobs |-> "none"] /\ play = [j \in Jobs |-> "INITED"]
    /\ open = {}
    /\ card = "mounted" /\ asked = FALSE /\ reply = FALSE /\ cloud = TRUE /\ sends = MaxSends
    /\ strays = {} /\ misled = FALSE /\ overwritten = FALSE /\ haunted = {}
    /\ excused = {} /\ formatted = FALSE

\* global_common_send_message to the player: refused once the buffer is gone.
Posted(m) == IF closed THEN inbox ELSE Append(inbox, m)

-----------------------------------------------------------------------------
(* One turn of server_func: state_machine and task_proc. *)

\* server_message_proc waits for a message only when the turn has left the
\* status as it was.
Then(new) ==
    /\ status' = new
    /\ server' = IF new = status THEN "recv" ELSE "pass"

\* STATUS_NONE; STATUS_WAIT and STATUS_IDLE, which a turn only passes through;
\* and STATUS_RUN, in which the server waits for messages.
StartTurn ==
    /\ status \in {"NONE", "SETUP", "START", "RUN"}
    /\ Then(CASE status = "NONE"  -> "INIT"
              [] status = "SETUP" -> "START"
              [] OTHER            -> "RUN")
    /\ UNCHANGED <<inbox, closed, quit, told, slots, asked, strays, excused>>

\* server_init asks the device server for the card.
InitTurn ==
    /\ status = "INIT"
    /\ asked' = (asked \/ ~ready)
    /\ Then(IF ready THEN "SETUP" ELSE "INIT")
    /\ UNCHANGED <<inbox, closed, quit, told, slots, strays, excused>>

\* server_reinit tells every slot to exit, without the lock, and polls.
ReinitTurn ==
    /\ status = "REINIT"
    /\ exits' = Jobs /\ excused' = Jobs
    /\ inbox' = Posted(<<"other">>)
    /\ server' = "joins"
    /\ UNCHANGED <<status, closed, quit, told, job, restarts, asked, strays>>

\* Faulty: the cloud is not waited for.
ExitTurnAtOnce ==
    /\ status \in {"EXIT_INIT", "EXIT_SERVER", "EXIT_STAGE1"}
    /\ Then(CASE status = "EXIT_INIT"   -> "EXIT_SERVER"
              [] status = "EXIT_SERVER" -> "EXIT_STAGE1"
              [] status = "EXIT_STAGE1" -> "EXIT_THREAD")
    /\ UNCHANGED <<inbox, closed, quit, told, slots, asked, strays, excused>>

\* EXIT_SERVER waits for the cloud.  EXIT_INIT, which takes servers that are
\* gone out of quit_status, is part of the message that leads to it.
ExitTurn ==
    /\ status \in {"EXIT_INIT", "EXIT_SERVER", "EXIT_STAGE1"}
    /\ Then(CASE status = "EXIT_INIT"   -> "EXIT_SERVER"
              [] status = "EXIT_SERVER" -> IF quit THEN "EXIT_SERVER" ELSE "EXIT_STAGE1"
              [] status = "EXIT_STAGE1" -> "EXIT_THREAD")
    /\ UNCHANGED <<inbox, closed, quit, told, slots, asked, strays, excused>>

ExitThreadTurn ==
    /\ status = "EXIT_THREAD"
    /\ told' = started /\ excused' = Jobs
    /\ IF started = {}
       THEN Then("EXIT_STAGE2") /\ strays' = strays \cup {j \in Jobs : at[j] = "created"}
       ELSE Then("EXIT_THREAD") /\ UNCHANGED strays
    /\ UNCHANGED <<inbox, closed, quit, slots, asked>>

\* server_release_2
ReleaseTurn ==
    /\ status = "EXIT_STAGE2"
    /\ closed' = TRUE /\ inbox' = <<>>
    /\ job' = [j \in Jobs |-> "free"] /\ exits' = {} /\ restarts' = {}
    /\ Then("EXIT_FINISH")
    /\ UNCHANGED <<quit, told, asked, strays, excused>>

\* info.exit is set and the loop left.
FinishTurn ==
    /\ status = "EXIT_FINISH"
    /\ server' = "leaves"
    /\ UNCHANGED <<status, inbox, closed, quit, told, slots, asked, strays, excused>>

Turn ==
    /\ server = "work"
    /\ \/ StartTurn \/ InitTurn \/ ReinitTurn \/ ExitTurn \/ ExitThreadTurn
       \/ ReleaseTurn \/ FinishTurn
    /\ UNCHANGED <<target, ready, started, threads, card, reply, cloud, sends,
                   misled, overwritten, haunted, formatted>>

\* Faulty: it does not wait for the threads.
JoinedAtOnce ==
    /\ server = "joins"
    /\ server' = "clears"
    /\ strays' = strays \cup {j \in Jobs : at[j] = "created"}
    /\ card' = IF card = "asked" THEN "released" ELSE card
    /\ misled' = FALSE
    /\ UNCHANGED <<status, inbox, closed, target, ready, quit, started, told, slots, threads, asked,
                   reply, cloud, sends, overwritten, haunted, excused, formatted>>

\* Faulty: the device server is not answered.
JoinedSilently ==
    /\ server = "joins" /\ started = {}
    /\ server' = "clears"
    /\ strays' = strays \cup {j \in Jobs : at[j] = "created"}
    /\ misled' = FALSE
    /\ UNCHANGED <<status, inbox, closed, target, ready, quit, started, told, slots, threads, card,
                   asked, reply, cloud, sends, overwritten, haunted, excused, formatted>>

\* No thread is entered: the device server is answered.
Joined ==
    /\ server = "joins" /\ started = {}
    /\ server' = "clears"
    /\ strays' = strays \cup {j \in Jobs : at[j] = "created"}
    /\ card' = IF card = "asked" THEN "released" ELSE card
    /\ misled' = FALSE
    /\ UNCHANGED <<status, inbox, closed, target, ready, quit, started, told, slots, threads, asked,
                   reply, cloud, sends, overwritten, haunted, excused, formatted>>

\* memset of info, with the bit of a thread that has just entered itself.
Clears ==
    /\ server = "clears"
    /\ status' = "INIT" /\ server' = "pass"
    /\ ready' = FALSE /\ quit' = FALSE /\ started' = {} /\ told' = {}
    /\ formatted' = TRUE
    /\ UNCHANGED <<inbox, closed, target, slots, threads, outside,
                   strays, misled, overwritten, haunted, excused>>

\* server_release_3: info is cleared and the manager answered.
Leaves ==
    /\ server = "leaves"
    /\ server' = "gone"
    /\ ready' = FALSE /\ quit' = FALSE /\ started' = {} /\ told' = {}
    /\ UNCHANGED <<status, inbox, closed, target, slots, threads, outside, history>>

-----------------------------------------------------------------------------
(* server_message_proc.  A message is a tuple: what it asks or answers, and *)
(* a channel, a slot or the servers that are up.  The filter of an exiting  *)
(* server stops none of them, as in the recorder.  MSG_PLAYER_SEEK and      *)
(* MSG_PLAYER_SET_PARAM are one message here; START, PAUSE and the sound    *)
(* only change how a thread plays.                                          *)

Requested == {<<m, c>> : m \in {"play", "seek", "stop"}, c \in Channels} \cup {<<"format">>}
Messages ==
    Requested \cup {<<"exit", b>> : b \in BOOLEAN} \cup {<<"quit">>, <<"sd">>, <<"other">>}

\* find_job_channel
OnChannel(c) == {j \in Jobs : job[j] = c}

\* The thread of slot j is past its last look at the slot, or bound to leave.
Departing(j) == at[j] \in {"none", "over", "ends"} \/ j \in told

\* Faulty: the slot's exit is left as it was.
UpdatesOnly(j) ==
    /\ restarts' = restarts \cup {j}
    /\ excused' = IF Departing(j) THEN excused \cup {j} ELSE excused \ {j}
    /\ UNCHANGED <<exits, at, play>>

\* The thread of slot j is to start anew, also if it was to exit.
Updates(j) ==
    /\ restarts' = restarts \cup {j} /\ exits' = exits \ {j}
    /\ excused' = IF Departing(j) THEN excused \cup {j} ELSE excused \ {j}
    /\ UNCHANGED <<at, play>>

\* A cleared slot and a thread for it.
Creates(j, c) ==
    /\ job' = [job EXCEPT ![j] = c]
    /\ exits' = exits \ {j} /\ restarts' = restarts \ {j}
    /\ at' = [at EXCEPT ![j] = "created"] /\ play' = [play EXCEPT ![j] = "INITED"]
    /\ UNCHANGED excused

\* Faulty: a slot whose thread is to exit does not count for its channel.
AddsBesides ==
    LET c == Head(inbox)[2]
        same == OnChannel(c) \ exits
        free == OnChannel("free")
    IN
    /\ Head(inbox) \in {<<"play", d>> : d \in Channels}
    /\ \/ status = "RUN" /\ same # {} /\ Updates(Min(same)) /\ UNCHANGED job
       \/ status = "RUN" /\ same = {} /\ free # {} /\ Creates(Min(free), c)
       \/ UNCHANGED <<slots, at, play, excused>>
    /\ server' = "work"
    /\ UNCHANGED <<status, target, ready, quit, misled>>

\* player_add_job, under the lock: the channel's thread is updated or one
\* created; or there is no recording, no slot or no thread.
Adds ==
    LET c == Head(inbox)[2]
        same == OnChannel(c)
        free == OnChannel("free")
    IN
    /\ Head(inbox) \in {<<"play", d>> : d \in Channels}
    /\ \/ status = "RUN" /\ same # {} /\ Updates(Min(same)) /\ UNCHANGED job
       \/ status = "RUN" /\ same = {} /\ free # {} /\ Creates(Min(free), c)
       \/ UNCHANGED <<slots, at, play, excused>>
    /\ server' = "work"
    /\ UNCHANGED <<status, target, ready, quit, misled>>

\* player_seek_job, player_set_param_job and player_stop_job look for the slot
\* before they take the lock.
Finds ==
    LET m == Head(inbox) IN
    /\ m \in {<<r, d>> : r \in {"seek", "stop"}, d \in Channels}
    /\ IF OnChannel(m[2]) = {}
       THEN server' = "work" /\ UNCHANGED target
       ELSE server' = "found" /\ target' = <<m[1], Min(OnChannel(m[2]))>>
    /\ UNCHANGED <<status, ready, quit, slots, at, play, misled, excused>>

\* MSG_MANAGER_EXIT, which lists the servers that are up, and
\* MSG_DEVICE_SD_FORMAT_START
ChangesStatus ==
    LET m == Head(inbox) IN
    /\ m[1] \in {"exit", "format"}
    /\ status' = IF m[1] = "exit" THEN "EXIT_INIT" ELSE "REINIT"
    /\ quit' = IF m[1] = "exit" THEN quit /\ m[2] ELSE quit
    /\ server' = "work"
    /\ UNCHANGED <<target, ready, slots, at, play, misled, excused>>

\* Answers, and what only wakes the server; those of video and audio to a sync
\* request, which let a thread play on, are left to the thread.
Learns ==
    LET m == Head(inbox) IN
    /\ m[1] \in {"sd", "quit", "other"}
    /\ ready' = (ready \/ m[1] = "sd")
    /\ misled' = (misled \/ (m[1] = "sd" /\ card # "mounted"))
    /\ quit' = (quit /\ m[1] # "quit")
    /\ server' = "work"
    /\ UNCHANGED <<status, target, job, exits, restarts, at, play, excused>>

Receive ==
    /\ server \in {"recv", "pass"}
    /\ \/ /\ inbox # <<>>
          /\ inbox' = Tail(inbox)
          /\ Adds \/ Finds \/ ChangesStatus \/ Learns
       \/ /\ inbox = <<>> /\ server = "pass"
          /\ server' = "work"
          /\ UNCHANGED <<status, inbox, target, ready, quit, slots, at, play, misled, excused>>
    /\ UNCHANGED <<closed, started, told, open, outside, strays, overwritten, haunted, formatted>>

\* The rest of player_stop_job, under the lock.
Stops ==
    LET j == target[2] IN
    /\ target[1] = "stop"
    /\ exits' = exits \cup {j}
    /\ excused' = excused \cup {j}
    /\ UNCHANGED <<job, restarts, at, play, haunted>>

\* The rest of player_seek_job, under the lock: a slot that has been given up
\* meanwhile is marked as used, with channel 0.
Seeks ==
    LET j == target[2] IN
    /\ target[1] = "seek"
    /\ Updates(j)
    /\ job' = IF job[j] = "free" THEN [job EXCEPT ![j] = Zero] ELSE job
    /\ haunted' = IF job[j] = "free" THEN haunted \cup {j} ELSE haunted

Applies ==
    /\ server = "found"
    /\ Stops \/ Seeks
    /\ server' = "work" /\ target' = <<>>
    /\ UNCHANGED <<status, inbox, closed, ready, quit, started, told, open, outside,
                   strays, misled, overwritten, formatted>>

Server == Turn \/ Joined \/ Clears \/ Leaves \/ Receive \/ Applies

-----------------------------------------------------------------------------
(* player_func, the thread of slot j. *)

\* It enters itself into thread_start.  A thread whose slot server_release_2
\* has cleared before is not followed any further.
Registers(j) ==
    /\ at[j] = "created" /\ job[j] # "free"
    /\ started' = started \cup {j}
    /\ at' = [at EXCEPT ![j] = "loop"]
    /\ UNCHANGED <<status, server, inbox, slots, play, open, strays, overwritten>>

\* One status of the switch, for a thread that plays on.
Plays(j, now) ==
    \/ /\ now = "INITED"      \* the recordings are looked for
       /\ \E p \in {"SYNC", "OVER"} : play' = [play EXCEPT ![j] = p]
       /\ open' = open \ {j}
       /\ UNCHANGED at
    \/ /\ now = "SYNC"        \* the live picture and sound may have stopped
       /\ \E p \in {"SYNC", "RUN"} : play' = [play EXCEPT ![j] = p]
       /\ UNCHANGED <<at, open>>
    \/ /\ now = "RUN"         \* a frame, the next recording or the end
       /\ \/ open' \in {open \cup {j}, open \ {j}} /\ UNCHANGED play
          \/ open' = open \ {j} /\ play' = [play EXCEPT ![j] = "OVER"]
       /\ UNCHANGED at
    \/ /\ now = "OVER"
       /\ at' = [at EXCEPT ![j] = "over"]
       /\ UNCHANGED <<play, open>>

\* Faulty: the slot's exit is not looked at.
RoundsOn(j) ==
    /\ at[j] = "loop"
    /\ IF server = "leaves" \/ j \in told
       THEN at' = [at EXCEPT ![j] = "ends"] /\ UNCHANGED <<restarts, play, open>>
       ELSE /\ restarts' = restarts \ {j}
            /\ Plays(j, IF j \in restarts THEN "INITED" ELSE play[j])
    /\ UNCHANGED <<status, server, inbox, started, job, exits, strays, overwritten>>

\* Once round the loop.
Rounds(j) ==
    /\ at[j] = "loop"
    /\ IF server = "leaves" \/ j \in exits \cup told
       THEN at' = [at EXCEPT ![j] = "ends"] /\ UNCHANGED <<restarts, play, open>>
       ELSE /\ restarts' = restarts \ {j}
            /\ Plays(j, IF j \in restarts THEN "INITED" ELSE play[j])
    /\ UNCHANGED <<status, server, inbox, started, job, exits, strays, overwritten>>

\* PLAYER_THREAD_FINISH and PLAYER_THREAD_ERROR: "info.status =
\* PLAYER_THREAD_INITED" is STATUS_INIT to the server, which may be about to
\* compare its status.
Over(j) ==
    /\ at[j] = "over"
    /\ status' = "INIT"
    /\ server' \in IF server = "recv" /\ status # "INIT" THEN {"recv", "pass"} ELSE {server}
    /\ overwritten' =
        (overwritten \/ (status \in Exiting \cup {"REINIT"} /\ server \notin {"joins", "clears", "leaves", "gone"}))
    /\ exits' = exits \cup {j}
    /\ at' = [at EXCEPT ![j] = "loop"]
    /\ UNCHANGED <<inbox, started, job, restarts, play, open, strays>>

\* Faulty: the server is not woken.
EndsSilently(j) ==
    /\ at[j] = "ends"
    /\ open' = open \ {j}
    /\ started' = started \ {j}
    /\ job' = [job EXCEPT ![j] = "free"]
    /\ exits' = exits \ {j} /\ restarts' = restarts \ {j}
    /\ at' = [at EXCEPT ![j] = "none"] /\ play' = [play EXCEPT ![j] = "INITED"]
    /\ strays' = strays \ {j}
    /\ UNCHANGED <<status, server, inbox, overwritten>>

\* It closes its file; under the lock it leaves thread_start and clears its
\* slot; then it wakes the server.
Ends(j) ==
    /\ at[j] = "ends"
    /\ open' = open \ {j}
    /\ started' = started \ {j}
    /\ job' = [job EXCEPT ![j] = "free"]
    /\ exits' = exits \ {j} /\ restarts' = restarts \ {j}
    /\ at' = [at EXCEPT ![j] = "none"] /\ play' = [play EXCEPT ![j] = "INITED"]
    /\ strays' = strays \ {j}
    /\ inbox' = Posted(<<"other">>)
    /\ UNCHANGED <<status, server, overwritten>>

Thread(j) ==
    /\ Registers(j) \/ Rounds(j) \/ Over(j) \/ Ends(j)
    /\ UNCHANGED <<closed, target, ready, quit, told, outside, misled, haunted, excused, formatted>>

-----------------------------------------------------------------------------
(* The other servers. *)

\* A request from the cloud, the device server or the manager, which lists
\* the cloud as long as it is up.
Requests(m) ==
    /\ sends > 0 /\ Len(inbox) < MaxQueue /\ ~closed
    /\ m = <<"format">> => card = "mounted"
    /\ card' = IF m = <<"format">> THEN "asked" ELSE card
    /\ inbox' = Append(inbox, m)
    /\ sends' = sends - 1
    /\ UNCHANGED <<asked, reply, cloud>>

\* The device server looks whether the card is there.
Looks ==
    /\ asked /\ ~reply
    /\ IF card = "mounted"
       THEN reply' = TRUE /\ UNCHANGED inbox
       ELSE inbox' = Posted(<<"other">>) /\ UNCHANGED reply
    /\ asked' = FALSE
    /\ UNCHANGED <<card, cloud, sends>>

\* It says so, by when the SD thread may have asked for a format.  Bound: one
\* answer at a time is in the queue.
Answers ==
    /\ reply /\ <<"sd">> \notin Range(inbox)
    /\ inbox' = Posted(<<"sd">>)
    /\ reply' = FALSE
    /\ UNCHANGED <<card, asked, cloud, sends>>

\* The card has been formatted and is mounted again.
Formats ==
    /\ card = "released"
    /\ card' = "mounted"
    /\ UNCHANGED <<inbox, asked, reply, cloud, sends>>

\* The cloud's server has exited, and the manager says so.
CloudLeaves ==
    /\ cloud
    /\ cloud' = FALSE
    /\ inbox' = Posted(<<"quit">>)
    /\ UNCHANGED <<card, asked, reply, sends>>

Others ==
    /\ \/ \E m \in Requested \cup {<<"exit", cloud>>} : Requests(m)
       \/ Looks \/ Answers
       \/ Formats
       \/ CloudLeaves
    /\ UNCHANGED <<status, server, closed, target, ready, quit, started, told, slots, threads, history>>

Next == Server \/ (\E j \in Jobs : Thread(j)) \/ Others

\* The scheduler runs every thread.
Fairness ==
    /\ WF_vars(Server)
    /\ \A j \in Jobs : WF_vars(Thread(j))

Spec == Init /\ [][Next]_vars /\ Fairness

-----------------------------------------------------------------------------
(* Properties. *)

\* The variables stay in their types.
TypeOK ==
    /\ status \in Statuses
    /\ server \in {"work", "joins", "clears", "recv", "pass", "found", "leaves", "gone"}
    /\ inbox \in Seq(Messages) /\ closed \in BOOLEAN
    /\ target \in {<<>>} \cup ({"seek", "stop"} \X Jobs)
    /\ ready \in BOOLEAN /\ quit \in BOOLEAN
    /\ started \subseteq Jobs /\ told \subseteq Jobs
    /\ job \in [Jobs -> Channels \cup {"free"}]
    /\ exits \subseteq Jobs /\ restarts \subseteq Jobs
    /\ at \in [Jobs -> {"none", "created", "loop", "over", "ends"}]
    /\ play \in [Jobs -> {"INITED", "SYNC", "RUN", "OVER"}]
    /\ open \subseteq Jobs
    /\ card \in {"mounted", "asked", "released"} /\ asked \in BOOLEAN /\ reply \in BOOLEAN
    /\ cloud \in BOOLEAN /\ sends \in 0 .. MaxSends
    /\ strays \subseteq Jobs /\ haunted \subseteq Jobs /\ excused \subseteq Jobs
    /\ misled \in BOOLEAN /\ overwritten \in BOOLEAN /\ formatted \in BOOLEAN

\* A channel of the cloud is fed by one thread: a used slot has a thread and a
\* channel of its own, also while threads end, channels are asked for again
\* and slots change hands.  A slot that a seek has brought back after its
\* thread had left is the exception.
ChannelHasItsThread ==
    \A j \in {k \in Jobs : job[k] # "free"} \ haunted :
        /\ at[j] # "none"
        /\ \A k \in Jobs \ (haunted \cup {j}) : job[k] # job[j]

\* server_reinit and the exit answer for all playbacks: when the card is given
\* away for formatting, and when the manager has been told that the player is
\* gone, no file is open.  Named exceptions: a thread that had been created but
\* not entered when the server looked, for a slot asked for or sought again,
\* and a card taken for ready by a late answer.
PlaybackIsClosed ==
    /\ card = "released" => open \subseteq strays \/ misled
    /\ server = "gone" => open \subseteq strays

\* "player thread updated successful!": a request handed to a slot is taken by
\* its thread before that ends, also when the thread had been told to exit
\* before.  A thread past its last look, or told to exit since, is the
\* exception.
UpdateIsTaken ==
    [][\A j \in restarts : at[j] # "none" /\ at'[j] = "none" => j \in excused]_vars

\* A playback that is stopped ends, unless it is asked for again.
PlaybackEnds ==
    \A j \in Jobs : j \in exits /\ at[j] # "none" ~> at[j] = "none" \/ j \notin exits

\* A request to format the card is answered, however many threads play, unless
\* the server exits first or the end of a playback has overwritten the status.
ReinitAnswers == card = "asked" ~> card # "asked" \/ overwritten \/ server = "gone"

\* Once the cloud is gone an exiting player answers the manager, unless a
\* format or the end of a playback calls it back.
ExitAnswers ==
    status \in Exiting /\ ~cloud ~> server = "gone" \/ status \notin Exiting

\* PLAYER_EXIT_CONDITION: the player lets go of its resources after the cloud,
\* which has playbacks sent to it.  After a format the condition is gone with
\* the rest of info.
CloudGoesFirst ==
    status \in {"EXIT_STAGE1", "EXIT_THREAD", "EXIT_STAGE2", "EXIT_FINISH"} => ~cloud \/ formatted

\* What the properties above rest on.

\* The slots with a thread, or with a file that one has left open.
Live == open \cup {j \in Jobs : at[j] # "none"}

\* A thread past its entry is in thread_start, or was missed.
ThreadsAreEntered == open \cup {j \in Jobs : at[j] \in {"loop", "over", "ends"}} \subseteq started \cup strays

\* A server that has let go has no thread but those that it missed.
LetGo ==
    \/ server \in {"clears", "leaves", "gone"}
    \/ status \in {"EXIT_STAGE2", "EXIT_FINISH"}
LetGoOfThreads == LetGo => Live \subseteq strays

\* While the card is being formatted the server waits in INIT, or exits.
WaitsForCard ==
    /\ server \in {"joins", "clears"} => status \in {"INIT", "REINIT"}
    /\ card = "released" /\ ~misled =>
        /\ Live \subseteq strays
        /\ status \in {"INIT", "REINIT"} \cup Exiting
        /\ server = "clears" \/ ~ready

\* The cloud is struck off quit_status, by whatever message, only when it is
\* gone.
QuitMeansGone ==
    /\ ~quit => ~cloud \/ formatted \/ server = "gone"
    /\ \A k \in 1 .. Len(inbox) : inbox[k] \in {<<"quit">>, <<"exit", FALSE>>} => ~cloud

\* A slot whose thread is bound to leave has no update that is not excused.
UpdatesAreExcused ==
    /\ \A j \in restarts : j \in exits \cup told \/ at[j] \in {"over", "ends"} => j \in excused
    /\ server = "leaves" => restarts = {}
    /\ status = "EXIT_FINISH" => closed
    /\ closed => restarts = {} /\ inbox = <<>> /\ server # "found"

IInv ==
    /\ TypeOK
    /\ server = "found" => target # <<>>
    /\ ChannelHasItsThread
    /\ ThreadsAreEntered
    /\ LetGoOfThreads
    /\ WaitsForCard
    /\ QuitMeansGone
    /\ CloudGoesFirst
    /\ UpdatesAreExcused
=============================================================================
