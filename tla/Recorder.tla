-------------------------------- MODULE Recorder --------------------------------
(***************************************************************************)
(* The recorder server: its state machine, its message loop, and the       *)
(* detached threads that each write one recording to the card.  Server and *)
(* threads share two bit sets of info: thread_start (who runs) and         *)
(* thread_exit (who has been told to end).  The server joins its threads   *)
(* by polling thread_start; a thread enters itself there, under the lock   *)
(* ilock, only once it runs.  The device server formats the card when the  *)
(* recorder has answered MSG_DEVICE_SD_FORMAT_START.                       *)
(***************************************************************************)
EXTENDS Naturals, Sequences, FiniteSets, FiniteSetsExt, Functions

CONSTANTS MaxJobs,   \* MAX_RECORDER_JOB
          Modes,     \* the values of recorder_enable
          MaxSends,  \* bound: requests sent by other servers
          MaxQueue   \* bound: no further request is sent to a queue this long

ASSUME RecorderConstants ==
    /\ MaxJobs \in Nat \ {0} /\ MaxSends \in Nat /\ MaxQueue \in Nat
    /\ Modes \subseteq {"none", "alarm", "plan", "all"}

Jobs == 0 .. MaxJobs - 1
Exiting == {"EXIT_INIT", "EXIT_SERVER", "EXIT_STAGE1", "EXIT_THREAD", "EXIT_STAGE2", "EXIT_FINISH"}
Statuses == {"NONE", "INIT", "WAIT", "SETUP", "START", "RUN", "STOP", "REINIT"} \cup Exiting

VARIABLES
    status,   \* info.status
    server,   \* where the server's loop is
    inbox,    \* the message buffer
    mode,     \* _config_.recorder_enable
    planned,  \* info.status2: the plan job has been added
    ready,    \* info.init_status; knowing the time as well is left out
    started,  \* info.thread_start
    told,     \* info.thread_exit
    job,      \* the slots jobs[]: "free" or the type of the job
    at,       \* where each job's thread is
    ctrl,     \* the thread's own status, "EXIT" when run.exit is set or about to be
    copy,     \* what a thread that clears its bit of info.thread_exit has read
    open,     \* the jobs whose mp4 file is open
    card,     \* the card as the device server has it
    asked,    \* server_init's question whether there is a card waits for an answer
    reply,    \* the device server has found the card and is about to say so
    sends,    \* requests left to send (bound)
    strays,   \* history: threads on their way when the server let go of the card
    misled,   \* history: the server took the card for ready although it was not
    dropped,  \* history: a thread that had been told to end no longer is
    wiped,    \* history: threads that run without the bit they had in thread_start
    missed    \* history: threads that the exiting server sees but has not told

infoVars == <<status, planned, ready>>
threadVars == <<job, at, ctrl, copy, open>>
outside == <<card, asked, reply, sends>>
history == <<strays, misled, dropped, wiped, missed>>
vars == <<status, server, inbox, mode, planned, ready, started, told, job, at, ctrl,
          copy, open, card, asked, reply, sends, strays, misled, dropped, wiped, missed>>

LockFree == \A j \in Jobs : at[j] # "clears"

Free == {j \in Jobs : job[j] = "free"}

\* thread_exit without what some thread there is has been told.
TakesBack(bits) == \E j \in told \ bits : at[j] # "none"

\* Threads that a server cannot see when it lets go of its threads: they have
\* not entered themselves yet, or their bit has been wiped.
Unseen == {j \in Jobs : at[j] = "created"} \cup wiped

\* Every waiting thread is woken, finds no frame and goes round its loop.
Broadcast(places) == [j \in Jobs |-> IF places[j] = "waits" THEN "tests" ELSE places[j]]

Init ==
    /\ status = "NONE" /\ server = "work" /\ inbox = <<>>
    /\ mode \in Modes
    /\ planned = FALSE /\ ready = FALSE /\ started = {} /\ told = {}
    /\ job = [j \in Jobs |-> "free"]
    /\ at = [j \in Jobs |-> "none"]
    /\ ctrl = [j \in Jobs |-> "STARTED"]
    /\ copy = {} /\ open = {}
    /\ card = "mounted" /\ asked = FALSE /\ reply = FALSE /\ sends = MaxSends
    /\ strays = {} /\ misled = FALSE /\ dropped = FALSE /\ wiped = {} /\ missed = {}

-----------------------------------------------------------------------------
(* recorder_add_job, called with the lock free. *)

Allows(type) == mode = "all" \/ mode = type

\* A thread in the first free slot.
Creates(type) ==
    LET j == Min(Free) IN
    /\ job' = [job EXCEPT ![j] = type]
    /\ at' = [at EXCEPT ![j] = "created"]
    /\ told' = told \ {j}
    /\ UNCHANGED <<ctrl, copy, open>>

\* No slot, not wanted in this mode, or the thread cannot be created.
CreatesNone == UNCHANGED <<threadVars, told>>

AddJob(type) ==
    /\ LockFree
    /\ \/ Allows(type) /\ Free # {} /\ Creates(type)
       \/ CreatesNone

-----------------------------------------------------------------------------
(* One turn of server_func: state_machine and task_proc. *)

\* server_message_proc waits for a message only when the turn has left the
\* status as it was.
Then(new) ==
    /\ status' = new
    /\ server' = IF new = status THEN "recv" ELSE "pass"

NoneTurn ==
    /\ status = "NONE"
    /\ Then("INIT")
    /\ UNCHANGED <<planned, ready, started, told, threadVars, inbox, asked, history, card>>

\* server_init asks the device server for the card.
InitTurn ==
    /\ status = "INIT"
    /\ asked' = (asked \/ ~ready)
    /\ Then(IF ~ready THEN "INIT" ELSE IF mode = "none" THEN "WAIT" ELSE "SETUP")
    /\ UNCHANGED <<planned, ready, started, told, threadVars, inbox, history, card>>

WaitTurn ==
    /\ status = "WAIT"
    /\ Then(IF mode = "none" THEN "WAIT" ELSE "SETUP")
    /\ UNCHANGED <<planned, ready, started, told, threadVars, inbox, asked, history, card>>

\* STATUS_SETUP leads to STATUS_IDLE and, within the turn, to STATUS_START.
StartTurn ==
    /\ status \in {"SETUP", "START"}
    /\ Then(IF status = "SETUP" THEN "START" ELSE "RUN")
    /\ UNCHANGED <<planned, ready, started, told, threadVars, inbox, asked, history, card>>

\* The plan job counts as added whether or not a thread could be created; the
\* acknowledgement goes to the recorder itself.
RunTurn ==
    /\ status = "RUN"
    /\ IF ~planned /\ Allows("plan")
       THEN /\ AddJob("plan")
            /\ planned' = TRUE
            /\ inbox' = Append(inbox, "other")
       ELSE CreatesNone /\ UNCHANGED <<planned, inbox>>
    /\ Then("RUN")
    /\ UNCHANGED <<ready, started, asked, history, card>>

\* Faulty: only the threads that have entered themselves are told.
TellStarted ==
    /\ status \in {"STOP", "REINIT"}
    /\ told' = started
    /\ at' = Broadcast(at)
    /\ inbox' = Append(inbox, "other")
    /\ server' = "joins"
    /\ UNCHANGED <<infoVars, started, job, ctrl, copy, open, asked, history, card>>

\* server_stop and server_reinit tell every slot, wake the threads and poll.
TellTurn ==
    /\ status \in {"STOP", "REINIT"}
    /\ told' = Jobs
    /\ at' = Broadcast(at)
    /\ inbox' = Append(inbox, "other")
    /\ server' = "joins"
    /\ UNCHANGED <<infoVars, started, job, ctrl, copy, open, asked, history, card>>

\* The chain of EXIT_ states.  quit_status is empty from the beginning.
ExitTurn ==
    /\ status \in Exiting \ {"EXIT_THREAD", "EXIT_STAGE2", "EXIT_FINISH"}
    /\ Then(CASE status = "EXIT_INIT" -> "EXIT_SERVER"
              [] status = "EXIT_SERVER" -> "EXIT_STAGE1"
              [] status = "EXIT_STAGE1" -> "EXIT_THREAD")
    /\ at' = IF status = "EXIT_STAGE1" THEN Broadcast(at) ELSE at
    /\ UNCHANGED <<planned, ready, started, told, job, ctrl, copy, open, inbox, asked, history, card>>

\* EXIT_THREAD tells the threads that have entered themselves and wakes them.
ExitThreadTurn ==
    /\ status = "EXIT_THREAD"
    /\ told' = started
    /\ at' = Broadcast(at)
    /\ dropped' = (dropped \/ TakesBack(started))
    /\ missed' = {}
    /\ server' = "looks"
    /\ UNCHANGED <<infoVars, started, job, ctrl, copy, open, inbox, asked, strays, misled, wiped, card>>

\* server_release_2 gives the message buffer up.  It also clears the first
\* slot, which nobody looks at any more.
ReleaseTurn ==
    /\ status = "EXIT_STAGE2"
    /\ inbox' = <<>>
    /\ Then("EXIT_FINISH")
    /\ UNCHANGED <<planned, ready, started, told, threadVars, asked, history, card>>

\* info.exit is set and the loop left.
FinishTurn ==
    /\ status = "EXIT_FINISH"
    /\ server' = "leaves"
    /\ UNCHANGED <<infoVars, started, told, threadVars, inbox, asked, history, card>>

Turn ==
    /\ server = "work"
    /\ \/ NoneTurn \/ InitTurn \/ WaitTurn \/ StartTurn \/ RunTurn \/ TellTurn
       \/ ExitTurn \/ ExitThreadTurn \/ ReleaseTurn \/ FinishTurn
    /\ UNCHANGED <<mode, reply, sends>>

\* Faulty: it does not wait for the threads.
StoppedAtOnce ==
    /\ server = "joins" /\ status = "STOP"
    /\ planned' = FALSE
    /\ Then("START")
    /\ UNCHANGED <<ready, started, told, threadVars, inbox, mode, outside, history>>

\* The end of server_stop.
Stopped ==
    /\ server = "joins" /\ status = "STOP"
    /\ started = {}
    /\ planned' = FALSE
    /\ Then("START")
    /\ UNCHANGED <<ready, started, told, threadVars, inbox, mode, outside, history>>

\* EXIT_THREAD then looks whether there are any: it reads thread_start again.
LooksForThreads ==
    /\ server = "looks"
    /\ IF started = {}
       THEN Then("EXIT_STAGE2") /\ strays' = Unseen
       ELSE Then("EXIT_THREAD") /\ UNCHANGED strays
    /\ UNCHANGED <<planned, ready, started, told, threadVars, inbox, mode, outside,
                   misled, dropped, wiped, missed>>

\* Faulty: it does not wait for the threads.
JoinedAtOnce ==
    /\ server = "joins" /\ status = "REINIT"
    /\ status' = "NONE"
    /\ card' = IF card = "asked" THEN "released" ELSE card
    /\ server' = "clears"
    /\ strays' = Unseen
    /\ misled' = FALSE
    /\ UNCHANGED <<planned, ready, started, told, threadVars, inbox, mode, asked, reply,
                   sends, dropped, wiped, missed>>

\* The end of the poll of server_reinit: the device server is answered.
Joined ==
    /\ server = "joins" /\ status = "REINIT"
    /\ started = {}
    /\ status' = "NONE"
    /\ card' = IF card = "asked" THEN "released" ELSE card
    /\ server' = "clears"
    /\ strays' = Unseen
    /\ misled' = FALSE
    /\ UNCHANGED <<planned, ready, started, told, threadVars, inbox, mode, asked, reply,
                   sends, dropped, wiped, missed>>

\* The end of server_reinit: info is cleared, thread_start too, in which a
\* thread may have entered itself since the poll.
Clears ==
    /\ server = "clears"
    /\ planned' = FALSE /\ ready' = FALSE /\ started' = {} /\ told' = {}
    /\ wiped' = wiped \cup started
    /\ Then("INIT")
    /\ UNCHANGED <<threadVars, inbox, mode, outside, strays, misled, dropped, missed>>

\* server_release_3: info is cleared and the manager answered.
Leaves ==
    /\ server = "leaves"
    /\ server' = "gone"
    /\ planned' = FALSE /\ ready' = FALSE /\ started' = {} /\ told' = {}
    /\ UNCHANGED <<status, threadVars, inbox, mode, outside, history>>

-----------------------------------------------------------------------------
(* server_message_proc.  A message is named for what it asks or answers; a  *)
(* member of Modes is MSG_RECORDER_PROPERTY_SET with that value.  The       *)
(* filter of an exiting server stops none of them: all numbers are below    *)
(* 16 in their base or are answers, which it takes for system messages.     *)

Messages == Modes \cup {"add", "format", "exit", "sd", "other"}

\* MSG_RECORDER_ADD from the motion detection of the video server.
Adds ==
    /\ Head(inbox) = "add"
    /\ IF status = "RUN" THEN AddJob("alarm") ELSE CreatesNone
    /\ UNCHANGED <<status, planned, ready, mode, misled>>

\* recorder_set_property
SetsMode ==
    /\ Head(inbox) \in Modes
    /\ mode' = Head(inbox)
    /\ status' = CASE mode' = mode   -> status
                   [] mode' = "none" -> "STOP"
                   [] OTHER          -> "START"
    /\ misled' = (misled \/ (status' # status /\ ~ready))
    /\ UNCHANGED <<planned, ready, told, threadVars>>

\* Faulty: formatting is taken up by a running server only.
FormatsWhenRunning ==
    /\ Head(inbox) \in {"exit", "format"}
    /\ status' = CASE Head(inbox) = "exit" -> "EXIT_INIT"
                   [] status = "RUN"       -> "REINIT"
                   [] OTHER                -> status
    /\ UNCHANGED <<planned, ready, told, threadVars, mode, misled>>

\* MSG_MANAGER_EXIT and MSG_DEVICE_SD_FORMAT_START
ChangesStatus ==
    /\ Head(inbox) \in {"exit", "format"}
    /\ status' = IF Head(inbox) = "exit" THEN "EXIT_INIT" ELSE "REINIT"
    /\ UNCHANGED <<planned, ready, told, threadVars, mode, misled>>

\* The answer of the device server, and what only wakes the server.
Learns ==
    /\ Head(inbox) \in {"sd", "other"}
    /\ ready' = (ready \/ Head(inbox) = "sd")
    /\ misled' = (misled \/ (Head(inbox) = "sd" /\ card # "mounted"))
    /\ UNCHANGED <<status, planned, told, threadVars, mode>>

Receive ==
    /\ server \in {"recv", "pass"}
    /\ server' = "work"
    /\ \/ /\ inbox # <<>>
          /\ inbox' = Tail(inbox)
          /\ Adds \/ SetsMode \/ ChangesStatus \/ Learns
       \/ /\ inbox = <<>> /\ server = "pass"
          /\ UNCHANGED <<infoVars, inbox, mode, told, threadVars, misled>>
    /\ UNCHANGED <<started, outside, strays, dropped, wiped, missed>>

Server == Turn \/ LooksForThreads \/ Stopped \/ Joined \/ Clears \/ Leaves \/ Receive

-----------------------------------------------------------------------------
(* recorder_func, the thread of job j. *)

\* It enters itself into thread_start.
Registers(j) ==
    /\ at[j] = "created" /\ LockFree
    /\ started' = started \cup {j}
    /\ at' = [at EXCEPT ![j] = "tests"]
    /\ ctrl' = [ctrl EXCEPT ![j] = "STARTED"]
    /\ missed' = IF server = "looks" THEN missed \cup {j} ELSE missed
    /\ UNCHANGED <<told, job, copy, open, inbox, strays, wiped>>

\* Faulty: a thread looks only at its own run.exit.
TestsOwnExit(j) ==
    /\ at[j] = "tests"
    /\ at' = [at EXCEPT ![j] = IF server = "leaves" \/ ctrl[j] = "EXIT" THEN "ends" ELSE "acts"]
    /\ UNCHANGED <<started, told, job, ctrl, copy, open, inbox, strays, wiped, missed>>

\* The head of its loop.
Tests(j) ==
    /\ at[j] = "tests"
    /\ at' = [at EXCEPT ![j] =
                IF server = "leaves" \/ ctrl[j] = "EXIT" \/ j \in told THEN "ends" ELSE "acts"]
    /\ UNCHANGED <<started, told, job, ctrl, copy, open, inbox, strays, wiped, missed>>

\* recorder_thread_started: it is not time yet, the file is opened, or that
\* fails before or after MP4CreateEx and the thread will exit.
Opens(j) ==
    /\ at[j] = "acts" /\ ctrl[j] = "STARTED"
    /\ \/ UNCHANGED <<ctrl, open>>
       \/ ctrl' = [ctrl EXCEPT ![j] = "RUN"] /\ open' = open \cup {j}
       \/ ctrl' = [ctrl EXCEPT ![j] = "EXIT"] /\ open' \in {open, open \cup {j}}
    /\ at' = [at EXCEPT ![j] = "tests"]
    /\ UNCHANGED <<started, told, job, copy, inbox, strays, wiped, missed>>

\* recorder_thread_run finds no frame and waits for the next.
Waits(j) ==
    /\ at[j] = "acts" /\ ctrl[j] = "RUN"
    /\ at' = [at EXCEPT ![j] = "waits"]
    /\ UNCHANGED <<started, told, job, ctrl, copy, open, inbox, strays, wiped, missed>>

\* recorder_thread_run writes a frame, and closes the file when the time is
\* over or the picture has changed; then recorder_thread_pause starts a plan
\* again and lets any other job exit.
Writes(j) ==
    /\ at[j] = "waits" \/ (at[j] = "acts" /\ ctrl[j] = "RUN")
    /\ at' = [at EXCEPT ![j] = "tests"]
    /\ \/ UNCHANGED <<ctrl, open>>
       \/ /\ ctrl' = [ctrl EXCEPT ![j] = IF job[j] = "plan" THEN "STARTED" ELSE "EXIT"]
          /\ open' = open \ {j}
    /\ UNCHANGED <<started, told, job, copy, inbox, strays, wiped, missed>>

\* It takes the lock, closes its file, leaves thread_start, and reads
\* thread_exit to clear its bit.  Its own status is not looked at again.
Ends(j) ==
    /\ at[j] = "ends" /\ LockFree
    /\ open' = open \ {j}
    /\ started' = started \ {j}
    /\ copy' = told
    /\ at' = [at EXCEPT ![j] = "clears"]
    /\ ctrl' = [ctrl EXCEPT ![j] = "STARTED"]
    /\ wiped' = wiped \ {j} /\ missed' = missed \ {j}
    /\ UNCHANGED <<told, job, inbox, strays>>

\* Faulty: the server is not woken.
FreesSilently(j) ==
    /\ at[j] = "clears"
    /\ told' = copy \ {j}
    /\ copy' = {}
    /\ job' = [job EXCEPT ![j] = "free"]
    /\ at' = [at EXCEPT ![j] = "none"]
    /\ strays' = strays \ {j}
    /\ UNCHANGED <<started, ctrl, open, inbox, wiped, missed>>

\* It writes thread_exit back, gives its slot and the lock up, and wakes the
\* server, which does not take that lock to tell threads to end.
Frees(j) ==
    /\ at[j] = "clears"
    /\ told' = copy \ {j}
    /\ copy' = {}
    /\ job' = [job EXCEPT ![j] = "free"]
    /\ at' = [at EXCEPT ![j] = "none"]
    /\ inbox' = IF status = "EXIT_FINISH" THEN inbox ELSE Append(inbox, "other")
    /\ strays' = strays \ {j}
    /\ UNCHANGED <<started, ctrl, open, wiped, missed>>

Thread(j) ==
    /\ \/ Registers(j) \/ Tests(j) \/ Opens(j) \/ Waits(j) \/ Writes(j)
       \/ Ends(j) \/ Frees(j)
    /\ dropped' = (dropped \/ (at[j] = "clears" /\ TakesBack(copy \cup {j})))
    /\ UNCHANGED <<infoVars, server, mode, outside, misled>>

-----------------------------------------------------------------------------
(* The other servers. *)

\* A request from the video server, the cloud or the manager.
Requests(m) ==
    /\ sends > 0 /\ Len(inbox) < MaxQueue /\ status # "EXIT_FINISH"
    /\ m = "format" => card = "mounted"
    /\ card' = IF m = "format" THEN "asked" ELSE card
    /\ inbox' = Append(inbox, m)
    /\ sends' = sends - 1
    /\ UNCHANGED <<asked, reply>>

\* The device server looks whether the card is there.
Looks ==
    /\ asked /\ ~reply /\ status # "EXIT_FINISH"
    /\ IF card = "mounted"
       THEN reply' = TRUE /\ UNCHANGED inbox
       ELSE inbox' = Append(inbox, "other") /\ UNCHANGED reply
    /\ asked' = FALSE
    /\ UNCHANGED <<card, sends>>

\* It says so, by when the SD thread may have asked for a format.  Bound: one
\* answer at a time is in the queue.
Answers ==
    /\ reply /\ status # "EXIT_FINISH"
    /\ "sd" \notin Range(inbox)
    /\ inbox' = Append(inbox, "sd")
    /\ reply' = FALSE
    /\ UNCHANGED <<card, asked, sends>>

\* The card has been formatted and is mounted again.
Formats ==
    /\ card = "released"
    /\ card' = "mounted"
    /\ UNCHANGED <<inbox, asked, reply, sends>>

Others ==
    /\ \/ \E m \in Modes \cup {"add", "format", "exit"} : Requests(m)
       \/ Looks \/ Answers
       \/ Formats
    /\ UNCHANGED <<infoVars, server, mode, started, told, threadVars, history>>

Next == Server \/ (\E j \in Jobs : Thread(j)) \/ Others

\* The scheduler runs every thread, and the camera goes on to deliver frames
\* to a job whose stream has been started.
Fairness ==
    /\ WF_vars(Server)
    /\ \A j \in Jobs : WF_vars(Thread(j))

Spec == Init /\ [][Next]_vars /\ Fairness

-----------------------------------------------------------------------------
(* Properties. *)

\* The variables stay in their types, and the threads that hold a file, a bit
\* of thread_start or the lock are threads that exist.
TypeOK ==
    /\ status \in Statuses
    /\ server \in {"work", "joins", "clears", "looks", "recv", "pass", "leaves", "gone"}
    /\ inbox \in Seq(Messages)
    /\ mode \in Modes /\ planned \in BOOLEAN /\ ready \in BOOLEAN
    /\ started \subseteq Jobs /\ told \subseteq Jobs /\ copy \subseteq Jobs /\ open \subseteq Jobs
    /\ job \in [Jobs -> {"free", "plan", "alarm"}]
    /\ at \in [Jobs -> {"none", "created", "tests", "acts", "waits", "ends", "clears"}]
    /\ ctrl \in [Jobs -> {"STARTED", "RUN", "EXIT"}]
    /\ card \in {"mounted", "asked", "released"} /\ asked \in BOOLEAN /\ reply \in BOOLEAN
    /\ sends \in 0 .. MaxSends
    /\ strays \subseteq Jobs /\ misled \in BOOLEAN /\ dropped \in BOOLEAN
    /\ wiped \subseteq Jobs /\ missed \subseteq Jobs

\* server_reinit and the exit answer for all recordings: when the card is
\* given away for formatting, and when the manager has been told that the
\* recorder is gone, no file is open.  Two ways past this are named: a thread
\* that the server could not see when it looked, because it had not entered
\* itself or had its bit wiped, and a server that takes the card for ready by
\* a late answer or a change of the mode.
CardIsReleased ==
    /\ card = "released" => open \subseteq strays \/ misled
    /\ server = "gone" => open \subseteq strays

\* info.status2 keeps the recorder from running its plan twice: through
\* stops, changes of the mode and formatting, one plan job at most has a file,
\* not counting threads that the server could not see when it let go of them.
OnePlanIsWritten ==
    Cardinality({j \in open \ strays : job[j] = "plan"}) > 1 => dropped

\* The recording switch: once a server with the switch off is in its running
\* state again, nothing is recorded, also not by a thread that had not entered
\* itself when server_stop looked; only by one whose bit has been wiped.
OffMeansOff ==
    mode = "none" /\ status \in {"START", "RUN"} => open \subseteq wiped \/ dropped

\* "possible dead lock here", says the loop in which the server waits for its
\* threads: it ends, except when a thread that clears its own bit overwrites
\* what another has been told.
StopEnds == server = "joins" ~> server # "joins" \/ dropped

\* A request to format the card is answered, whatever else is in the queue,
\* unless the recorder exits first.
FormatIsAnswered == card = "asked" ~> card # "asked" \/ dropped \/ server = "gone"

\* An exiting server sees all its threads end and answers the manager, unless
\* a change of the mode or a formatting calls it back.  It may sleep beside a
\* thread that entered itself after the server had told the others and before
\* it looked: a job sends no dummy message when it enters itself.
ExitEnds ==
    status = "EXIT_INIT" ~> server = "gone" \/ status \notin Exiting \/ missed # {}

\* What the properties above rest on.

\* The threads that may still write, and those that are entered.
Entered == {j \in Jobs : at[j] \in {"tests", "acts", "waits", "ends"}}
Live == Entered \cup {j \in Jobs : at[j] = "created"}

\* A thread has a slot; a file belongs to a thread in its loop, and that is in
\* thread_start unless its bit has been wiped, which happens to strays only.
FilesHaveThreads ==
    /\ \A j \in Jobs : job[j] = "free" => at[j] = "none"
    /\ open \subseteq Entered
    /\ started \cup wiped \subseteq Entered
    /\ wiped \subseteq strays
    /\ server # "gone" => Entered \subseteq started \cup wiped

\* A server that has let go has no thread but those that it missed, and hears
\* nothing any more.
LetGoOfThreads ==
    /\ status \in {"EXIT_STAGE2", "EXIT_FINISH"} \/ server = "clears" => Live \subseteq strays
    /\ status = "EXIT_FINISH" => inbox = <<>>
    /\ server \in {"leaves", "gone"} => status = "EXIT_FINISH"
    /\ server = "looks" => status = "EXIT_THREAD"
    /\ server = "clears" => status = "NONE"

\* While the card is being formatted the server waits in INIT, or exits.
WaitsForCard ==
    card = "released" /\ ~misled =>
        /\ Live \subseteq strays
        /\ ready => server = "clears"
        /\ status \in {"NONE", "INIT", "REINIT"} \cup Exiting

\* A server that joins its threads has told all of them.
AllAreTold == server = "joins" /\ ~dropped => Live \subseteq told

\* A server with the switch off runs only with threads that find themselves
\* told when they look.
OffThreadsAreTold ==
    /\ status = "SETUP" => mode # "none"
    /\ mode = "none" /\ status \in {"START", "RUN"} /\ ~dropped =>
        /\ Live \subseteq told /\ open \subseteq wiped
        /\ \A j \in Jobs \ wiped : at[j] \notin {"acts", "waits"}

\* The plan's threads that may write: not one that was told before it opened
\* its file and has to look first.
Planning ==
    {j \in Live \ strays : job[j] = "plan" /\ (j \in told => j \in open \/ at[j] \in {"acts", "waits"})}

\* info.status2 is set as long as there is one.
PlanIsPlanned ==
    ~dropped => (\A i, j \in Planning : i = j) /\ (Planning # {} => planned)

IInv ==
    /\ TypeOK
    /\ FilesHaveThreads
    /\ LetGoOfThreads
    /\ WaitsForCard
    /\ AllAreTold
    /\ OffThreadsAreTold
    /\ PlanIsPlanned
=============================================================================
