------------------------------- MODULE SdCard -------------------------------
(***************************************************************************)
(* The memory card. Four parties share it without a lock:                  *)
(*   - the SD thread of the device server runs sd_proc, whose switch acts  *)
(*     on sd_card_status and later writes it;                              *)
(*   - the cloud client calls sd_format and sd_unmount, which overwrite    *)
(*     the status and tell recorder and player to let go of the card;      *)
(*   - recorder and player (the workers) stop their job threads,           *)
(*     reinitialise, answer through sd_set_response, and then ask the      *)
(*     device server until it says that the card is ready again;           *)
(*   - the hotplug thread hears from the kernel of a card put in or out.   *)
(* Files are open as long as a worker has a job thread running. A worker   *)
(* asks anew whenever its loop comes round, which any message makes it do, *)
(* and the buffers overrun: the oldest message in a full one is dropped.   *)
(***************************************************************************)
EXTENDS Integers, Sequences, FiniteSets, Functions

CONSTANTS
  Workers,       \* SERVER_RECORDER and SERVER_PLAYER
  MaxRequests,   \* bound: requests of the cloud to format or to eject
  MaxMishaps,    \* bound: how often the card is put in or taken out, a
                 \* mount, umount or popen fails, or others send a message
  Capacity       \* messages that a buffer holds

ASSUME SdCardAssumption ==
  /\ IsFiniteSet(Workers)
  /\ MaxRequests \in Nat
  /\ MaxMishaps \in Nat
  /\ Capacity \in Nat \ {0}

VARIABLES
  card,        \* sd_card_status
  turn,        \* the SD thread within sd_proc: "idle", the status it is about
               \* to write, or what it is about to do
  answered,    \* format_status
  initWait,    \* init_wait
  mounted,     \* /proc/mounts has the mount path
  present,     \* a card is in the slot
  uevents,     \* kernel events the hotplug thread has not read
  toTell,      \* workers the cloud client has yet to send SD_FORMAT_START
  questions,   \* the device server's buffer: workers that sent GET_PARA
  reply,       \* the answer the device server is about to send
  inbox,       \* the buffers of the workers
  phase,       \* info.status of a worker: "init" up to STATUS_WAIT, "run",
               \* "reinit", "joins" while it waits for thread_start to be 0,
               \* or "answered" before its memset of info
  ready,       \* workers whose init_status has the SD bit
  asked,       \* workers in STATUS_INIT whose turn is at the buffer, asleep
               \* as long as that is empty
  thread,      \* a worker's job thread: "open" while it is registered in
               \* thread_start, "ghost" if memset has wiped its bit
  requests, mishaps,   \* how often so far
  overlapped,  \* a request hit sd_proc or an earlier request half way
  excused,     \* workers that have been misled: see CardIsLeftAlone
  lost,        \* workers whose SD_FORMAT_START a full buffer dropped
  unheard      \* workers whose last question a full buffer dropped, until
               \* they take a message

sdVars == <<card, turn, answered, initWait, mounted>>
cardVars == <<present, uevents>>
cloudVars == <<toTell, requests, overlapped>>
deviceVars == <<questions, reply>>
boxVars == <<inbox, lost>>
loopVars == <<phase, ready, asked, thread, excused, unheard>>
workerVars == <<boxVars, loopVars>>
vars == <<sdVars, cardVars, cloudVars, deviceVars, workerVars, mishaps>>

Status == {"NULL", "PLUGIN", "FORMAT", "FORMATING", "FORMAT_SUCCESS", "MOUNT",
           "UNMOUNT", "UNMOUNTING", "UNMOUNT_SUCCESS"}

(* What a worker receives; "ok" and "no" are MSG_DEVICE_GET_PARA_ACK with  *)
(* arg_in.dog 1 and 0, "other" is one that only makes its loop go round.   *)
Message == {"FORMAT_START", "ok", "no", "other"}

NoReply == [to |-> {}, says |-> "no"]

Init ==
  /\ card = "NULL"
  /\ turn = "idle"
  /\ answered = {}
  /\ initWait = FALSE
  /\ mounted = FALSE
  /\ present \in BOOLEAN
  /\ uevents = <<>>
  /\ toTell = {}
  /\ questions = <<>>
  /\ reply = NoReply
  /\ inbox = [w \in Workers |-> <<>>]
  /\ phase = [w \in Workers |-> "init"]
  /\ ready = {}
  /\ asked = {}
  /\ thread = [w \in Workers |-> "none"]
  /\ requests = 0 /\ mishaps = 0
  /\ overlapped = FALSE
  /\ excused = {} /\ lost = {} /\ unheard = {}

(* Something happens that need not.                                        *)
Mishap ==
  /\ mishaps < MaxMishaps
  /\ mishaps' = mishaps + 1

Using == {w \in Workers : thread[w] \in {"open", "ghost"}}

(* msg_buffer_push with MSG_BUFFER_OVERFLOW_YES                            *)
Push(q, m) == IF Len(q) = Capacity THEN Append(Tail(q), m) ELSE Append(q, m)

(* A message for some of the workers; what their buffers drop for it.      *)
Deliver(ws, m) ==
  /\ inbox' = [w \in Workers |-> IF w \in ws THEN Push(inbox[w], m) ELSE inbox[w]]
  /\ lost' = lost \cup {w \in ws : /\ Len(inbox[w]) = Capacity
                                   /\ Head(inbox[w]) = "FORMAT_START"}

-----------------------------------------------------------------------------
(* The SD thread. A turn of sd_proc reads the status in its switch and,    *)
(* when it has something to do, writes it in a later step.                 *)
SdTurn(from, to) ==
  /\ turn = "idle"
  /\ card \in from
  /\ turn' = to
  /\ UNCHANGED <<card, initWait>>

(* E_SDCARD_STATUS_NULL                                                    *)
SdLooks ==
  /\ ~initWait
  /\ SdTurn({"NULL"}, IF present THEN "PLUGIN" ELSE "wait")
  /\ UNCHANGED <<answered, mounted, mishaps>>

(* E_SDCARD_STATUS_PLUGIN and E_SDCARD_STATUS_FORMAT_SUCCESS               *)
SdMounts ==
  /\ mounted \/ present
  /\ SdTurn({"PLUGIN", "FORMAT_SUCCESS"}, "MOUNT")
  /\ mounted' = TRUE
  /\ UNCHANGED <<answered, mishaps>>

(* The card is not formatted, or cannot be read: the status stays.         *)
SdCannotMount ==
  /\ ~mounted
  /\ SdTurn({"PLUGIN", "FORMAT_SUCCESS"}, "idle")
  /\ Mishap
  /\ UNCHANGED <<answered, mounted>>

(* E_SDCARD_STATUS_FORMAT and E_SDCARD_STATUS_UNMOUNT                      *)
SdAgrees ==
  /\ answered = Workers
  /\ \/ SdTurn({"FORMAT"}, "FORMATING")
     \/ SdTurn({"UNMOUNT"}, "UNMOUNTING")
  /\ UNCHANGED <<answered, mounted, mishaps>>

(* E_SDCARD_STATUS_FORMATING and E_SDCARD_STATUS_UNMOUNTING, up to umount  *)
SdClears ==
  /\ SdTurn({"FORMATING"}, "umount") \/ SdTurn({"UNMOUNTING"}, "eject")
  /\ answered' = {}
  /\ UNCHANGED <<mounted, mishaps>>

(* umount fails while files are open; sd_proc comes back to it.            *)
SdUnmounts ==
  /\ turn \in {"umount", "eject"}
  /\ \/ /\ mounted => Using = {}
        /\ mounted' = FALSE
        /\ turn' = IF turn = "umount" THEN "mkfs" ELSE "UNMOUNT_SUCCESS"
        /\ UNCHANGED mishaps
     \/ /\ mounted
        /\ turn' = "idle"
        /\ UNCHANGED mounted
        /\ (Using # {} /\ UNCHANGED mishaps) \/ Mishap
  /\ UNCHANGED <<card, answered, initWait>>

(* mkfs.vfat; exec_t does not tell whether it succeeded, only popen can    *)
(* fail. A card taken out has no device node any more.                     *)
SdFormats ==
  /\ turn = "mkfs"
  /\ \/ turn' = (IF present THEN "FORMAT_SUCCESS" ELSE "NULL") /\ UNCHANGED mishaps
     \/ present /\ Mishap /\ turn' = "idle"
  /\ UNCHANGED <<card, answered, initWait, mounted>>

(* E_SDCARD_STATUS_UNMOUNT_SUCCESS                                         *)
SdEjected ==
  /\ turn = "idle"
  /\ card = "UNMOUNT_SUCCESS"
  /\ card' = "NULL"
  /\ turn' = "wait"
  /\ UNCHANGED <<answered, initWait, mounted, mishaps>>

SdWaits ==
  /\ turn = "wait"
  /\ initWait' = TRUE
  /\ turn' = "idle"
  /\ UNCHANGED <<card, answered, mounted, mishaps>>

(* The write, whatever the status has become since the switch.             *)
SdWrites ==
  /\ turn \in Status
  /\ card' = turn
  /\ turn' = IF turn = "MOUNT" THEN "list" ELSE "idle"
  /\ UNCHANGED <<answered, initWait, mounted, mishaps>>

(* The status has changed to E_SDCARD_STATUS_MOUNT: the file list is read, *)
(* see FileList. That never fails, so that file_init is -1 before and 1    *)
(* afterwards, which both count as true.                                   *)
SdReadsList ==
  /\ turn = "list"
  /\ turn' = "idle"
  /\ UNCHANGED <<card, answered, initWait, mounted, mishaps>>

SdStep ==
  /\ \/ SdLooks \/ SdMounts \/ SdCannotMount \/ SdAgrees \/ SdClears \/ SdUnmounts
     \/ SdFormats \/ SdEjected \/ SdWaits \/ SdWrites \/ SdReadsList
  /\ UNCHANGED <<cardVars, cloudVars, deviceVars, workerVars>>

-----------------------------------------------------------------------------
(* The card is put in or taken out; the kernel reports it.                 *)
Plug ==
  /\ Mishap
  /\ present' = ~present
  /\ uevents' = Append(uevents, IF present THEN "remove" ELSE "add")
  /\ UNCHANGED <<sdVars, cloudVars, deviceVars, workerVars>>

(* update_hotplug_event, on the hotplug thread                             *)
Hotplug ==
  /\ uevents # <<>>
  /\ uevents' = Tail(uevents)
  /\ initWait' = (Head(uevents) = "remove")
  /\ UNCHANGED <<card, turn, answered, mounted, present, cloudVars,
                 deviceVars, workerVars, mishaps>>

-----------------------------------------------------------------------------
Busy == {"FORMAT", "FORMATING", "UNMOUNT", "UNMOUNTING", "UNMOUNT_SUCCESS"}

(* The cloud client overwrites the status, then sends SD_FORMAT_START.     *)
Request(status) ==
  /\ toTell = {}
  /\ requests < MaxRequests
  /\ requests' = requests + 1
  /\ overlapped' = (overlapped \/ card \in Busy \/ turn \notin {"idle", "list"})
  /\ card' = status
  /\ toTell' = Workers
  /\ UNCHANGED <<turn, answered, initWait, mounted, cardVars, deviceVars,
                 workerVars, mishaps>>

(* sd_format                                                               *)
Format == card # "NULL" /\ Request("FORMAT")

(* sd_unmount                                                              *)
Unmount == card = "MOUNT" /\ Request("UNMOUNT")

Tell(w) ==
  /\ w \in toTell
  /\ toTell' = toTell \ {w}
  /\ Deliver({w}, "FORMAT_START")
  /\ UNCHANGED <<sdVars, cardVars, requests, overlapped, deviceVars, loopVars, mishaps>>

-----------------------------------------------------------------------------
(* MSG_DEVICE_GET_PARA: the device server looks at the status; file_init,  *)
(* which it looks at too, is always true.                                  *)
DeviceLooks ==
  /\ questions # <<>>
  /\ reply = NoReply
  /\ reply' = [to |-> {Head(questions)},
               says |-> IF card = "MOUNT" THEN "ok" ELSE "no"]
  /\ questions' = Tail(questions)
  /\ UNCHANGED <<sdVars, cardVars, cloudVars, workerVars, mishaps>>

(* Faulty: an answer only if the card is ready.                            *)
DeviceRepliesGood ==
  /\ reply # NoReply
  /\ reply' = NoReply
  /\ Deliver(IF reply.says = "ok" THEN reply.to ELSE {}, reply.says)
  /\ UNCHANGED <<sdVars, cardVars, cloudVars, questions, loopVars, mishaps>>

DeviceReplies ==
  /\ reply # NoReply
  /\ reply' = NoReply
  /\ Deliver(reply.to, reply.says)
  /\ UNCHANGED <<sdVars, cardVars, cloudVars, questions, loopVars, mishaps>>

-----------------------------------------------------------------------------
workerEnv == <<sdVars, cardVars, cloudVars, mishaps>>

(* Another message for a worker: the time, a request, a dummy that a job   *)
(* thread sends late.                                                      *)
Others(w) ==
  /\ Mishap
  /\ Deliver({w}, "other")
  /\ UNCHANGED <<sdVars, cardVars, cloudVars, deviceVars, loopVars>>

(* server_init, in every turn without the SD bit                           *)
WorkerAsks(w) ==
  /\ phase[w] = "init"
  /\ w \notin ready \cup asked
  /\ asked' = asked \cup {w}
  /\ questions' = Push(questions, w)
  /\ unheard' = unheard \cup (Range(questions) \ Range(questions'))
  /\ UNCHANGED <<workerEnv, reply, boxVars, phase, ready, thread, excused>>

(* STATUS_INIT to STATUS_RUN; the time is taken to be synchronised.        *)
WorkerStarts(w) ==
  /\ phase[w] = "init"
  /\ w \in ready
  /\ phase' = [phase EXCEPT ![w] = "run"]
  /\ asked' = asked \ {w}
  /\ UNCHANGED <<workerEnv, deviceVars, boxVars, ready, thread, excused, unheard>>

(* Faulty: only a good answer makes the loop go round.                     *)
WorkerHearsGood(w) ==
  /\ phase[w] = "run" \/ (phase[w] = "init" /\ w \in asked)
  /\ inbox[w] # <<>>
  /\ inbox' = [inbox EXCEPT ![w] = Tail(@)]
  /\ unheard' = unheard \ {w}
  /\ LET m == Head(inbox[w])
     IN  /\ phase' = IF m = "FORMAT_START" THEN [phase EXCEPT ![w] = "reinit"] ELSE phase
         /\ ready' = IF m = "ok" THEN ready \cup {w} ELSE ready
         /\ asked' = IF m = "ok" THEN asked \ {w} ELSE asked
         /\ excused' = IF m = "ok" /\ card # "MOUNT" THEN excused \cup {w} ELSE excused
  /\ UNCHANGED <<workerEnv, deviceVars, lost, thread>>

(* server_message_proc takes one message, whatever it is, and the loop     *)
(* goes round.                                                             *)
WorkerHears(w) ==
  /\ phase[w] = "run" \/ (phase[w] = "init" /\ w \in asked)
  /\ inbox[w] # <<>>
  /\ inbox' = [inbox EXCEPT ![w] = Tail(@)]
  /\ asked' = asked \ {w}
  /\ unheard' = unheard \ {w}
  /\ LET m == Head(inbox[w])
     IN  /\ phase' = IF m = "FORMAT_START" THEN [phase EXCEPT ![w] = "reinit"] ELSE phase
         /\ ready' = IF m = "ok" THEN ready \cup {w} ELSE ready
         /\ excused' = IF m = "ok" /\ card # "MOUNT" THEN excused \cup {w} ELSE excused
  /\ UNCHANGED <<workerEnv, deviceVars, lost, thread>>

(* server_reinit tells its threads to end, and sends itself a dummy that   *)
(* it will find in its buffer once it is in STATUS_INIT.                   *)
WorkerTells(w) ==
  /\ phase[w] = "reinit"
  /\ phase' = [phase EXCEPT ![w] = "joins"]
  /\ Deliver({w}, "other")
  /\ UNCHANGED <<workerEnv, deviceVars, ready, asked, thread, excused, unheard>>

(* Faulty: sd_set_response knows nothing of E_SDCARD_STATUS_UNMOUNT.       *)
SetResponseFormatOnly(w) == IF card = "FORMAT" THEN answered \cup {w} ELSE answered

(* sd_set_response                                                         *)
SetResponse(w) == IF card \in {"FORMAT", "UNMOUNT"} THEN answered \cup {w} ELSE answered

(* server_reinit, once no job thread is registered; one that has been      *)
(* created but not scheduled yet escapes.                                  *)
WorkerAnswers(w) ==
  /\ phase[w] = "joins"
  /\ thread[w] # "open"
  /\ phase' = [phase EXCEPT ![w] = "answered"]
  /\ answered' = SetResponse(w)
  /\ excused' = IF thread[w] = "none" THEN excused \ {w} ELSE excused \cup {w}
  /\ UNCHANGED <<card, turn, initWait, mounted, cardVars, cloudVars, deviceVars,
                 boxVars, ready, asked, thread, unheard, mishaps>>

(* Faulty: init_status survives the reinitialisation.                      *)
WorkerResetsStatus(w) ==
  /\ phase[w] = "answered"
  /\ phase' = [phase EXCEPT ![w] = "init"]
  /\ asked' = IF inbox[w] = <<>> THEN asked \ {w} ELSE asked \cup {w}
  /\ thread' = [thread EXCEPT ![w] = IF @ = "open" THEN "ghost" ELSE @]
  /\ UNCHANGED <<workerEnv, deviceVars, boxVars, ready, excused, unheard>>

(* memset( &info, 0, sizeof( info ) ), after which the turn goes on to the *)
(* buffer; it does not sleep there.                                        *)
WorkerResets(w) ==
  /\ phase[w] = "answered"
  /\ phase' = [phase EXCEPT ![w] = "init"]
  /\ ready' = ready \ {w}
  /\ asked' = IF inbox[w] = <<>> THEN asked \ {w} ELSE asked \cup {w}
  /\ thread' = [thread EXCEPT ![w] = IF @ = "open" THEN "ghost" ELSE @]
  /\ UNCHANGED <<workerEnv, deviceVars, boxVars, excused, unheard>>

(* A job is added in STATUS_RUN.                                           *)
JobCreated(w) ==
  /\ phase[w] = "run"
  /\ thread[w] = "none"
  /\ thread' = [thread EXCEPT ![w] = "created"]
  /\ UNCHANGED <<workerEnv, deviceVars, boxVars, phase, ready, asked, excused, unheard>>

JobRuns(w) ==
  /\ thread[w] = "created"
  /\ thread' = [thread EXCEPT ![w] = "open"]
  /\ UNCHANGED <<workerEnv, deviceVars, boxVars, phase, ready, asked, excused, unheard>>

(* The thread leaves, and sends its server a dummy.                        *)
JobEnds(w) ==
  /\ w \in Using
  /\ thread' = [thread EXCEPT ![w] = "none"]
  /\ Deliver({w}, "other")
  /\ UNCHANGED <<workerEnv, deviceVars, phase, ready, asked, excused, unheard>>

WorkerStep(w) ==
  \/ WorkerAsks(w) \/ WorkerStarts(w) \/ WorkerHears(w) \/ WorkerTells(w)
  \/ WorkerAnswers(w) \/ WorkerResets(w)

(* A registered thread ends when server_reinit has told it to.             *)
JobObeys(w) == phase[w] = "joins" /\ JobEnds(w)

-----------------------------------------------------------------------------
Next ==
  \/ SdStep \/ Plug \/ Hotplug \/ Format \/ Unmount \/ DeviceLooks \/ DeviceReplies
  \/ \E w \in Workers : \/ Tell(w) \/ Others(w) \/ WorkerStep(w)
                        \/ JobCreated(w) \/ JobRuns(w) \/ JobEnds(w)

(* Every thread is scheduled; jobs need not end by themselves.             *)
Fairness ==
  /\ WF_vars(SdStep) /\ WF_vars(Hotplug)
  /\ WF_vars(DeviceLooks) /\ WF_vars(DeviceReplies)
  /\ \A w \in Workers : /\ WF_vars(Tell(w)) /\ WF_vars(WorkerStep(w))
                        /\ WF_vars(JobRuns(w)) /\ WF_vars(JobObeys(w))

Spec == Init /\ [][Next]_vars /\ Fairness

-----------------------------------------------------------------------------
Phase == {"init", "run", "reinit", "joins", "answered"}

(* Type correctness.                                                       *)
TypeOK ==
  /\ card \in Status
  /\ turn \in Status \cup {"idle", "list", "wait", "umount", "eject", "mkfs"}
  /\ answered \subseteq Workers
  /\ initWait \in BOOLEAN /\ mounted \in BOOLEAN /\ present \in BOOLEAN
  /\ uevents \in Seq({"add", "remove"})
  /\ toTell \subseteq Workers
  /\ questions \in Seq(Workers)
  /\ reply.to \subseteq Workers /\ reply.says \in {"ok", "no"}
  /\ inbox \in [Workers -> Seq(Message)]
  /\ phase \in [Workers -> Phase]
  /\ ready \subseteq Workers /\ asked \subseteq Workers
  /\ thread \in [Workers -> {"none", "created", "open", "ghost"}]
  /\ requests \in 0 .. MaxRequests /\ mishaps \in 0 .. MaxMishaps
  /\ overlapped \in BOOLEAN
  /\ excused \subseteq Workers /\ lost \subseteq Workers /\ unheard \subseteq Workers

(* A worker in STATUS_INIT sleeps only while an answer is due: its question *)
(* waits for the device server, or that is about to reply. An answer that  *)
(* the card is not ready, a dummy, the memset in between, a second format  *)
(* and full buffers leave no worker asleep for good, unless the questions  *)
(* of the others pushed its last one out.                                  *)
SleepersAreAnswered ==
  \A w \in Workers :
    phase[w] = "init" /\ w \in asked /\ inbox[w] = <<>>
      => w \in Range(questions) \cup reply.to \cup unheard

(* While the card is being unmounted or formatted no worker has files open *)
(* on it, unless requests overlapped, or the worker was misled: by an      *)
(* answer the device server looked up before the request and delivered     *)
(* behind SD_FORMAT_START, or by a job thread that was created but had not *)
(* set its bit when server_reinit waited for thread_start to become 0.     *)
CardIsLeftAlone ==
  card \in {"FORMATING", "UNMOUNTING"} /\ ~overlapped => Using \subseteq excused

(* The order to a worker to let go of the card: there is none on its way,  *)
(* or there is one, in one place.                                          *)
Orders(q) == {i \in 1 .. Len(q) : q[i] = "FORMAT_START"}

Reinits(w) == phase[w] \in {"reinit", "joins"}

NoOrder(w) == w \notin toTell /\ Orders(inbox[w]) = {} /\ ~Reinits(w)

OneOrder(w) ==
  \/ w \in toTell /\ Orders(inbox[w]) = {} /\ ~Reinits(w)
  \/ w \notin toTell /\ ~Reinits(w) /\ \E i \in Nat : Orders(inbox[w]) = {i}
  \/ w \notin toTell /\ Orders(inbox[w]) = {} /\ Reinits(w)

(* The order is still to be obeyed, or a full buffer dropped it.           *)
Ordered(w) == OneOrder(w) \/ (w \in lost /\ NoOrder(w))

(* A worker that cannot come to open a file, unless it is misled.          *)
Quiet(w) ==
  \/ w \in excused
  \/ /\ thread[w] = "none"
     /\ phase[w] = "answered" \/ (phase[w] = "init" /\ w \notin ready)

Asked == card \in {"FORMAT", "UNMOUNT"}
Obeyed == card \in {"FORMATING", "UNMOUNTING"}

(* What the SD thread can be about while nobody else writes the status.    *)
TurnFits ==
  \/ turn = "idle"
  \/ turn \in {"PLUGIN", "wait"} /\ card = "NULL"
  \/ turn = "MOUNT" /\ card \in {"PLUGIN", "FORMAT_SUCCESS"}
  \/ turn = "list" /\ card \in {"MOUNT", "FORMAT", "UNMOUNT"}
  \/ turn = "FORMATING" /\ card = "FORMAT" /\ answered = Workers
  \/ turn = "UNMOUNTING" /\ card = "UNMOUNT" /\ answered = Workers
  \/ turn \in {"umount", "mkfs", "FORMAT_SUCCESS", "NULL"} /\ card = "FORMATING" /\ answered = {}
  \/ turn \in {"eject", "UNMOUNT_SUCCESS"} /\ card = "UNMOUNTING" /\ answered = {}

(* As long as requests do not overlap every worker is told once, answers   *)
(* once and is quiet from then on until the card is there again.           *)
InTurn ==
  /\ TurnFits
  /\ ~Asked /\ ~Obeyed => answered = {}
  /\ ~Asked => \A w \in Workers : NoOrder(w)
  /\ Asked => \A w \in Workers : IF w \in answered THEN NoOrder(w) ELSE Ordered(w)
  /\ \A w \in Workers : Obeyed \/ (Asked /\ w \in answered) => Quiet(w)

(* A request comes to its end: both workers stop, answer, and the card is  *)
(* formatted and mounted again, or gone; not if a full buffer has dropped  *)
(* the order, for the cloud client does not send it again.                 *)
RequestEnds ==
  card \in {"FORMAT", "UNMOUNT"}
    ~> (card \in {"MOUNT", "NULL"} \/ ~present \/ overlapped \/ excused # {} \/ lost # {})

(* A worker comes back to work when the card is there: it keeps asking,    *)
(* whatever it was answered before, unless its question was pushed out.    *)
WorkersComeBack ==
  \A w \in Workers :
    (card = "MOUNT" /\ phase[w] = "init")
      ~> (phase[w] = "run" \/ card # "MOUNT" \/ w \in unheard)

(* The comment on E_SDCARD_STATUS_MOUNT in gk_sd.h: the card is inserted   *)
(* and mounted and can be used normally. A card that stays out would have  *)
(* to lose that status.                                                    *)
MountedCardIsInserted ==
  (card = "MOUNT" /\ ~present) ~> (card # "MOUNT" \/ present)

(* The comment in sd_proc: the slot is checked only once "untill hotplug   *)
(* event happened". A card that is put in would have to be noticed.        *)
InsertionIsNoticed ==
  (card = "NULL" /\ present /\ uevents # <<>> /\ uevents[Len(uevents)] = "add")
    ~> (card # "NULL" \/ ~present)

(* The card's status follows what happens at the slot.                     *)
StatusFollowsSlot == MountedCardIsInserted /\ InsertionIsNoticed
=============================================================================
