# Verification of the camera firmware

TLA+ models of the camera process (`src/main.c`, `src/global`, `src/common`,
`src/server`), the TLC runs that check them on small instances, and the
theorems about them that TLAPS proves for every value of the constants.
`PROJECT.json` holds the list of runs, mutants, findings, hazards and theorems,
and says for every definition which lines of the source it models.

## 1. The system

One process. The main thread is the *manager*; it starts seven *servers*, each
a thread with the same loop, and every server has a message buffer that any
thread may push into.

```
 server_func:  while status # EXIT_FINISH:
                  old_status = status
                  state_machine();  task_proc();  server_message_proc()
```

`server_message_proc` sleeps on the buffer's condition variable when it is
empty and the status has not changed. Numbers: manager 0, device 1, goke 2,
video 3, audio 4, recorder 5, player 6, aliyun 7; a set of servers is a bit
mask. An answer to message `m` is `m | 0x1000`.

| component | state | operations | interacts by | hard behaviours | what makes it correct |
|---|---|---|---|---|---|
| message buffer (`common/buffer/msg_buffer.c`) | ring of slots with heap copies of arguments, head, tail, init, overflow flag | init, release, push, pop, probe, swap | called by every thread under the owner's mutex | wrap-around, full ring that overwrites, the loop of swap | a bounded FIFO queue; no slot leaks or dangles; swap ends |
| server loop and exit (`audio.c`, `goke.c`, ..., `global/common.c`) | status, task, quit_status, thread_start, thread_exit, init_status | the statuses NONE to RUN and EXIT_INIT to EXIT_FINISH; START and other tasks; message handlers | messages; bits set by the server's own threads | every interleaving of eight loops; dropped messages; a request pending when the exit begins; a thread between creation and its first bit | resources released in the order of the exit conditions; the exit ends |
| manager (`server/manager/manager.c`) | status, task function, thread_start | task_default, task_sleep, task_deep_sleep, task_testing, task_exit, message handlers, signal handler | MSG_MANAGER_EXIT to the servers, relays EXIT_ACK | a signal at any time; answers before and during the exit | exits only when all have answered |
| timers, sleep scheduler (`timer.c`, `sleep.c`) | table of timers, sleep windows | add, remove, tick | servers ask by messages to the manager; the timer thread sends MSG_MANAGER_TIMER_ON to the owners | slot freed and reused between test and use; a server that starts or exits during a round; a clock that wraps | one timer per handler; the periodic timer of a running server stays and fires on; a gone server's timers go |
| goke (media system) | status, HISI state | server_init, setup, start, property get, notify | notifies audio and video of STATUS_RUN | start order is not fixed; notifications may be refused | nobody uses the media system before it runs; everybody gets to run |
| audio, video | channels, stream threads | start, stop, channel add and remove, properties | stream threads push frames to recorder and player | thread that ends by itself | as the server loop |
| recorder, player | jobs with a thread each, card bit | add job, stop, seek, reinit | ask the device server for the card; job threads open files on it | stop racing with a condition wait; reinit while a thread is being created; a request handed to a thread that is just ending | files are open only while the card may be used; a channel is fed by one thread; stops, formats and exits end |
| SD card (`device/gk_sd.c`, `device.c`) | sd_card_status, format_status, init_wait, file_init | sd_proc, sd_format, sd_unmount, sd_set_response, hotplug | shared variables without a lock; SD_FORMAT_START; GET_PARA | three threads on one status; cards pulled out; umount that fails | format and eject only when recorder and player have let go |
| file list (`device/file_manager.c`) | sorted arrays of start and stop, init | read, forget, add, clean, search | rwlock between SD thread, recorder, player, cloud | list half read, full, stale; keys at the ends of a bisection | ordered, complete, exact searches |
| motor, GPIO, watchdog, wifi | registers | ioctl wrappers | - | - | - |
| aliyun | cloud connection | property translation | messages to the others | vendored SDK with callbacks | - |
| configuration, JSON, hisi layer, cJSON, vendor SDKs | - | parsing, vendor calls | - | - | - |

## 2. Plan

In order of importance. The modules of the first eight points and the proofs
named in them are written.

1. `MsgQueue`, `MsgBuffer`: everything communicates through it. Abstract
   specification and implementation, proofs of all safety properties and of
   the refinement.
2. `ExitOrder`, `Shutdown`: the server loop and the exit protocol, the manager
   included. Abstract specification and implementation, proofs of the order of
   release and of the refinement.
3. `Startup`: goke, audio and video coming up together. Proof that no client
   goes on before goke runs.
4. `SdCard`: device server, SD thread, hotplug thread, cloud client, recorder
   and player around one memory card. Proof that the card is left alone.
5. `FileList`: the list of recordings between those that write and search it.
   Proofs of its safety, the bisections included.
6. `Recorder`: the recorder's server and its job threads, with stop, change of
   the mode, reinit for a format and exit. Proofs of its safety properties.
7. `Player`: the player's server and its threads, with requests handed to a
   thread that may be ending, reinit and exit. Proofs of its safety properties.
8. `Timers`: the timer table between the manager's main thread, the timer
   thread and servers that come and go. Proofs of its safety properties.
9. Next, composition: `Recorder` and `SdCard` (the job thread of `SdCard` is the
   abstract specification of `Recorder`'s), `Shutdown` with reinit, which
   clears quit_status (on the player's side this is in `Player`).

The sleep modes (`task_sleep`, `task_deep_sleep`, `sleep.c`) are not planned any
more: section 7 says why.

## 3. Modules and their correspondence to the code

**MsgQueue / MsgBuffer.** `slots`, `head`, `tail`, `init`, `overflow` are the
fields of `msg_buffer_t`; a slot is a message identity and whether it owns a
heap argument. Push, pop, init and release are one action each, since callers
hold the buffer's mutex. `msg_buffer_swap` is the one operation with a loop; it
is modelled iteration by iteration (`SwapBegin`, `SwapStep`, `SwapEnd`), so that
"the loop ends" and "the loop stays on live slots" are statements about the
code. `ImplementsQueue` maps the ring to the queue of `MsgQueue`; while a swap
is running it maps to the queue that the swap will leave. Memory is assumed not to
run out: when `calloc` fails, `msg_deep_copy` returns -1, which no caller looks
at, with a copy that points to its source's argument.

**Shutdown.** A *node* is the manager or a server. `phase` is `info.status`
(the statuses between NONE and RUN of a server are one, STARTING), `pc` says
where in the loop the thread is ("work", or in `server_message_proc`: "recv"
after a change of status, "wait" otherwise). One action is one call of
`state_machine` and `task_proc`, or of `server_message_proc`. Everything a call
sends is part of the action; sends are atomic under the receiver's mutex, and
the sender touches only its own state otherwise. Buffers overwrite their oldest
message (`msg_overrun = 1`), and a server without a buffer refuses. `WaitsFor`
is the exit condition (`AUDIO_EXIT_CONDITION` and so on), `pending` a START
task whose sender the server answers from `info.task.msg`. A server's own
thread is created, registers its bit, is told, ends, clears its bit and sends a
dummy message; or returns at once with its bit set ("dead", `audio.c:198`).
`early`, `failed` and `lost` are history variables. `ExitOrder` is what remains
without messages, buffers and threads: servers that have begun to release,
servers that have answered, and a manager that no longer waits.
`ImplementsExitOrder` reads these off the statuses: a server has begun to
release from EXIT_STAGE1 on, and has answered once it is gone or has answered
early. A server that fails and is then told to exit as well goes back to
EXIT_INIT and releases twice (`BeginAgain`); the refinement says that no other
does. `AnswersReach` follows the other direction of the protocol: the manager has
one `info.task.msg`, by which it relays one answer at a time, and an answer can
cross MSG_MANAGER_EXIT; still none that a server waits for is missed, while
`lost` is false.

**Startup.** The same loop seen from the start: goke reaches RUN and notifies
its clients in each turn; a client asks goke once in each turn that it spends in
INIT. `GokeAnswers` answers without a status because
`if( msg.arg_in.cat = GOKE_PROPERTY_STATUS )` (`goke.c:262`) assigns.

**SdCard.** `card`, `answered`, `initWait` are `sd_card_status`,
`format_status`, `init_wait`. `turn` splits one call of `sd_proc` between the
`switch` and the write of the status, where it may take seconds (mount, umount,
mkfs); the cloud client's writes fall in between. `phase` is the part of a
worker's loop that matters here, `thread` its job thread: "created" has not set
its bit yet, "ghost" is running without its bit because `memset(&info)` of
`server_reinit` has wiped it. A worker without the card asks for it in *every*
turn of its loop (`WorkerAsks`), and any message gives it a turn (`WorkerHears`):
the answers, the dummy that `server_reinit` sends to itself (`WorkerTells`), the
dummies of job threads (`JobEnds`) and whatever other servers send (`Others`). So
questions and answers pile up, and the buffers overrun as `msg_buffer_push` has
it: a full one drops its oldest message. `asked` says that a worker in INIT has
made its turn and stands at its buffer, asleep if that is empty. `server_reinit`
is three steps: it tells its threads (`WorkerTells`), finds none and answers
(`WorkerAnswers`), and wipes `info` (`WorkerResets`); a thread may enter itself
between any two of them. `file_init` is left out: it is -1 before and 1
after the first list is read, which never fails, and both count as true. The
question for the time (`recorder.c:861-869`) is left out: its answers are among
`Others`. So is what other servers ask the device server.
`overlapped`, `excused`, `lost` (workers whose SD_FORMAT_START a full buffer
dropped) and `unheard` (workers whose last question one did) are history variables
for the properties below.

**FileList.** One type's arrays (`flist[type]`) as a sequence, and the folder as
a set of recordings. Reading the folder is split into its iterations since it
holds only the read lock; adding, forgetting and cleaning hold the write lock.
What `scandir` has found is a set from which the earliest recording is listed
next, as `alphasort` has it. The loop of the two bisections is one recursive
function over the part of the array that is left to search (`Bisection`), with
what lies behind the arrays' ends (`Start(i)`) for what follows the loop. `Adds` puts an address (`Far`) into the
stop, as `recorder.c:261` does. Assumed: recordings of one type do not overlap
in time (one repeating plan; alarms at least `alarm_interval` apart), and none
is finished before the list has been read (a recording lasts `min_length`
seconds).

**Recorder.** A turn of `server_func` is `Turn` (`state_machine` and
`task_proc`) and `Receive` (`server_message_proc`); `server` says whether the
turn changed the status ("pass": no wait on an empty queue) or not ("recv").
`TellTurn` with `Stopped` is `server_stop` before and after its polling loop,
`TellTurn`, `Joined` and `Clears` are `server_reinit`: told, polled and answered,
wiped. A thread that enters itself between the last poll and the `memset`
(`recorder.c:924-930`) loses its bit, and no later stop, format or exit sees it
(`wiped`). EXIT_THREAD reads `thread_start` twice: `ExitThreadTurn` tells those it
finds there, `LooksForThreads` looks whether there are any; a thread that enters
itself between them has not been told (`missed`). `started`, `told`, `planned` are
`thread_start`, `thread_exit`, `status2`; `job` holds the slots, `at` and `ctrl`
a thread's place and its own status. A round of `recorder_func` is `Tests` and
one of `Opens`, `Waits`, `Writes`: what the server does may fall between the
test and the act. `Ends` and `Frees` are the release under `ilock`, cut where
`misc_clear_bit` has read `thread_exit` and not yet written it (`copy`); the lock
is held between them. Threads whose next round only sets `run.exit` or starts
the plan again (`recorder_thread_error`, `recorder_thread_pause`) do so at once.
The wait for the time (`RECORDER_INIT_CONDITION_TIME_SYCHRONIZED`) is left out:
it delays like the wait for the card and nothing else looks at it. The player's
part in a format is in `SdCard`; here the recorder's answer releases the card.
The device server's answer to MSG_DEVICE_GET_PARA is two steps, `Looks` and
`Answers` (`reply` between them): it reads the card's status and sends what it
has read, and the SD thread may ask for a format meanwhile.
A thread's dummy message goes out with the end of its slot (`Frees`), and the
recorder's queue has no bound beyond that on requests, so the loss of a message in
a full buffer, which `SdCard` has, does not occur here. `memset` and the look at
the queue that follows it are one step.
`strays` (threads the server could not see when it let go: not yet entered, or
wiped), `misled`, `dropped`, `wiped` and `missed` are history variables.

**Player.** The server's loop is written as the recorder's: `Turn` and
`Receive`, "pass" after a turn that changed the status. A message that plays
goes to `player_add_job`, all of it under `ilock`, so `Adds` is one action.
Seek, SET_PARAM (one message here) and stop look for the slot *before* they take
the lock: `Finds` puts the slot into `target`, `Applies` does the rest, and the
thread may leave in between. `exits`, `restarts` are the flags of `jobs[]`,
`play` is a thread's own status, `at` its place: "created" is before it sets its
bit, "over" has played everything and is about to leave the switch, "ends" has
left the loop and not yet freed the slot. `Over` is `PLAYER_THREAD_FINISH`: it
assigns `info.status`, the *server's* status, and is therefore an action that
writes `status` between any two of the server's steps. The handshake of
`PLAYER_THREAD_SYNC` (the answers of video and audio) is one choice: a thread
goes on at any time or stays. The device server answers as in `Recorder`. `closed` says that `server_release_2`
has given the buffer up: nothing is accepted from then on, whatever `Over` writes
into `status` later. The two reads of `thread_start` in EXIT_THREAD
(`player.c:1170`, `1172`) are one step here.
History variables: `strays` are threads on their
way when the server let go, `haunted` slots that a seek marked as used after
their thread had left, `excused` slots whose thread was past its last look,
`overwritten` says that `Over` undid an exit or a format, `misled` that a late
"card is ready" did, `formatted` that `server_reinit` has run, which clears
`quit_status`.

**Timers.** The manager's main thread (`Starts`, `Hears`, `Removes`), the timer
thread (`Wakes` begins a round, `Looks` takes one slot) and the servers (`Asks`,
`Handles`, `Exits`). `seen` is `info.thread_start`, passed by value to
`timer_proc`'s work at the beginning of a round and so up to a round old;
`found` the slot that `timer_remove` has found and not yet locked. `Due` adds
and compares at the width of the clock: `Wrap` stands for 2^32 ms. `on` holds
the MSG_MANAGER_TIMER_ON in the owners' queues; the owner runs the handler
whether or not it has given the timer up meanwhile. A server that exits sends
its EXIT_ACK, and the manager answers it by a request to itself for
`manager_delayed_start`, as `fail_restart` has it. `wanted` and `missed` are
history variables. A handler has one owner, as in the code; nobody asks for a
delay, and the argument is left out.

**Proof modules.** `MsgBuffer_proofs`, `Shutdown_proofs`, `Startup_proofs`,
`SdCard_proofs`, `FileList_proofs`, `Timers_proofs`, `Recorder_proofs` and
`Player_proofs` extend the module they are about. **MC modules** give the constants their values;
`MCShutdown` also defines the chain of exit conditions, `MCTimers` the owners
and intervals of the handlers.

## 4. Runs

| run | bounds | what it shows |
|---|---|---|
| `msg_buffer` | the real small size 8, two messages, one with an argument | the ring implements the queue with both overflow modes; no slot leaks; swap stays inside and ends. All wrap-arounds occur: head and tail take every pair of values |
| `shutdown` | two servers, one that waits for the other, one with a thread that may fail and a request; buffers of 2, one signal | resources are released in order, the process exits only when all have answered, although buffers overflow and answers come early; the exit completes, also when a request was pending, and a server that waits for its thread is woken. `ImplementsExitOrder`: whatever is lost or overtaken, each step is one of the order of release, so no server is told twice, goes back, or takes its answer back. `AnswersReach`: unless an exit message was dropped, no answer that somebody waits for has gone by |
| `shutdown_all_quit` | three servers in a chain, one signal, one request, buffers of 3 | *violated*: finding 1 |
| `startup` | goke and two clients, buffers of 5, one other message, one failure | nobody goes on early, everybody goes on, the traffic ends |
| `sd_card` | one worker, two requests, one mishap (a card put in or taken out, a call that fails, another message), buffers of 2 | the card is left alone during format and ejection, in the second request too; requests end and the worker comes back; it never sleeps without an answer due, although it asks in every turn and the buffers overrun |
| `sd_card_slot` | one worker, one request, two mishaps, buffers of 2 | *violated*: finding 2 |
| `file_list` | times 1 to 8, a card filled up to time 5 in every possible way, list of 5, one failing scandir | the list is ordered and complete, searches are exact, cleaning ends |
| `file_list_not_found` | the same without failures | *violated*: finding 3 |
| `recorder` | two slots, modes off and all, two requests of any kind beside the plan, none sent to a queue of two | no file is open when the card or the process is given up, one plan at a time, off is off, and stop, format and exit end |
| `player` | two slots, two channels, three requests of any kind, sent while at most one waits | a channel is fed by one thread, no file is open when the card or the process is given up, a request handed to a thread is taken, stops end, formats and exits are answered |
| `timers` | two slots, four handlers of two servers and the manager, a clock that wraps every third round, three requests | one timer per handler; the periodic timers of running servers stay and go on firing; those of servers that are gone disappear |
| `timers_dropped` | the same, one request | *violated*: finding 4 |

The type invariants of `MsgBuffer`, `Shutdown`, `Startup`, `SdCard`, `Timers`,
`Recorder` and `Player`, and `LiveSlotsHoldMessages` and `MessagesAreTruthful`, are theorems for every value
of the constants, so no run repeats them.

Why the bounds are enough. *Buffers*: two messages suffice for the ring since it
never looks at contents, and one with and one without an argument are the two
cases; capacities of 2 and 3 make overflow frequent in `Shutdown`, more room
only makes it rarer. In `Startup` the capacity matters: `ClientsGoOn` fails at
4 with one other message and holds at 5; the real buffers hold 7 and 15.
*Servers*: two servers have one that waits and one that is waited for; the order
of release along longer chains (goke waits for video and audio, those for
recorder and aliyun) rests on the theorems, which hold for every set of servers
and conditions. That the exit completes is checked for the pair only; a server in
the middle of a chain adds a wait for an answer that the pair has already. *Card*:
the second request is the first that can meet remains of an earlier one; two
plug events are needed to take the card out and in. Buffers of 2 hold an answer
and SD_FORMAT_START in either order and overrun with the third message; the real
ones hold 7 and overrun later, and with one worker an overrun question always
leaves another of the same worker behind. There is one worker in the run;
`SdCard_proofs` covers any number of workers, requests and mishaps and every size
of the buffers, for requests that do not overlap where the property says so.
*List*: five recordings can be on the card or the list can be full of them, one
more is refused, and two are enough for the addresses to matter.
*Recorder*: the plan and an alarm fill two slots, and two requests give every
pair that meets in a queue: switched off and on, an alarm and a stop, a format
and an exit in either order, a mode set during a format or an exit. The modes
alarm and plan only refuse one type of job; no step depends on them otherwise.
*Player*: two slots and two channels are the fewest with which a slot can change
its channel and a channel its slot; three requests are play, a second request
for the same channel and one that meets its thread's end. The real player has
ALIYUN_VISUAL_MAX_CHANNEL slots, which never interact except through the
server's fields. *Timers*: two slots for four handlers make the table full and
slots change hands; three requests give add, remove and a further add between
any two steps of the timer thread. The theorems hold for every size, those of
`Recorder` and `Player` for every number of slots and requests too; the
invariants they rest on were also checked by TLC with three requests
for the recorder (12 million states) and with four for the player (7 million).

Every property of a passing run has a mutant of the model (a dropped guard, a
missing reset, an off-by-one; marked "Faulty" beside the definition it
replaces) under which TLC finds it violated.

`CHECK_DEADLOCK FALSE` is set where the system may stop: a process that has
exited, a start that has failed, servers asleep on empty buffers, a card nobody
uses, a list whose time is up, a recorder with nothing to do, a player that is
gone.

### Exceptions the properties name

- `ShutdownCompletes` does not promise an end when an exit message was dropped
  by a full buffer or refused by a server without a buffer (`lost`), or when the
  stream thread returned with its bit set (`dead`). The code then waits for
  ever: the timer that would kill the process (`manager.c:698`) is commented out.
- `CardIsLeftAlone` excuses a worker that was misled: by a "card is ready" that
  was looked up before the request and delivered behind SD_FORMAT_START, or by
  a job thread that had been created but had not set its bit when
  `server_reinit` waited for `thread_start` to be 0. It says nothing when
  requests overlapped, and that includes a request that arrives while `sd_proc` is
  between its switch and its write and is overwritten: such a request *is*
  forgotten, and no property claims the contrary. `RequestEnds` has the same
  exceptions and `lost`: a full buffer dropped the order, which the cloud client
  does not repeat. `SleepersAreAnswered` and `WorkersComeBack` excuse a worker
  whose last question was pushed out of the device server's buffer by those of
  the others (`unheard`): it sleeps until some other message comes.
- `CardIsReleased` (`Recorder`) excuses threads the server could not see when it
  let go of the card or the process (`strays`): created but not entered in
  `thread_start`, or with the bit wiped by the `memset` of an earlier reinit;
  and, for the card, a server that was misled: by a late "card is ready", or by a
  change of the mode, which sets STATUS_START from any status. `OffMeansOff`
  excuses the threads in `wiped`, which go on recording with the switch off, and
  `OnePlanIsWritten` does not count `strays`, beside which a new plan starts.
  `ExitEnds` excuses `missed`: a thread that entered itself between the two reads of
  EXIT_THREAD was not told, sends no dummy when it enters itself, and the server
  sleeps beside it. `StopEnds`,
  `FormatIsAnswered`, `OffMeansOff` and `OnePlanIsWritten` excuse `dropped`: a
  thread told to end no longer is, because another thread wrote `thread_exit`
  back (`recorder.c:596`) or EXIT_THREAD assigned it (`recorder.c:1022`).
  `FormatIsAnswered` lets the recorder exit instead, `ExitEnds` be called back
  from its exit by a change of the mode or a format. At the bounds of the run
  TLC violates each property without its exceptions, save that the `dropped` of
  `OnePlanIsWritten` takes a third request.
- `PlaybackIsClosed` (`Player`) excuses `strays` and, for the card, `misled`;
  `ChannelHasItsThread` the slots in `haunted` (`player_seek_job` writes to a slot
  that was freed after it had been found, and the slot then looks taken by
  channel 0 for ever); `UpdateIsTaken` a thread past its last look at its slot or
  told to exit since (`player.c:531`: the request is answered as successful and
  lost); `ReinitAnswers` a status that the end of a playback has overwritten
  (`player.c:797`); `ExitAnswers` an exit called back so or by a format;
  `CloudGoesFirst` a player that has formatted before (`player.c:1097`). TLC
  violates each property without its exceptions.
- `TimersAreKept` excuses `missed`: a server started after the round began that
  asks for its timer before the timer thread comes to the slot.
- `SearchIsExact` excludes keys behind the last start (finding 3) and lists with
  two entries that stop at an address.
- `CleaningEnds` excludes a card with nothing to remove (the passes repeat for
  ever with the lock held) and a failing `scandir` (returns with the lock held).

### Fairness

Each thread is scheduled: weak fairness per thread, or for what a thread does
once it has entered a function that loops. A job thread ends only after it has
been told to (`JobObeys`); no request, signal, plug event or fault has to happen.
`msg_buffer_swap` runs to its end since its caller holds a mutex and does not
wait. A recorder thread that waits for a frame gets one in the end: it has asked
for the stream itself and stops it only in its release, so the camera goes on;
this also mends the signal that a thread misses between its test of
`thread_exit` and its wait. In `Player` the server and each thread are scheduled;
no playback has to end by itself. In `Timers` the manager hears its messages,
the timer thread goes round and owners run their handlers; no server has to
start, ask or exit. No strong fairness is used.

## 5. Findings

1. `shutdown_all_quit`: a server with a pending START answers
   MSG_MANAGER_EXIT_ACK as soon as it begins its exit, because `info.task.msg`
   has been overwritten with MSG_MANAGER_EXIT; the manager's "//quit all" is
   then not true, and the process may exit while the server holds its resources.
2. `sd_card_slot`: a card inserted between the look at the slot and
   `init_wait = 1` is not noticed, and a mounted card that is taken out keeps the
   status MOUNT.
3. `file_list_not_found`: a search that begins within the last recording does
   not find it.
4. `timers_dropped`: the timer thread drops timers whose sender has no bit in
   `thread_start`; the manager is 0, its bit is never set, so all the manager's
   own timers are dropped. `manager_delayed_start`, by which a failed server would
   be started again, never runs.

## 6. Proofs

| module | theorems | argument |
|---|---|---|
| `MsgBuffer_proofs` | `TypeCorrect`, `ArgumentsAreOwned`, `LiveSlotsAreWritten`, `SwapIsConfined` | for every power of two and every set of messages. The four properties together are the inductive invariant; none is inductive alone, since what a slot outside the window still holds decides what a push that wraps around must free. The arithmetic modulo the size is in lemmas of its own: a slot is live if its distance from tail is below the number of items, and each operation moves one end by one |
| `MsgBuffer_proofs` | `RingIsQueue` | the ring implements the queue, for every power of two. The k-th waiting message is in slot `At(k)`; these places are all different and head is the place behind the last (`Ring`), so a push leaves them alone, a pop moves them by one (`TailMoves`) and an exchange of two slots exchanges two messages (`ExchangeInRow`). While a swap runs the queue is what the swap will leave (`Held`): its first exchange is the queue's whole step, and every round of the loop and its end leave `Held` as it is |
| `Shutdown_proofs` | `TypeCorrect`, `ExitMessagesTellTheTruth`, `OrderOfRelease`, `ExitAfterAnswers` (all from `Invariance`) | for every set of servers, exit conditions, buffer sizes and numbers of signals and requests. `ReleasesInOrder` alone is not inductive: that a server may go on depends on what it was told, so `IInv` says that every exit message in any buffer and in `info.task.msg` is true (`MessagesAreTruthful`), that servers and manager strike off only those who have answered (`StruckOffAnswered`), how a server gets into the exit (`ToldOrFailed`), and that a server out of its loop receives nothing (`ReceivesInLoop`). One step per action; answers only grow, so truth is kept by every step that sends nothing false |
| `Shutdown_proofs` | `ExitIsToldOnce`, `ExitFollowsOrder` | for the same: `ExitOrder` is implemented. Beyond `IInv` this needs that MSG_MANAGER_EXIT comes once: no buffer holds two of them, none holds one for a server that has been told or before the manager has told (`ToldOnce`), so a server that goes back to EXIT_INIT has failed and not answered; and that a START task the exit has overwritten is answered in the very next call (`OverwrittenStart`), so no step both answers and releases. With `StartedAllOrNone`, `OrderInv` is inductive; each action is then one step of `ExitOrder` or none |
| `Shutdown_proofs` | `AnswersAlwaysReach` | for the same. `quit_status` begins as the whole exit condition; each relayed answer shortens it, and EXIT_INIT cuts it to the servers that MSG_MANAGER_EXIT names. An answer given before that message was sent is never relayed to everybody, one given after it is not named in it. `AnswersCome` follows each answer (`Coming`): it is still in the manager's buffer, or in `info.task.msg` in the turn that relays it, or in the server's buffer, or not needed because the MSG_MANAGER_EXIT the server is about to take or to act on leaves its sender out. The manager never takes the next message before it has relayed the last (its `pc` goes back to work in the same step), and a server that has begun to wait has no MSG_MANAGER_EXIT before it (`WaitsAsTold`, by `ToldOnce`). The hypothesis `~lost` is used where a full buffer drops its oldest message and where a server without a buffer refuses; `lost` never turns false again. This is the safety half of `ShutdownCompletes`: nobody waits for what will not come |
| `Shutdown_proofs` | `NoWakeUpIsLost` | for the same. While a server sleeps in EXIT_THREAD with nothing in its buffer, its thread has been told, or has cleared its bit and not yet sent its dummy message, or is the one that returned with its bit set (`SleepersAreWoken`, inductive with the types). This is the safety half of `ThreadsLetTheServerGo`, and no run lists it |
| `Startup_proofs` | `TypeCorrect`, `SetUpOnlyInRunningSystem` | for every set of clients and every capacity. `IInv` adds `OnlyRunningSaysRun`: no message in a buffer and no `init_status` says that goke runs unless it does |
| `SdCard_proofs` | `Inductive`, `CardIsLeftAloneAlways` | for every set of workers, size of the buffers and number of requests and mishaps, as long as requests do not overlap (`~overlapped`, as the property itself says). `IInv` follows the order to one worker: it is in one place, with the cloud client, in the buffer or taken (`OneOrder`), or a full buffer dropped it (`Ordered`), there is none without a request (`NoOrder`), a worker that has answered is quiet from then on (`Quiet`), and the status cannot move past a request before all have answered (`Asked`, `Obeyed`). `TurnFits` and `InTurn` say what the SD thread may still write at the end of its turn |
| `SdCard_proofs` | `SdCardIsTyped`, `SleepersAreAlwaysAnswered` | for the same, and whether requests overlap or not. With the types `SleepersAreAnswered` is inductive as it stands: a worker comes to sleep only by asking, its question or the answer to it stays on its way until it is delivered, and what takes the answer away from a sleeper wakes it. A push takes at most the oldest question out of the device server's buffer (`RangePush`); if it was the worker's last it is in `unheard` until a message wakes it. This is the safety half of `WorkersComeBack` |
| `FileList_proofs` | `Inductive`, `FileListIsTyped`, `ListStaysOrdered`, `NothingIsEverForgotten` | for every span of time, size of the list, day and cut-off step. Recordings lie apart up to now (`DiskIsApart`), what is listed lies before what is still to be listed and before what the recorder is about to add (`ListIsBehind`), `init` agrees with what the SD thread is about (`InitFits`), and while the list is read each recording is listed or still to be (`NothingIsSkipped`) |
| `FileList_proofs` | `SearchesAreExact` | for lists of every length. The library's induction theorems take the predicate as an operator, which no prover here can instantiate, so induction is proved first with a *set* in its place (`NaturalInduction`, from the cardinality of intervals). By it the recursive function of the bisection exists (`SearchExists`: one that is right for windows smaller than k, for each k), and ends at the key or between the smaller and the greater values (`BisectionEnds`). Both searches follow: nothing before the slot of `BisearchStart` lasts beyond the start of the interval (`FirstSlot`), nothing behind that of `BisearchStop` begins before its end (`LastSlot`) |
| `Timers_proofs` | `Inductive`, `TimersAreTyped`, `HandlersHaveOneTimer`, `RunningServersKeepTimers` | for every table, set of servers and handlers, and width of the clock. `IInv` adds that the owner of every timer asked for has been started, so that a server not yet running has none, and that the slot found by `timer_remove` is free or holds a timer no longer wanted when it is cleared: the slot can be freed between, but only the same thread fills it |
| `Recorder_proofs` | `Inductive`, `RecorderIsTyped`, `RecordingsAreClosed`, `OnePlanAtATime`, `SwitchIsObeyed` | for every number of slots and requests. A thread that may still write (`Live`) is entered in `thread_start`, on its way, or among those whose bit was wiped, which stay `strays` until they end; so a server that sees `thread_start` empty has no other threads than `Unseen`, which it adds to `strays` (`FilesHaveThreads`, `LetGoOfThreads`, lemma `OnlyTheUnseen`), and while the card is away it waits in INIT without having been told that the card is ready (`WaitsForCard`). What keeps the switch and the plan is that those who are told stay told (`AllAreTold`, `OffThreadsAreTold`), and that a plan's thread that was told before it opened its file looks again before it writes (`PlanIsPlanned`) |
| `Player_proofs` | `Inductive`, `PlayerIsTyped`, `ChannelsHaveOneThread`, `PlaybacksAreClosed`, `CloudIsWaitedFor`, `UpdatesAreTaken` | for every number of slots, channels and requests. As for the recorder, threads are entered or among `strays` (`ThreadsAreEntered`, `LetGoOfThreads`), and a player without the card waits for it (`WaitsForCard`); a condition still set means that the cloud has not gone (`QuitMeansGone`), and a slot told to start again whose thread has passed its last look is one of those excused (`UpdatesAreExcused`) |

Assumptions: those of the modules (`SizeAssumption`, `ServersAssumption` and so
on), each checked by TLC on the runs' constants.

Only model-checked: everything with fairness (`SwapTerminates`,
`ShutdownCompletes`, `ThreadsLetTheServerGo`, `ClientsGoOn`,
`NotificationsEnd`, `RequestEnds`, `WorkersComeBack`, `CleaningEnds`,
`StopEnds`, `FormatIsAnswered`, `ExitEnds`, `PlaybackEnds`, `ReinitAnswers`,
`ExitAnswers`, `PeriodicTimersGoOn`, `GoneServersLoseTheirTimers`), which is out
of the prover's reach. Every invariant and every action property of the runs is a
theorem.

## 7. Not modelled

`PROJECT.json` lists every component. By far the most of the repository's lines
are vendored (the media SDK under `gmp`, the cloud SDK under `smart_living`, http
and TLS libraries); the camera program itself, `src/server`, `src/common` and
`src/global`, is a small part, and the share of all lines that the models cover
is small for that reason. Left out for good: vendored code, the
hisi layer, motor, GPIO, wifi and watchdog (sequences of vendor calls and
register writes without a protocol of their own), configuration and JSON
(parsing, no concurrency), the content of audio and video frames. Left out too: the
sleep modes, because the code does not reach them: the scheduler runs from a
timer of the manager, which is dropped (finding 4), and `task_sleep` waits for
`thread_start` to equal a value that it never takes (`manager.c:462`); in `Player`
the wait of a thread for the live picture and sound to stop, pause, speed and
sound, and threads that start after `server_release_2` has cleared their slot;
in `Timers` delays, arguments and `timer_release`; in `MsgBuffer` memory that runs
out; in `Recorder` and `Player` a buffer that overruns; in `SdCard` the question
for the time and other traffic of the device server. While a worker knows neither
the card nor the time each turn takes one message and causes two questions
(`recorder.c:851-869`), so in the code both buffers tend to be full: `SdCard` has
full buffers, for any number of other messages in its theorems, but TLC sees
only one such message. In
`FileList` the query by day, the search by file name and the removal of files
with malformed names. Message numbers, logging and wording appear nowhere.
Mutexes are not modelled as state where a critical section is one action; the
signal handler that locks the manager's mutex (`manager.c:768`) can therefore
not deadlock in the model, and is listed as a hazard instead.
