--------------------------------- MODULE Timers ---------------------------------
(***************************************************************************)
(* The manager's timers.  Servers ask for them by messages to the manager, *)
(* whose main thread puts them into the table timers[] and takes them out. *)
(* The timer thread goes over the table every 100 ms, drops the timers of  *)
(* servers that do not run, and has the owners of the others run their     *)
(* handlers by MSG_MANAGER_TIMER_ON.  The manager has timers of its own:   *)
(* manager_delayed_start, which starts a server again that has exited, is  *)
(* one of them.                                                            *)
(***************************************************************************)
EXTENDS Naturals, Sequences, FiniteSetsExt

CONSTANTS TimerNumber, \* the slots of the table
          Servers,     \* the servers that ask for timers
          Manager,     \* the manager, as the owner of timers
          Handlers,    \* the handlers; a handler names its timer
          Delayed,     \* manager_delayed_start
          Owner,       \* the sender of a handler's timer
          Once,        \* the handlers of one-shot timers
          GivenUp,     \* the handlers whose timers are taken out again
          Interval,    \* in rounds of the timer thread
          Wrap,        \* milliseconds are counted modulo 2^32; here rounds modulo Wrap
          MaxAsks,     \* bound: requests of all servers together
          MaxQueue     \* bound: no further request is sent to a queue this long

ASSUME TimersConstants ==
    /\ TimerNumber \in Nat \ {0} /\ Wrap \in Nat \ {0} /\ MaxAsks \in Nat /\ MaxQueue \in Nat
    /\ Manager \notin Servers
    /\ Delayed \in Handlers /\ Once \subseteq Handlers /\ GivenUp \subseteq Handlers
    /\ Owner \in [Handlers -> Servers \cup {Manager}] /\ Owner[Delayed] = Manager
    /\ Interval \in [Handlers -> Nat]

Slots == 1 .. TimerNumber
Clock == 0 .. Wrap - 1
Free == <<>>

VARIABLES
    timers,  \* the table: a slot is Free or a handler and its tick
    clock,   \* timer_get_ms
    next,    \* the slot the timer thread looks at next, 0 when it sleeps
    seen,    \* info.thread_start as it was when the round began
    running, \* info.thread_start
    place,   \* where each server is
    inbox,   \* the manager's messages
    found,   \* the slot timer_remove has found, 0 for none
    on,      \* handlers that wait in their owners' queues as MSG_MANAGER_TIMER_ON
    asks,    \* requests left (bound)
    wanted,  \* history: timers put into the table and not taken out since
    missed   \* history: a timer dropped although its server runs

vars == <<timers, clock, next, seen, running, place, inbox, found, on, asks, wanted, missed>>

Messages == ({"add", "remove"} \X Handlers) \cup ({"ack"} \X Servers)

Holds(i, h) == timers[i] # Free /\ timers[i][1] = h
SlotOf(h) == {i \in Slots : Holds(i, h)}

Init ==
    /\ timers = [i \in Slots |-> Free]
    /\ clock = 0 /\ next = 0 /\ seen = {}
    /\ running = {} /\ place = [s \in Servers |-> "off"]
    /\ inbox = <<>> /\ found = 0 /\ on = {} /\ asks = MaxAsks
    /\ wanted = {} /\ missed = {}

-----------------------------------------------------------------------------
(* The manager's main thread. *)

\* manager_server_start: the server's thread is created, then its bit is set.
\* The main thread takes no message in between.
Starts(s) ==
    /\ place[s] = "off" /\ found = 0
    /\ place' = [place EXCEPT ![s] = "up"]
    /\ running' = running \cup {s}
    /\ UNCHANGED <<timers, clock, next, seen, inbox, found, on, asks, wanted, missed>>

\* Faulty: the timer that has the handler already is not looked for.
AddsAnother(h) ==
    LET free == {i \in Slots : timers[i] = Free} IN
    IF free = {}
    THEN UNCHANGED <<timers, wanted>>
    ELSE timers' = [timers EXCEPT ![Min(free)] = <<h, clock>>] /\ wanted' = wanted \cup {h}

\* timer_add: in the slot that has the handler already, or the first that is
\* free; refused if there is none.  Nobody asks for a delay.
Adds(h) ==
    LET free == {i \in Slots : timers[i] = Free}
        usable == IF SlotOf(h) # {} THEN SlotOf(h) ELSE free
    IN
    IF usable = {}
    THEN UNCHANGED <<timers, wanted>>
    ELSE timers' = [timers EXCEPT ![Min(usable)] = <<h, clock>>] /\ wanted' = wanted \cup {h}

HearsAdd ==
    /\ inbox[1][1] = "add"
    /\ Adds(inbox[1][2])
    /\ inbox' = Tail(inbox)
    /\ UNCHANGED <<running, found>>

\* timer_remove looks for the slot without the lock.
HearsRemove ==
    LET slot == SlotOf(inbox[1][2]) IN
    /\ inbox[1][1] = "remove"
    /\ found' = IF slot = {} THEN 0 ELSE Min(slot)
    /\ wanted' = wanted \ {inbox[1][2]}
    /\ inbox' = Tail(inbox)
    /\ UNCHANGED <<timers, running>>

\* Faulty: the server counts as running.
HearsAckOnly ==
    /\ inbox[1][1] = "ack"
    /\ inbox' = Append(Tail(inbox), <<"add", Delayed>>)
    /\ UNCHANGED <<timers, running, found, wanted>>

\* MSG_MANAGER_EXIT_ACK in RUNNING_MODE_NORMAL: the server is to be started
\* again later.
HearsAck ==
    /\ inbox[1][1] = "ack"
    /\ running' = running \ {inbox[1][2]}
    /\ inbox' = Append(Tail(inbox), <<"add", Delayed>>)
    /\ UNCHANGED <<timers, found, wanted>>

Hears ==
    /\ inbox # <<>> /\ found = 0
    /\ HearsAdd \/ HearsRemove \/ HearsAck
    /\ UNCHANGED <<clock, next, seen, place, on, asks, missed>>

\* Faulty: the slot behind the one that was found.
RemovesNext ==
    /\ found # 0
    /\ timers' = [timers EXCEPT ![IF found = TimerNumber THEN 1 ELSE found + 1] = Free]
    /\ found' = 0
    /\ UNCHANGED <<clock, next, seen, running, place, inbox, on, asks, wanted, missed>>

\* timer_remove clears what the slot holds by now.
Removes ==
    /\ found # 0
    /\ timers' = [timers EXCEPT ![found] = Free]
    /\ found' = 0
    /\ UNCHANGED <<clock, next, seen, running, place, inbox, on, asks, wanted, missed>>

Main == (\E s \in Servers : Starts(s)) \/ Hears \/ Removes

-----------------------------------------------------------------------------
(* timer_proc, the timer thread. *)

\* 100 ms later a round begins; thread_start is passed by value.
Wakes ==
    /\ next = 0
    /\ clock' = (clock + 1) % Wrap
    /\ next' = 1
    /\ seen' = running
    /\ UNCHANGED <<timers, running, place, inbox, found, on, asks, wanted, missed>>

Moves == next' = IF next = TimerNumber THEN 0 ELSE next + 1

\* Faulty: a clock that has started again from zero is not thought of.
DueLater(h, tick) == clock > (tick + Interval[h]) % Wrap

\* The sum is as wide as the clock.
Due(h, tick) == clock < tick \/ clock > (tick + Interval[h]) % Wrap

\* "if server is already gone"
Drops(h) ==
    /\ Owner[h] \notin seen
    /\ timers' = [timers EXCEPT ![next] = Free]
    /\ missed' = IF Owner[h] \in running THEN missed \cup {h} ELSE missed
    /\ UNCHANGED on

\* A server that has given its buffer up refuses the message.
Fires(h, tick) ==
    /\ Owner[h] \in seen /\ Due(h, tick)
    /\ timers' = [timers EXCEPT ![next] = IF h \in Once THEN Free ELSE <<h, clock>>]
    /\ on' = IF place[Owner[h]] = "up" THEN on \cup {h} ELSE on
    /\ UNCHANGED missed

Passes(h, tick) ==
    /\ Owner[h] \in seen /\ ~Due(h, tick)
    /\ UNCHANGED <<timers, on, missed>>

Looks ==
    /\ next # 0
    /\ Moves
    /\ IF timers[next] = Free
       THEN UNCHANGED <<timers, on, missed>>
       ELSE LET h == timers[next][1] tick == timers[next][2] IN
            Drops(h) \/ Fires(h, tick) \/ Passes(h, tick)
    /\ UNCHANGED <<clock, seen, running, place, inbox, found, asks, wanted>>

Timer == Wakes \/ Looks

-----------------------------------------------------------------------------
(* The servers. *)

\* A timer is asked for, also again, or given up.
Asks(s) ==
    /\ place[s] = "up" /\ asks > 0 /\ Len(inbox) < MaxQueue
    /\ \E m \in ({"add"} \X Handlers) \cup ({"remove"} \X GivenUp) :
        Owner[m[2]] = s /\ inbox' = Append(inbox, m)
    /\ asks' = asks - 1
    /\ UNCHANGED <<timers, clock, next, seen, running, place, found, on, wanted, missed>>

\* The owner runs the handler, whether or not it has given the timer up since.
Handles(h) ==
    /\ h \in on
    /\ on' = on \ {h}
    /\ UNCHANGED <<timers, clock, next, seen, running, place, inbox, found, asks, wanted, missed>>

\* The server has failed or finished: its buffer goes with what waits in it.
Exits(s) ==
    /\ place[s] = "up"
    /\ place' = [place EXCEPT ![s] = "gone"]
    /\ inbox' = Append(inbox, <<"ack", s>>)
    /\ on' = {h \in on : Owner[h] # s}
    /\ UNCHANGED <<timers, clock, next, seen, running, found, asks, wanted, missed>>

Next ==
    \/ Main \/ Timer
    \/ \E s \in Servers : Asks(s) \/ Exits(s)
    \/ \E h \in Handlers : Handles(h)

\* Both threads of the manager run, and a server comes round to its messages.
Fairness ==
    /\ WF_vars(Hears) /\ WF_vars(Removes) /\ WF_vars(Timer)
    /\ \A h \in Handlers : WF_vars(Handles(h))

Spec == Init /\ [][Next]_vars /\ Fairness

-----------------------------------------------------------------------------
(* Properties. *)

\* The variables stay in their types.
TypeOK ==
    /\ timers \in [Slots -> {Free} \cup (Handlers \X Clock)]
    /\ clock \in Clock /\ next \in 0 .. TimerNumber /\ found \in 0 .. TimerNumber
    /\ seen \subseteq Servers /\ running \subseteq Servers
    /\ place \in [Servers -> {"off", "up", "gone"}]
    /\ inbox \in Seq(Messages)
    /\ on \subseteq Handlers /\ asks \in 0 .. MaxAsks
    /\ wanted \subseteq Handlers /\ missed \subseteq Handlers

\* A handler has one timer, however often it is asked for and whatever the
\* timer thread does to the table meanwhile: it is called at one rate, and
\* timer_remove, which takes away the first it finds, takes all.
OneTimerPerHandler == \A h \in Handlers : \A i, j \in SlotOf(h) : i = j

\* The periodic timer of a running server stays in the table until the server
\* gives it up: the removal of another timer, whose slot is found before the
\* lock is taken, and the timer thread leave it alone.  The exception is a
\* server started after the round began that drops its timer.
TimersAreKept ==
    \A h \in wanted \ Once : Owner[h] \in running => SlotOf(h) # {} \/ h \in missed

\* A server whose timers are wanted or asked for has been started, and the
\* timer that is being taken out is no longer wanted.
Started(h) == Owner[h] \in Servers => place[Owner[h]] # "off"

IInv ==
    /\ TypeOK
    /\ OneTimerPerHandler
    /\ TimersAreKept
    /\ \A h \in wanted : Started(h)
    /\ \A k \in 1 .. Len(inbox) : inbox[k][1] = "add" => Started(inbox[k][2])
    /\ running \subseteq {s \in Servers : place[s] # "off"}
    /\ found # 0 => timers[found] = Free \/ timers[found][1] \notin wanted

\* A periodic timer in the table fires again, over the wrap of the clock too,
\* unless it is taken out or its server leaves.
PeriodicTimersGoOn ==
    \A h \in Handlers \ Once :
        SlotOf(h) # {} ~> h \in on \/ SlotOf(h) = {} \/ place[Owner[h]] # "up"

\* Once a server is gone none of its timers comes back or stays.
GoneServersLoseTheirTimers ==
    \A s \in Servers :
        place[s] = "gone" ~> [](\A h \in Handlers : Owner[h] = s => SlotOf(h) = {})

\* "if server is already gone", says timer_proc where it drops a timer.  The
\* manager's own timers belong to a sender that is never gone.
DroppedMeansGone ==
    [][\A i \in Slots : next = i /\ timers[i] # Free /\ timers'[i] = Free /\ found = found'
            => \/ timers[i][1] \in Once /\ Owner[timers[i][1]] \in seen
               \/ Owner[timers[i][1]] \in Servers \ seen]_vars
=============================================================================
