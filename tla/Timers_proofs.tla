----------------------------- MODULE Timers_proofs -----------------------------
(***************************************************************************)
(* The timer table for every number of slots, every set of servers and     *)
(* handlers and every width of the clock: IInv of module Timers.           *)
(***************************************************************************)
EXTENDS Timers, WellFoundedInduction, SequenceTheorems, TLAPS

(* The least element of a set of natural numbers is one of them.           *)
LEMMA MinOfNat ==
  ASSUME NEW T \in SUBSET Nat, T # {}
  PROVE  Min(T) \in T
<1>1. PICK x \in T : \A y \in T : <<y, x>> \notin OpToRel(<, Nat)
  BY NatLessThanWellFounded, WFMin, Zenon
<1>2. \A y \in T : ~(y < x)
  BY <1>1, Zenon DEF OpToRel
<1>3. \A y \in T : x =< y
  BY <1>2
<1> QED
  BY <1>3 DEF Min

(* What adding a timer does to the table: nothing, or the handler is in one *)
(* slot, which was its own or free.                                         *)
LEMMA AddsUsesOneSlot ==
  ASSUME TypeOK, NEW h \in Handlers, Adds(h)
  PROVE  \/ timers' = timers /\ wanted' = wanted
         \/ /\ wanted' = wanted \cup {h}
            /\ \E i \in Slots :
                /\ timers' = [timers EXCEPT ![i] = <<h, clock>>]
                /\ timers[i] = Free => SlotOf(h) = {}
                /\ timers[i] # Free => timers[i][1] = h
<1> DEFINE free == {i \in Slots : timers[i] = Free}
           usable == IF SlotOf(h) # {} THEN SlotOf(h) ELSE free
<1>1. usable \in SUBSET Nat /\ usable \subseteq Slots
  BY TimersConstants DEF Slots, SlotOf
<1>2. CASE usable = {}
  BY <1>2 DEF Adds
<1>3. CASE usable # {}
  <2>1. Min(usable) \in usable
    BY <1>1, <1>3, MinOfNat
  <2>2. Min(usable) \in Slots
    BY <1>1, <2>1
  <2>3. /\ timers' = [timers EXCEPT ![Min(usable)] = <<h, clock>>]
        /\ wanted' = wanted \cup {h}
    BY <1>3 DEF Adds
  <2>4. /\ timers[Min(usable)] = Free => SlotOf(h) = {}
        /\ timers[Min(usable)] # Free => timers[Min(usable)][1] = h
    <3> HIDE DEF usable
    <3>1. \/ SlotOf(h) # {} /\ Min(usable) \in SlotOf(h)
          \/ SlotOf(h) = {} /\ Min(usable) \in free
      BY <2>1 DEF usable
    <3> QED
      BY <3>1 DEF SlotOf, Holds
  <2> QED
    BY <2>2, <2>3, <2>4
<1> QED
  BY <1>2, <1>3

(* Slots of a handler in a table in which one slot has been set or cleared. *)
LEMMA SetSlot ==
  ASSUME TypeOK, NEW i \in Slots, NEW h \in Handlers, NEW t \in Clock,
         timers' = [timers EXCEPT ![i] = <<h, t>>]
  PROVE  /\ \A k \in Slots : timers'[k] = IF k = i THEN <<h, t>> ELSE timers[k]
         /\ timers' \in [Slots -> {Free} \cup (Handlers \X Clock)]
         /\ <<h, t>> # Free /\ <<h, t>>[1] = h
BY DEF TypeOK, Free

LEMMA ClearSlot ==
  ASSUME TypeOK, NEW i \in Slots, timers' = [timers EXCEPT ![i] = Free]
  PROVE  /\ \A k \in Slots : timers'[k] = IF k = i THEN Free ELSE timers[k]
         /\ timers' \in [Slots -> {Free} \cup (Handlers \X Clock)]
BY DEF TypeOK

(* A message that is taken from the queue leaves messages behind.          *)
LEMMA TailOfInbox ==
  ASSUME TypeOK, inbox # <<>>
  PROVE  /\ inbox[1] \in Messages /\ Tail(inbox) \in Seq(Messages)
         /\ Len(Tail(inbox)) = Len(inbox) - 1 /\ Len(inbox) \in Nat \ {0}
         /\ \A k \in 1 .. Len(Tail(inbox)) : Tail(inbox)[k] = inbox[k + 1]
BY DEF TypeOK

LEMMA AppendToQueue ==
  ASSUME NEW q \in Seq(Messages), NEW m \in Messages
  PROVE  /\ Append(q, m) \in Seq(Messages)
         /\ Len(Append(q, m)) = Len(q) + 1
         /\ \A k \in 1 .. Len(Append(q, m)) :
               \/ k \in 1 .. Len(q) /\ Append(q, m)[k] = q[k]
               \/ Append(q, m)[k] = m
BY AppendProperties

LEMMA MessageParts ==
  ASSUME NEW m \in Messages
  PROVE  /\ m[1] \in {"add", "remove"} => m[2] \in Handlers
         /\ m[1] = "ack" => m[2] \in Servers
         /\ m[1] \in {"add", "remove", "ack"}
BY DEF Messages

LEMMA InitIInv == Init => IInv
<1> SUFFICES ASSUME Init PROVE IInv
  OBVIOUS
<1>1. TypeOK
  BY TimersConstants DEF Init, TypeOK, Slots, Clock, Messages
<1>2. \A h \in Handlers : SlotOf(h) = {}
  BY DEF Init, SlotOf, Holds, Slots
<1>3. OneTimerPerHandler /\ TimersAreKept
  BY <1>2 DEF Init, OneTimerPerHandler, TimersAreKept
<1> QED
  BY <1>1, <1>3 DEF Init, IInv

-----------------------------------------------------------------------------
(* The main thread. *)

LEMMA StartsKeepsIInv ==
  ASSUME IInv, NEW s \in Servers, Starts(s)
  PROVE  IInv'
<1> USE DEF IInv
<1>1. TypeOK'
  BY DEF Starts, TypeOK
<1>2. OneTimerPerHandler'
  BY DEF Starts, OneTimerPerHandler, SlotOf, Holds
<1>3. \A h \in Handlers : Started(h) => Started(h)'
  BY DEF Starts, Started, TypeOK
<1>4. /\ wanted' = wanted /\ inbox' = inbox /\ found' = found /\ timers' = timers
      /\ missed' = missed /\ running' = running \cup {s} /\ place[s] = "off"
  BY DEF Starts
<1>5. TimersAreKept'
  <2>1. \A h \in wanted : Owner[h] # s
    BY <1>4 DEF Started
  <2> QED
    BY <1>4, <2>1 DEF TimersAreKept, SlotOf, Holds
<1>6. (\A h \in wanted : Started(h))'
  BY <1>3, <1>4 DEF TypeOK
<1>7. (\A k \in 1 .. Len(inbox) : inbox[k][1] = "add" => Started(inbox[k][2]))'
  <2>1. \A k \in 1 .. Len(inbox) : inbox[k] \in Messages
    BY DEF TypeOK
  <2> QED
    BY <1>3, <1>4, <2>1, MessageParts
<1>8. (running \subseteq {r \in Servers : place[r] # "off"})'
  BY DEF Starts, TypeOK
<1> QED
  BY <1>1, <1>2, <1>4, <1>5, <1>6, <1>7, <1>8

LEMMA HearsKeepsIInv ==
  ASSUME IInv, Hears
  PROVE  IInv'
<1> USE DEF IInv
<1> DEFINE m == inbox[1]
<1>1. /\ m \in Messages /\ Tail(inbox) \in Seq(Messages)
      /\ \A k \in 1 .. Len(Tail(inbox)) :
            Tail(inbox)[k] = inbox[k + 1] /\ k + 1 \in 1 .. Len(inbox)
      /\ 1 \in 1 .. Len(inbox)
  BY TailOfInbox DEF Hears
<1>2. UNCHANGED <<clock, next, seen, place, on, asks, missed>> /\ found = 0
  BY DEF Hears
<1>3. \A h : Started(h) <=> Started(h)'
  BY <1>2 DEF Started
<1>4. \A k \in 1 .. Len(Tail(inbox)) : Tail(inbox)[k][1] = "add" => Started(Tail(inbox)[k][2])
  BY <1>1
<1>5. CASE HearsAdd
  <2>1. PICK a \in Handlers :
            /\ m[1] = "add" /\ m[2] = a /\ Adds(a) /\ inbox' = Tail(inbox)
            /\ UNCHANGED <<running, found>>
    BY <1>1, <1>5, MessageParts DEF HearsAdd
  <2>2. Started(a)
    BY <1>1, <2>1
  <2>3. (\A k \in 1 .. Len(inbox) : inbox[k][1] = "add" => Started(inbox[k][2]))'
    BY <1>3, <1>4, <2>1
  <2>4. (found # 0 => timers[found] = Free \/ timers[found][1] \notin wanted)'
    BY <1>2, <2>1
  <2>5. CASE timers' = timers /\ wanted' = wanted
    <3>1. TypeOK'
      BY <1>1, <1>2, <2>1, <2>5 DEF TypeOK
    <3>2. OneTimerPerHandler' /\ TimersAreKept'
      BY <1>2, <2>1, <2>5 DEF OneTimerPerHandler, TimersAreKept, SlotOf, Holds
    <3> QED
      BY <1>2, <1>3, <2>1, <2>3, <2>4, <2>5, <3>1, <3>2
  <2>6. ASSUME wanted' = wanted \cup {a}, NEW i \in Slots,
               timers' = [timers EXCEPT ![i] = <<a, clock>>],
               timers[i] = Free => SlotOf(a) = {},
               timers[i] # Free => timers[i][1] = a
        PROVE  IInv'
    <3>1. /\ \A k \in Slots : timers'[k] = IF k = i THEN <<a, clock>> ELSE timers[k]
          /\ timers' \in [Slots -> {Free} \cup (Handlers \X Clock)]
          /\ <<a, clock>> # Free /\ <<a, clock>>[1] = a
      <4>1. TypeOK /\ clock \in Clock
        BY DEF TypeOK
      <4> QED
        BY <4>1, <2>6, SetSlot
    <3>2. TypeOK'
      BY <1>1, <1>2, <2>1, <2>6, <3>1 DEF TypeOK
    <3>3. \A k \in Slots : k # i => ~Holds(k, a)
      BY <2>1, <2>6 DEF OneTimerPerHandler, SlotOf, Holds
    <3>4. OneTimerPerHandler'
      BY <2>1, <3>1, <3>3 DEF OneTimerPerHandler, SlotOf, Holds
    <3>5. \A h \in Handlers : SlotOf(h) # {} => SlotOf(h)' # {}
      <4> SUFFICES ASSUME NEW h \in Handlers, NEW k \in SlotOf(h) PROVE SlotOf(h)' # {}
        OBVIOUS
      <4> QED
        BY <2>6, <3>1 DEF SlotOf, Holds
    <3>6. SlotOf(a)' # {}
      <4>1. Holds(i, a)'
        BY <3>1 DEF Holds
      <4> QED
        BY <4>1 DEF SlotOf
    <3>7. TimersAreKept'
      <4> SUFFICES ASSUME NEW h \in wanted' \ Once, Owner[h] \in running', h \notin missed'
                   PROVE  SlotOf(h)' # {}
        BY DEF TimersAreKept
      <4>1. CASE h = a
        BY <3>6, <4>1
      <4>2. CASE h \in wanted
        BY <1>2, <2>1, <3>5, <4>2 DEF TimersAreKept, TypeOK
      <4> QED
        BY <2>6, <4>1, <4>2
    <3> QED
      BY <1>2, <1>3, <2>1, <2>2, <2>3, <2>4, <2>6, <3>2, <3>4, <3>7
  <2> QED
    BY <2>1, <2>5, <2>6, AddsUsesOneSlot
<1>6. CASE HearsRemove
  <2>1. /\ m[1] = "remove" /\ m[2] \in Handlers /\ inbox' = Tail(inbox)
        /\ UNCHANGED <<timers, running>> /\ wanted' = wanted \ {m[2]}
    BY <1>1, <1>6, MessageParts DEF HearsRemove
  <2>2. found' = 0 \/ (found' \in SlotOf(m[2]) /\ found' \in Slots)
    <3>1. SlotOf(m[2]) \in SUBSET Nat /\ SlotOf(m[2]) \subseteq Slots
      BY TimersConstants DEF SlotOf, Slots
    <3> QED
      BY <1>6, <3>1, MinOfNat DEF HearsRemove
  <2>3. TypeOK'
    BY <1>1, <1>2, <2>1, <2>2 DEF TypeOK, Slots
  <2>4. OneTimerPerHandler' /\ TimersAreKept'
    BY <1>2, <2>1 DEF OneTimerPerHandler, TimersAreKept, SlotOf, Holds
  <2>5. (found # 0 => timers[found] = Free \/ timers[found][1] \notin wanted)'
    BY <2>1, <2>2 DEF SlotOf, Holds
  <2> QED
    BY <1>2, <1>3, <1>4, <2>1, <2>3, <2>4, <2>5
<1>7. CASE HearsAck
  <2>1. /\ m[1] = "ack" /\ m[2] \in Servers /\ running' = running \ {m[2]}
        /\ inbox' = Append(Tail(inbox), <<"add", Delayed>>)
        /\ UNCHANGED <<timers, found, wanted>>
    BY <1>1, <1>7, MessageParts DEF HearsAck
  <2>2. <<"add", Delayed>> \in Messages
    BY TimersConstants DEF Messages
  <2>3. TypeOK'
    BY <1>1, <1>2, <2>1, <2>2, AppendToQueue DEF TypeOK
  <2>4. OneTimerPerHandler' /\ TimersAreKept'
    BY <1>2, <2>1 DEF OneTimerPerHandler, TimersAreKept, SlotOf, Holds
  <2>5. Started(Delayed)
    BY TimersConstants DEF Started
  <2>6. (\A k \in 1 .. Len(inbox) : inbox[k][1] = "add" => Started(inbox[k][2]))'
    <3>1. \A k \in 1 .. Len(inbox') :
              \/ k \in 1 .. Len(Tail(inbox)) /\ inbox'[k] = Tail(inbox)[k]
              \/ inbox'[k] = <<"add", Delayed>>
      BY <1>1, <2>1, <2>2, AppendToQueue
    <3> QED
      BY <1>3, <1>4, <2>5, <3>1
  <2> QED
    BY <1>2, <1>3, <2>1, <2>3, <2>4, <2>6
<1> QED
  BY <1>5, <1>6, <1>7 DEF Hears

LEMMA RemovesKeepsIInv ==
  ASSUME IInv, Removes
  PROVE  IInv'
<1> USE DEF IInv
<1>1. found \in Slots
  BY TimersConstants DEF Removes, TypeOK, Slots
<1>2. /\ \A k \in Slots : timers'[k] = IF k = found THEN Free ELSE timers[k]
      /\ timers' \in [Slots -> {Free} \cup (Handlers \X Clock)]
  BY <1>1, ClearSlot DEF Removes
<1>3. /\ found' = 0
      /\ UNCHANGED <<clock, next, seen, running, place, inbox, on, asks, wanted, missed>>
  BY DEF Removes
<1>4. TypeOK'
  BY <1>2, <1>3, TimersConstants DEF TypeOK
<1>5. OneTimerPerHandler'
  BY <1>2 DEF OneTimerPerHandler, SlotOf, Holds
<1>6. \A h \in wanted : SlotOf(h) # {} => SlotOf(h)' # {}
  <2> SUFFICES ASSUME NEW h \in wanted, NEW k \in SlotOf(h) PROVE k \in SlotOf(h)'
    OBVIOUS
  <2>1. k # found
    BY <1>1 DEF Removes, SlotOf, Holds
  <2> QED
    BY <1>2, <2>1 DEF SlotOf, Holds
<1>7. TimersAreKept'
  BY <1>3, <1>6 DEF TimersAreKept
<1>8. \A h : Started(h) <=> Started(h)'
  BY <1>3 DEF Started
<1> QED
  BY <1>3, <1>4, <1>5, <1>7, <1>8

-----------------------------------------------------------------------------
(* The timer thread. *)

LEMMA WakesKeepsIInv ==
  ASSUME IInv, Wakes
  PROVE  IInv'
<1> USE DEF IInv
<1>1. clock' \in Clock
  BY TimersConstants DEF Wakes, TypeOK, Clock
<1>2. TypeOK'
  BY <1>1, TimersConstants DEF Wakes, TypeOK
<1>3. OneTimerPerHandler' /\ TimersAreKept'
  BY DEF Wakes, OneTimerPerHandler, TimersAreKept, SlotOf, Holds
<1>4. \A h : Started(h) <=> Started(h)'
  BY DEF Wakes, Started
<1> QED
  BY <1>2, <1>3, <1>4 DEF Wakes

LEMMA LooksKeepsIInv ==
  ASSUME IInv, Looks
  PROVE  IInv'
<1> USE DEF IInv
<1>1. next \in Slots
  BY TimersConstants DEF Looks, TypeOK, Slots
<1>2. UNCHANGED <<clock, seen, running, place, inbox, found, asks, wanted>>
  BY DEF Looks
<1>3. next' \in 0 .. TimerNumber
  BY <1>1, TimersConstants DEF Looks, Moves, Slots
<1>4. \A h : Started(h) <=> Started(h)'
  BY <1>2 DEF Started
<1> SUFFICES /\ TypeOK' /\ OneTimerPerHandler' /\ TimersAreKept'
             /\ (found # 0 => timers[found] = Free \/ timers[found][1] \notin wanted)'
  BY <1>2, <1>4
<1>5. CASE UNCHANGED <<timers, missed>> /\ on' \subseteq Handlers
  BY <1>2, <1>3, <1>5 DEF TypeOK, OneTimerPerHandler, TimersAreKept, SlotOf, Holds
<1> DEFINE h == timers[next][1]
           tick == timers[next][2]
<1>6. ASSUME timers[next] # Free
      PROVE  h \in Handlers /\ tick \in Clock
  BY <1>1, <1>6 DEF TypeOK
<1>7. ASSUME timers[next] # Free, Drops(h)
      PROVE  /\ TypeOK' /\ OneTimerPerHandler' /\ TimersAreKept'
             /\ (found # 0 => timers[found] = Free \/ timers[found][1] \notin wanted)'
  <2>1. /\ \A k \in Slots : timers'[k] = IF k = next THEN Free ELSE timers[k]
        /\ timers' \in [Slots -> {Free} \cup (Handlers \X Clock)]
    BY <1>1, <1>7, ClearSlot DEF Drops
  <2>2. on' = on /\ missed' = IF Owner[h] \in running THEN missed \cup {h} ELSE missed
    BY <1>7 DEF Drops
  <2>3. TypeOK'
    BY <1>2, <1>3, <1>6, <1>7, <2>1, <2>2 DEF TypeOK
  <2>4. OneTimerPerHandler'
    BY <2>1 DEF OneTimerPerHandler, SlotOf, Holds
  <2>5. TimersAreKept'
    <3> SUFFICES ASSUME NEW g \in wanted \ Once, Owner[g] \in running, g \notin missed'
                 PROVE  SlotOf(g)' # {}
      BY <1>2 DEF TimersAreKept
    <3>1. g \notin missed /\ g # h
      BY <2>2
    <3>2. PICK k \in Slots : Holds(k, g)
      BY <3>1 DEF TimersAreKept, SlotOf
    <3>3. k # next
      BY <3>1, <3>2 DEF Holds
    <3> QED
      BY <2>1, <3>2, <3>3 DEF SlotOf, Holds
  <2>6. (found # 0 => timers[found] = Free \/ timers[found][1] \notin wanted)'
    BY <1>2, <2>1, TimersConstants DEF TypeOK, Slots
  <2> QED
    BY <2>3, <2>4, <2>5, <2>6
<1>8. ASSUME timers[next] # Free, Fires(h, tick)
      PROVE  /\ TypeOK' /\ OneTimerPerHandler' /\ TimersAreKept'
             /\ (found # 0 => timers[found] = Free \/ timers[found][1] \notin wanted)'
  <2>1. on' \subseteq Handlers /\ missed' = missed
    BY <1>6, <1>8 DEF Fires, TypeOK
  <2>2. CASE h \in Once
    <3>1. /\ \A k \in Slots : timers'[k] = IF k = next THEN Free ELSE timers[k]
          /\ timers' \in [Slots -> {Free} \cup (Handlers \X Clock)]
      BY <1>1, <1>8, <2>2, ClearSlot DEF Fires
    <3>2. TypeOK'
      BY <1>2, <1>3, <2>1, <3>1 DEF TypeOK
    <3>3. OneTimerPerHandler'
      BY <3>1 DEF OneTimerPerHandler, SlotOf, Holds
    <3>4. \A g \in Handlers \ Once : SlotOf(g) \subseteq SlotOf(g)'
      BY <1>1, <2>2, <3>1 DEF SlotOf, Holds
    <3>5. TimersAreKept'
      BY <1>2, <2>1, <3>4 DEF TimersAreKept, TypeOK
    <3>6. (found # 0 => timers[found] = Free \/ timers[found][1] \notin wanted)'
      BY <1>2, <3>1, TimersConstants DEF TypeOK, Slots
    <3> QED
      BY <3>2, <3>3, <3>5, <3>6
  <2>3. CASE h \notin Once
    <3>1. timers' = [timers EXCEPT ![next] = <<h, clock>>]
      BY <1>8, <2>3 DEF Fires
    <3>2. /\ \A k \in Slots : timers'[k] = IF k = next THEN <<h, clock>> ELSE timers[k]
          /\ timers' \in [Slots -> {Free} \cup (Handlers \X Clock)]
          /\ <<h, clock>> # Free /\ <<h, clock>>[1] = h
      <4> HIDE DEF h
      <4> QED
        BY <1>1, <1>6, <1>8, <3>1, SetSlot DEF TypeOK
    <3>3. TypeOK'
      BY <1>2, <1>3, <2>1, <3>2 DEF TypeOK
    <3>4. \A g \in Handlers : SlotOf(g)' = SlotOf(g)
      BY <1>1, <1>8, <3>2 DEF SlotOf, Holds
    <3>5. OneTimerPerHandler'
      BY <3>4 DEF OneTimerPerHandler
    <3>6. TimersAreKept'
      BY <1>2, <2>1, <3>4 DEF TimersAreKept, TypeOK
    <3>7. (found # 0 => timers[found] = Free \/ timers[found][1] \notin wanted)'
      BY <1>2, <1>8, <3>2, TimersConstants DEF TypeOK, Slots
    <3> QED
      BY <3>3, <3>5, <3>6, <3>7
  <2> QED
    BY <2>2, <2>3
<1>9. CASE timers[next] = Free
  BY <1>5, <1>9 DEF Looks, TypeOK
<1>10. CASE timers[next] # Free
  <2>1. Drops(h) \/ Fires(h, tick) \/ Passes(h, tick)
    BY <1>10 DEF Looks
  <2>2. CASE Passes(h, tick)
    BY <1>5, <2>2 DEF Passes, TypeOK
  <2> QED
    BY <1>7, <1>8, <1>10, <2>1, <2>2
<1> QED
  BY <1>9, <1>10

-----------------------------------------------------------------------------
(* The servers. *)

LEMMA AsksKeepsIInv ==
  ASSUME IInv, NEW s \in Servers, Asks(s)
  PROVE  IInv'
<1> USE DEF IInv
<1>1. PICK m \in ({"add"} \X Handlers) \cup ({"remove"} \X GivenUp) :
          Owner[m[2]] = s /\ inbox' = Append(inbox, m)
  BY DEF Asks
<1>2. m \in Messages
  BY TimersConstants DEF Messages
<1>3. /\ place[s] = "up" /\ asks' = asks - 1 /\ asks > 0
      /\ UNCHANGED <<timers, clock, next, seen, running, place, found, on, wanted, missed>>
  BY DEF Asks
<1>4. TypeOK'
  BY <1>1, <1>2, <1>3, AppendToQueue, TimersConstants DEF TypeOK
<1>5. OneTimerPerHandler' /\ TimersAreKept'
  BY <1>3 DEF OneTimerPerHandler, TimersAreKept, SlotOf, Holds
<1>6. \A h : Started(h) <=> Started(h)'
  BY <1>3 DEF Started
<1>7. Started(m[2])
  BY <1>1, <1>3 DEF Started
<1>8. (\A k \in 1 .. Len(inbox) : inbox[k][1] = "add" => Started(inbox[k][2]))'
  <2>1. \A k \in 1 .. Len(inbox') :
            \/ k \in 1 .. Len(inbox) /\ inbox'[k] = inbox[k]
            \/ inbox'[k] = m
    BY <1>1, <1>2, AppendToQueue DEF TypeOK
  <2> QED
    BY <1>6, <1>7, <2>1
<1> QED
  BY <1>3, <1>4, <1>5, <1>6, <1>8

LEMMA ExitsKeepsIInv ==
  ASSUME IInv, NEW s \in Servers, Exits(s)
  PROVE  IInv'
<1> USE DEF IInv
<1>1. /\ inbox' = Append(inbox, <<"ack", s>>) /\ place' = [place EXCEPT ![s] = "gone"]
      /\ UNCHANGED <<timers, clock, next, seen, running, found, asks, wanted, missed>>
      /\ on' \subseteq on
  BY DEF Exits
<1>2. <<"ack", s>> \in Messages
  BY DEF Messages
<1>3. TypeOK'
  BY <1>1, <1>2, AppendToQueue DEF TypeOK
<1>4. OneTimerPerHandler' /\ TimersAreKept'
  BY <1>1 DEF OneTimerPerHandler, TimersAreKept, SlotOf, Holds
<1>5. \A h : Started(h) => Started(h)'
  BY <1>1 DEF Started, TypeOK
<1>6. (\A k \in 1 .. Len(inbox) : inbox[k][1] = "add" => Started(inbox[k][2]))'
  <2>1. \A k \in 1 .. Len(inbox') :
            \/ k \in 1 .. Len(inbox) /\ inbox'[k] = inbox[k]
            \/ inbox'[k] = <<"ack", s>>
    BY <1>1, <1>2, AppendToQueue DEF TypeOK
  <2> QED
    BY <1>5, <2>1
<1>7. (running \subseteq {r \in Servers : place[r] # "off"})'
  BY <1>1 DEF TypeOK
<1> QED
  BY <1>1, <1>3, <1>4, <1>5, <1>6, <1>7

LEMMA HandlesKeepsIInv ==
  ASSUME IInv, NEW h \in Handlers, Handles(h)
  PROVE  IInv'
<1>1. \A g : Started(g) <=> Started(g)'
  BY DEF Handles, Started
<1> QED
  BY <1>1 DEF Handles, IInv, TypeOK, OneTimerPerHandler, TimersAreKept, SlotOf, Holds

LEMMA StutterKeepsIInv ==
  ASSUME IInv, UNCHANGED vars
  PROVE  IInv'
<1>1. \A g : Started(g) <=> Started(g)'
  BY DEF vars, Started
<1> QED
  BY <1>1 DEF vars, IInv, TypeOK, OneTimerPerHandler, TimersAreKept, SlotOf, Holds

-----------------------------------------------------------------------------
(* The theorems. *)

(* The inductive invariant. *)
THEOREM Inductive == Spec => []IInv
<1>1. IInv /\ [Next]_vars => IInv'
  BY StartsKeepsIInv, HearsKeepsIInv, RemovesKeepsIInv, WakesKeepsIInv, LooksKeepsIInv,
     AsksKeepsIInv, ExitsKeepsIInv, HandlesKeepsIInv, StutterKeepsIInv
  DEF Next, Main, Timer
<1> QED
  BY <1>1, InitIInv, PTL DEF Spec

(* The variables of the manager's timers stay in their types.              *)
THEOREM TimersAreTyped == Spec => []TypeOK
BY Inductive, PTL DEF IInv

(* A handler has at most one slot of the table.                            *)
THEOREM HandlersHaveOneTimer == Spec => []OneTimerPerHandler
BY Inductive, PTL DEF IInv

(* A periodic timer of a running server leaves the table only when it is   *)
(* given up, or in a round that began before its server was started.       *)
THEOREM RunningServersKeepTimers == Spec => []TimersAreKept
BY Inductive, PTL DEF IInv
=============================================================================
