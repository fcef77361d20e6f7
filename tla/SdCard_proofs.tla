----------------------------- MODULE SdCard_proofs -----------------------------
(***************************************************************************)
(* The memory card for every set of workers, buffers of any length and any *)
(* number of requests and mishaps: InTurn of module SdCard is inductive as *)
(* long as requests do not overlap, and gives CardIsLeftAlone; the types   *)
(* hold whatever happens, and no worker sleeps without an answer due.      *)
(***************************************************************************)
EXTENDS SdCard, SequenceTheorems, FiniteSetTheorems, TLAPS

(* The part of the types that the argument needs.                          *)
Types ==
  /\ card \in Status
  /\ answered \subseteq Workers /\ toTell \subseteq Workers
  /\ reply.to \subseteq Workers /\ reply.says \in {"ok", "no"}
  /\ questions \in Seq(Workers)
  /\ inbox \in [Workers -> Seq(Message)]
  /\ phase \in [Workers -> Phase]
  /\ thread \in [Workers -> {"none", "created", "open", "ghost"}]
  /\ ready \subseteq Workers /\ excused \subseteq Workers /\ lost \subseteq Workers

IInv == Types /\ (~overlapped => InTurn)

(* What appending a message and taking one away do to the orders in a      *)
(* buffer.                                                                 *)
LEMMA OrdersAppend ==
  ASSUME NEW q \in Seq(Message), NEW m \in Message
  PROVE  /\ Append(q, m) \in Seq(Message)
         /\ m # "FORMAT_START" => Orders(Append(q, m)) = Orders(q)
         /\ m = "FORMAT_START" /\ Orders(q) = {} => Orders(Append(q, m)) = {Len(q) + 1}
<1>1. /\ Append(q, m) \in Seq(Message) /\ Len(Append(q, m)) = Len(q) + 1 /\ Len(q) \in Nat
      /\ Append(q, m)[Len(q) + 1] = m
      /\ \A i \in 1 .. Len(q) : Append(q, m)[i] = q[i]
  BY AppendProperties
<1> QED
  BY <1>1 DEF Orders

LEMMA OrdersTail ==
  ASSUME NEW q \in Seq(Message), q # <<>>
  PROVE  /\ Tail(q) \in Seq(Message) /\ Head(q) \in Message
         /\ Orders(q) = {} => Orders(Tail(q)) = {} /\ Head(q) # "FORMAT_START"
         /\ \A i \in Nat : Orders(q) = {i} =>
               IF Head(q) = "FORMAT_START" THEN Orders(Tail(q)) = {}
               ELSE i - 1 \in Nat /\ Orders(Tail(q)) = {i - 1}
<1>1. /\ Tail(q) \in Seq(Message) /\ Len(Tail(q)) = Len(q) - 1 /\ Len(q) \in Nat \ {0}
      /\ Head(q) = q[1] /\ q[1] \in Message
      /\ \A i \in 1 .. Len(Tail(q)) : Tail(q)[i] = q[i + 1]
  OBVIOUS
<1>2. \A i \in Nat : i \in Orders(Tail(q)) <=> i # 0 /\ i + 1 \in Orders(q)
  BY <1>1 DEF Orders
<1>3. Head(q) = "FORMAT_START" <=> 1 \in Orders(q)
  BY <1>1 DEF Orders
<1>4. Orders(Tail(q)) \subseteq Nat /\ Orders(q) \subseteq Nat \ {0}
  BY <1>1 DEF Orders
<1>5. Orders(q) = {} => Orders(Tail(q)) = {} /\ Head(q) # "FORMAT_START"
  BY <1>2, <1>3, <1>4
<1>6. ASSUME NEW i \in Nat, Orders(q) = {i}
      PROVE  IF Head(q) = "FORMAT_START" THEN Orders(Tail(q)) = {}
             ELSE i - 1 \in Nat /\ Orders(Tail(q)) = {i - 1}
  <2>1. i # 0
    BY <1>4, <1>6
  <2>2. \A k \in Nat : k \in Orders(Tail(q)) <=> k # 0 /\ k = i - 1
    BY <1>2, <1>6
  <2>3. Head(q) = "FORMAT_START" <=> i = 1
    BY <1>3, <1>6
  <2>4. CASE i = 1
    BY <1>4, <2>2, <2>3, <2>4
  <2>5. CASE i # 1
    BY <1>4, <2>1, <2>2, <2>3, <2>5
  <2> QED
    BY <2>4, <2>5
<1> QED
  BY <1>1, <1>5, <1>6

(* What a buffer that overruns does to them.                               *)
LEMMA PushTyped ==
  ASSUME NEW S, NEW q \in Seq(S), NEW m \in S
  PROVE  /\ Push(q, m) \in Seq(S)
         /\ Len(q) = Capacity => q # <<>>
         /\ Push(q, m) # <<>>
<1>1. Len(q) = Capacity => q # <<>>
  BY SdCardAssumption
<1>2. CASE Len(q) = Capacity
  <2>1. Tail(q) \in Seq(S)
    BY <1>1, <1>2
  <2>2. Append(Tail(q), m) \in Seq(S) /\ Append(Tail(q), m) # <<>>
    BY <2>1, AppendProperties
  <2> QED
    BY <1>1, <1>2, <2>2 DEF Push
<1>3. CASE Len(q) # Capacity
  <2>1. Append(q, m) \in Seq(S) /\ Append(q, m) # <<>>
    BY AppendProperties
  <2> QED
    BY <1>1, <1>3, <2>1 DEF Push
<1> QED
  BY <1>2, <1>3

LEMMA OrdersPush ==
  ASSUME NEW q \in Seq(Message), NEW m \in Message
  PROVE  /\ Push(q, m) \in Seq(Message)
         /\ m # "FORMAT_START" /\ Orders(q) = {} => Orders(Push(q, m)) = {}
         /\ Len(q) = Capacity /\ Orders(q) = {} => Head(q) # "FORMAT_START"
         /\ m = "FORMAT_START" /\ Orders(q) = {} => \E k \in Nat : Orders(Push(q, m)) = {k}
         /\ m # "FORMAT_START" /\ (\E k \in Nat : Orders(q) = {k}) =>
               IF Len(q) = Capacity /\ Head(q) = "FORMAT_START" THEN Orders(Push(q, m)) = {}
               ELSE \E k \in Nat : Orders(Push(q, m)) = {k}
<1>1. CASE Len(q) = Capacity
  <2>1. q # <<>> /\ Push(q, m) = Append(Tail(q), m)
    BY <1>1, PushTyped DEF Push
  <2>2. /\ Tail(q) \in Seq(Message) /\ Len(Tail(q)) + 1 \in Nat
        /\ Orders(q) = {} => Orders(Tail(q)) = {} /\ Head(q) # "FORMAT_START"
        /\ \A i \in Nat : Orders(q) = {i} =>
               IF Head(q) = "FORMAT_START" THEN Orders(Tail(q)) = {}
               ELSE i - 1 \in Nat /\ Orders(Tail(q)) = {i - 1}
    BY <2>1, OrdersTail
  <2>3. /\ Append(Tail(q), m) \in Seq(Message)
        /\ m # "FORMAT_START" => Orders(Append(Tail(q), m)) = Orders(Tail(q))
        /\ m = "FORMAT_START" /\ Orders(Tail(q)) = {} =>
              Orders(Append(Tail(q), m)) = {Len(Tail(q)) + 1}
    BY <2>2, OrdersAppend
  <2> QED
    BY <1>1, <2>1, <2>2, <2>3
<1>2. CASE Len(q) # Capacity
  <2>1. Push(q, m) = Append(q, m) /\ Len(q) + 1 \in Nat
    BY <1>2 DEF Push
  <2> QED
    BY <1>2, <2>1, OrdersAppend
<1> QED
  BY <1>1, <1>2

(* A worker of whom nothing changes that InTurn speaks of.                 *)
Same(w) ==
  /\ (w \in toTell)' <=> w \in toTell
  /\ inbox[w]' = inbox[w] /\ phase[w]' = phase[w] /\ thread[w]' = thread[w]
  /\ (w \in ready)' <=> w \in ready
  /\ (w \in excused)' <=> w \in excused
  /\ (w \in lost)' <=> w \in lost

LEMMA SameWorker ==
  ASSUME NEW w, Same(w)
  PROVE  /\ NoOrder(w)' <=> NoOrder(w)
         /\ Ordered(w)' <=> Ordered(w)
         /\ Quiet(w)' <=> Quiet(w)
BY DEF Same, NoOrder, OneOrder, Ordered, Quiet, Orders, Reinits

(* The types of the buffers after a delivery.                              *)
LEMMA DeliverTyped ==
  ASSUME inbox \in [Workers -> Seq(Message)], lost \subseteq Workers,
         NEW ws \in SUBSET Workers, NEW m \in Message, Deliver(ws, m)
  PROVE  /\ inbox' \in [Workers -> Seq(Message)] /\ lost' \subseteq Workers
         /\ \A w \in Workers : w \in ws => inbox'[w] # <<>>
         /\ \A w \in Workers : inbox[w] # <<>> => inbox'[w] # <<>>
<1>1. \A w \in Workers : /\ Push(inbox[w], m) \in Seq(Message) /\ inbox[w] \in Seq(Message)
                         /\ Push(inbox[w], m) # <<>>
  BY PushTyped
<1>2. /\ inbox' = [w \in Workers |-> IF w \in ws THEN Push(inbox[w], m) ELSE inbox[w]]
      /\ lost' \subseteq Workers
  BY DEF Deliver
<1> QED
  BY <1>1, <1>2

(* A delivery of anything but an order: it may drop an order that waits.   *)
LEMMA DeliverKeeps ==
  ASSUME IInv, NEW ws \in SUBSET Workers, NEW m \in Message \ {"FORMAT_START"},
         Deliver(ws, m), NEW w \in Workers,
         (w \in toTell)' <=> w \in toTell, Reinits(w)' <=> Reinits(w)
  PROVE  (NoOrder(w) => NoOrder(w)') /\ (Ordered(w) => Ordered(w)')
<1> DEFINE q == inbox[w]
<1>1. /\ inbox'[w] = IF w \in ws THEN Push(q, m) ELSE q
      /\ w \in lost => w \in lost'
      /\ w \in ws /\ Len(q) = Capacity /\ Head(q) = "FORMAT_START" => w \in lost'
  BY DEF Deliver
<1>2. /\ Orders(q) = {} => Orders(inbox'[w]) = {}
      /\ (\E k \in Nat : Orders(q) = {k}) =>
            IF w \in ws /\ Len(q) = Capacity /\ Head(q) = "FORMAT_START"
            THEN Orders(inbox'[w]) = {}
            ELSE \E k \in Nat : Orders(inbox'[w]) = {k}
  <2>1. q \in Seq(Message) /\ m \in Message
    BY DEF IInv, Types
  <2> HIDE DEF q
  <2> QED
    BY <1>1, <2>1, OrdersPush
<1>3. NoOrder(w) => NoOrder(w)'
  BY <1>2 DEF NoOrder
<1>4. OneOrder(w) => Ordered(w)'
  BY <1>1, <1>2 DEF OneOrder, Ordered, NoOrder
<1> QED
  BY <1>1, <1>3, <1>4 DEF Ordered

(* A step that leaves the SD thread's variables alone and keeps what InTurn *)
(* says of every worker keeps InTurn.                                      *)
LEMMA WorkersOnly ==
  ASSUME InTurn, UNCHANGED <<card, turn, answered>>,
         \A w \in Workers :
            /\ NoOrder(w) => NoOrder(w)'
            /\ Asked /\ w \notin answered /\ Ordered(w) => Ordered(w)'
            /\ Obeyed \/ (Asked /\ w \in answered) => (NoOrder(w) /\ Quiet(w) => Quiet(w)')
  PROVE  InTurn'
<1>1. (Asked' <=> Asked) /\ (Obeyed' <=> Obeyed) /\ (TurnFits' <=> TurnFits)
  BY DEF Asked, Obeyed, TurnFits
<1>2. \A w \in Workers : Obeyed \/ (Asked /\ w \in answered) => NoOrder(w)
  BY DEF InTurn, Asked, Obeyed
<1> QED
  BY <1>1, <1>2 DEF InTurn

LEMMA InitIInv == Init => IInv
BY DEF Init, IInv, Types, InTurn, TurnFits, Asked, Obeyed, NoOrder, Orders, Quiet,
       Reinits, Phase, Status, NoReply

-----------------------------------------------------------------------------
(* The SD thread. *)

LEMMA SdStepKeeps ==
  ASSUME IInv, SdStep
  PROVE  IInv'
<1>1. /\ UNCHANGED <<toTell, overlapped, questions, reply, inbox, phase, ready, thread, excused,
                    lost>>
  BY DEF SdStep, cloudVars, deviceVars, workerVars, boxVars, loopVars
<1>2. card' \in Status /\ answered' \subseteq Workers
  BY DEF SdStep, SdTurn, SdLooks, SdMounts, SdCannotMount, SdAgrees, SdClears, SdUnmounts,
         SdFormats, SdEjected, SdWaits, SdWrites, SdReadsList, IInv, Types, Status
<1>3. Types'
  BY <1>1, <1>2 DEF IInv, Types
<1>4. \A w \in Workers : /\ NoOrder(w)' <=> NoOrder(w)
                         /\ Ordered(w)' <=> Ordered(w)
                         /\ Quiet(w)' <=> Quiet(w)
  BY <1>1, SameWorker DEF Same
<1> SUFFICES ASSUME InTurn PROVE InTurn'
  BY <1>1, <1>3 DEF IInv
<1>5. CASE SdLooks \/ SdMounts \/ SdCannotMount \/ SdReadsList \/ SdWaits
  BY <1>4, <1>5 DEF SdLooks, SdMounts, SdCannotMount, SdReadsList, SdWaits, SdTurn,
                    InTurn, TurnFits, Asked, Obeyed
<1>6. CASE SdAgrees
  BY <1>4, <1>6 DEF SdAgrees, SdTurn, InTurn, TurnFits, Asked, Obeyed
<1>7. CASE SdClears
  BY <1>4, <1>7 DEF SdClears, SdTurn, InTurn, TurnFits, Asked, Obeyed
<1>8. CASE SdUnmounts \/ SdFormats
  BY <1>4, <1>8 DEF SdUnmounts, SdFormats, InTurn, TurnFits, Asked, Obeyed
<1>9. CASE SdEjected
  BY <1>4, <1>9 DEF SdEjected, InTurn, TurnFits, Asked, Obeyed
<1>10. CASE SdWrites
  BY <1>4, <1>10 DEF SdWrites, InTurn, TurnFits, Asked, Obeyed, Status
<1> QED
  BY <1>5, <1>6, <1>7, <1>8, <1>9, <1>10 DEF SdStep

-----------------------------------------------------------------------------
(* The slot and the cloud client. *)

LEMMA PlugKeeps ==
  ASSUME IInv, Plug \/ Hotplug
  PROVE  IInv'
<1>1. UNCHANGED <<card, turn, answered, toTell, overlapped, questions, reply, inbox, phase,
                  ready, thread, excused, lost>>
  BY DEF Plug, Hotplug, sdVars, cloudVars, deviceVars, workerVars, boxVars, loopVars
<1>2. \A w \in Workers : /\ NoOrder(w)' <=> NoOrder(w)
                         /\ Ordered(w)' <=> Ordered(w)
                         /\ Quiet(w)' <=> Quiet(w)
  BY <1>1, SameWorker DEF Same
<1>3. Types'
  BY <1>1 DEF IInv, Types
<1>4. ~overlapped => InTurn'
  BY <1>1, <1>2, WorkersOnly DEF IInv
<1> QED
  BY <1>1, <1>3, <1>4 DEF IInv

(* A request that overlaps nothing finds all workers without an order.     *)
LEMMA RequestKeeps ==
  ASSUME IInv, NEW status \in {"FORMAT", "UNMOUNT"}, Request(status)
  PROVE  IInv'
<1>1. /\ card' = status /\ toTell' = Workers
      /\ UNCHANGED <<turn, answered, questions, reply, inbox, phase, ready, thread, excused,
                     lost>>
      /\ ~overlapped' => ~overlapped /\ card \notin Busy /\ turn \in {"idle", "list"}
  BY DEF Request, cardVars, deviceVars, workerVars, boxVars, loopVars
<1>2. Types'
  BY <1>1 DEF IInv, Types, Status
<1> SUFFICES ASSUME ~overlapped' PROVE InTurn'
  BY <1>2 DEF IInv
<1>3. /\ InTurn /\ ~Asked /\ ~Obeyed /\ answered = {}
      /\ turn = "list" => card = "MOUNT"
  BY <1>1 DEF IInv, InTurn, Busy, Asked, Obeyed, TurnFits
<1>4. TurnFits' /\ Asked' /\ ~Obeyed' /\ answered' = {}
  BY <1>1, <1>3 DEF TurnFits, Asked, Obeyed
<1>5. \A w \in Workers : Ordered(w)'
  BY <1>1, <1>3 DEF InTurn, NoOrder, OneOrder, Ordered, Orders, Reinits
<1> QED
  BY <1>4, <1>5 DEF InTurn

LEMMA TellKeeps ==
  ASSUME IInv, NEW w \in Workers, Tell(w)
  PROVE  IInv'
<1>1. /\ w \in toTell /\ toTell' = toTell \ {w} /\ Deliver({w}, "FORMAT_START")
      /\ UNCHANGED <<card, turn, answered, overlapped, questions, reply, phase, ready, thread,
                     excused>>
  BY DEF Tell, sdVars, deviceVars, loopVars
<1>2. /\ inbox[w] \in Seq(Message) /\ "FORMAT_START" \in Message
      /\ inbox'[w] = Push(inbox[w], "FORMAT_START")
  BY <1>1 DEF IInv, Types, Message, Deliver
<1>3. Orders(inbox[w]) = {} => \E k \in Nat : Orders(inbox'[w]) = {k}
  BY <1>2, OrdersPush
<1>4. Types'
  <2>1. inbox' \in [Workers -> Seq(Message)] /\ lost' \subseteq Workers
    BY <1>1, <1>2, DeliverTyped DEF IInv, Types
  <2> QED
    BY <1>1, <2>1 DEF IInv, Types
<1>5. ASSUME NEW v \in Workers
      PROVE  /\ NoOrder(v) => NoOrder(v)'
             /\ Ordered(v) => Ordered(v)'
             /\ Quiet(v) => Quiet(v)'
  <2>1. CASE v = w
    BY <1>1, <1>3, <2>1 DEF NoOrder, OneOrder, Ordered, Quiet, Reinits
  <2>2. CASE v # w
    <3>1. Same(v)
      BY <1>1, <2>2 DEF Same, Deliver
    <3> QED
      BY <3>1, SameWorker
  <2> QED
    BY <2>1, <2>2
<1>6. ~overlapped => InTurn'
  BY <1>1, <1>5, WorkersOnly DEF IInv
<1> QED
  BY <1>1, <1>4, <1>6 DEF IInv

-----------------------------------------------------------------------------
(* The device server. *)

LEMMA DeviceLooksKeeps ==
  ASSUME IInv, DeviceLooks
  PROVE  IInv'
<1>1. /\ UNCHANGED <<card, turn, answered, toTell, overlapped, inbox, phase, ready, thread, excused,
                     lost>>
      /\ questions # <<>> /\ questions' = Tail(questions)
      /\ reply' = [to |-> {Head(questions)}, says |-> IF card = "MOUNT" THEN "ok" ELSE "no"]
  BY DEF DeviceLooks, sdVars, cloudVars, workerVars, boxVars, loopVars
<1>2. questions' \in Seq(Workers) /\ Head(questions) \in Workers
  BY <1>1 DEF IInv, Types
<1>3. reply'.to \subseteq Workers /\ reply'.says \in {"ok", "no"}
  BY <1>1, <1>2
<1>4. Types'
  BY <1>1, <1>2, <1>3 DEF IInv, Types
<1>5. \A w \in Workers : /\ NoOrder(w)' <=> NoOrder(w)
                         /\ Ordered(w)' <=> Ordered(w)
                         /\ Quiet(w)' <=> Quiet(w)
  BY <1>1, SameWorker DEF Same
<1>6. ~overlapped => InTurn'
  BY <1>1, <1>5, WorkersOnly DEF IInv
<1> QED
  BY <1>1, <1>4, <1>6 DEF IInv

LEMMA DeviceRepliesKeeps ==
  ASSUME IInv, DeviceReplies
  PROVE  IInv'
<1>1. /\ UNCHANGED <<card, turn, answered, toTell, overlapped, questions, phase, ready, thread,
                     excused>>
      /\ reply' = NoReply /\ Deliver(reply.to, reply.says)
  BY DEF DeviceReplies, sdVars, cloudVars, loopVars
<1>2. /\ reply.says \in Message \ {"FORMAT_START"} /\ reply.to \in SUBSET Workers
      /\ reply'.to \subseteq Workers /\ reply'.says \in {"ok", "no"}
  BY <1>1 DEF IInv, Types, Message, NoReply
<1>3. Types'
  <2>1. inbox' \in [Workers -> Seq(Message)] /\ lost' \subseteq Workers
    BY <1>1, <1>2, DeliverTyped DEF IInv, Types
  <2> QED
    BY <1>1, <1>2, <2>1 DEF IInv, Types
<1>4. \A w \in Workers : /\ NoOrder(w) => NoOrder(w)'
                         /\ Ordered(w) => Ordered(w)'
                         /\ Quiet(w) => Quiet(w)'
  BY <1>1, <1>2, DeliverKeeps DEF Quiet, Reinits
<1>5. ~overlapped => InTurn'
  BY <1>1, <1>4, WorkersOnly DEF IInv
<1> QED
  BY <1>1, <1>3, <1>5 DEF IInv

-----------------------------------------------------------------------------
(* The workers. *)

(* A step of one worker that sends nothing and leaves the others alone.    *)
LEMMA OneWorker ==
  ASSUME IInv, Types', NEW w \in Workers, UNCHANGED <<card, turn, answered, overlapped>>,
         \A v \in Workers \ {w} : Same(v),
         ~overlapped /\ InTurn =>
            /\ NoOrder(w) => NoOrder(w)'
            /\ Asked /\ w \notin answered /\ Ordered(w) => Ordered(w)'
            /\ Obeyed \/ (Asked /\ w \in answered) => (NoOrder(w) /\ Quiet(w) => Quiet(w)')
  PROVE  IInv'
<1>1. \A v \in Workers \ {w} : /\ NoOrder(v)' <=> NoOrder(v)
                               /\ Ordered(v)' <=> Ordered(v)
                               /\ Quiet(v)' <=> Quiet(v)
  BY SameWorker
<1>2. ~overlapped => InTurn'
  BY <1>1, WorkersOnly DEF IInv
<1> QED
  BY <1>2 DEF IInv

LEMMA WorkerAsksKeeps ==
  ASSUME IInv, NEW w \in Workers, WorkerAsks(w)
  PROVE  IInv'
<1>1. /\ UNCHANGED <<card, turn, answered, toTell, overlapped, reply, inbox, phase, ready, thread,
                     excused, lost>>
      /\ questions' = Push(questions, w)
  BY DEF WorkerAsks, workerEnv, sdVars, cloudVars, boxVars
<1>2. questions' \in Seq(Workers)
  BY <1>1, PushTyped DEF IInv, Types
<1>3. Types'
  BY <1>1, <1>2 DEF IInv, Types
<1>4. \A v \in Workers : Same(v)
  BY <1>1 DEF Same
<1> QED
  BY <1>1, <1>3, <1>4, OneWorker, SameWorker

(* A message that is no order, and a step of the worker's phase or of its  *)
(* job thread beside it that makes nobody record.                          *)
LEMMA DeliveryKeeps ==
  ASSUME IInv, NEW w \in Workers, Deliver({w}, "other"), phase' \in [Workers -> Phase],
         thread' \in [Workers -> {"none", "created", "open", "ghost"}],
         UNCHANGED <<card, turn, answered, toTell, overlapped, questions, reply, ready, excused>>,
         \A v \in Workers \ {w} : phase'[v] = phase[v] /\ thread'[v] = thread[v],
         Reinits(w)' <=> Reinits(w), Quiet(w) => Quiet(w)'
  PROVE  IInv'
<1>1. "other" \in Message \ {"FORMAT_START"} /\ {w} \in SUBSET Workers
  BY DEF Message
<1>2. Types'
  <2>1. inbox' \in [Workers -> Seq(Message)] /\ lost' \subseteq Workers
    BY <1>1, DeliverTyped DEF IInv, Types
  <2> QED
    BY <2>1 DEF IInv, Types
<1>3. \A v \in Workers \ {w} : Same(v)
  BY DEF Same, Deliver
<1>4. (NoOrder(w) => NoOrder(w)') /\ (Ordered(w) => Ordered(w)')
  BY <1>1, DeliverKeeps
<1> QED
  BY <1>2, <1>3, <1>4, OneWorker

LEMMA OthersKeeps ==
  ASSUME IInv, NEW w \in Workers, Others(w)
  PROVE  IInv'
<1>1. /\ UNCHANGED <<card, turn, answered, toTell, overlapped, questions, reply, phase, ready,
                     thread, excused>>
      /\ Deliver({w}, "other")
  BY DEF Others, sdVars, cloudVars, deviceVars, loopVars
<1>2. /\ phase' \in [Workers -> Phase]
      /\ thread' \in [Workers -> {"none", "created", "open", "ghost"}]
      /\ (Reinits(w)' <=> Reinits(w)) /\ (Quiet(w) => Quiet(w)')
  BY <1>1 DEF IInv, Types, Reinits, Quiet
<1> QED
  BY <1>1, <1>2, DeliveryKeeps

LEMMA WorkerTellsKeeps ==
  ASSUME IInv, NEW w \in Workers, WorkerTells(w)
  PROVE  IInv'
<1>1. /\ UNCHANGED <<card, turn, answered, toTell, overlapped, questions, reply, ready, thread,
                     excused>>
      /\ Deliver({w}, "other")
      /\ phase[w] = "reinit" /\ phase' = [phase EXCEPT ![w] = "joins"]
  BY DEF WorkerTells, workerEnv, sdVars, cloudVars, deviceVars
<1>2. /\ phase' \in [Workers -> Phase] /\ phase'[w] = "joins"
      /\ thread' \in [Workers -> {"none", "created", "open", "ghost"}]
      /\ \A v \in Workers \ {w} : phase'[v] = phase[v] /\ thread'[v] = thread[v]
  BY <1>1 DEF IInv, Types, Phase
<1>3. (Reinits(w)' <=> Reinits(w)) /\ (Quiet(w) => Quiet(w)')
  BY <1>1, <1>2 DEF Reinits, Quiet
<1> QED
  BY <1>1, <1>2, <1>3, DeliveryKeeps

LEMMA WorkerStartsKeeps ==
  ASSUME IInv, NEW w \in Workers, WorkerStarts(w)
  PROVE  IInv'
<1>1. /\ UNCHANGED <<card, turn, answered, toTell, overlapped, questions, reply, inbox, ready,
                     thread, excused, lost>>
      /\ phase' = [phase EXCEPT ![w] = "run"] /\ phase[w] = "init" /\ w \in ready
  BY DEF WorkerStarts, workerEnv, sdVars, cloudVars, deviceVars, boxVars
<1>2. Types' /\ phase'[w] = "run"
  BY <1>1 DEF IInv, Types, Phase
<1>3. \A v \in Workers \ {w} : Same(v)
  BY <1>1 DEF Same, IInv, Types
<1>4. /\ NoOrder(w) => NoOrder(w)'
      /\ Ordered(w) => Ordered(w)'
      /\ Quiet(w) => Quiet(w)'
  BY <1>1, <1>2 DEF NoOrder, OneOrder, Ordered, Quiet, Orders, Reinits
<1> QED
  BY <1>1, <1>2, <1>3, <1>4, OneWorker

(* The order is taken from the buffer and into STATUS_REINIT; an "ok" that *)
(* comes while the card is not there is a misleading one.                  *)
LEMMA WorkerHearsKeeps ==
  ASSUME IInv, NEW w \in Workers, WorkerHears(w)
  PROVE  IInv'
<1> DEFINE q == inbox[w]
<1>1. /\ UNCHANGED <<card, turn, answered, toTell, overlapped, questions, reply, thread,
                     lost>>
      /\ q # <<>> /\ phase[w] \in {"init", "run"}
      /\ inbox' = [inbox EXCEPT ![w] = Tail(q)]
      /\ phase' = IF Head(q) = "FORMAT_START" THEN [phase EXCEPT ![w] = "reinit"] ELSE phase
      /\ ready' = IF Head(q) = "ok" THEN ready \cup {w} ELSE ready
      /\ excused' = IF Head(q) = "ok" /\ card # "MOUNT" THEN excused \cup {w} ELSE excused
  BY DEF WorkerHears, workerEnv, sdVars, cloudVars, deviceVars
<1>2. /\ Tail(q) \in Seq(Message)
      /\ Orders(q) = {} => Orders(Tail(q)) = {} /\ Head(q) # "FORMAT_START"
      /\ \A i \in Nat : Orders(q) = {i} =>
               IF Head(q) = "FORMAT_START" THEN Orders(Tail(q)) = {}
               ELSE i - 1 \in Nat /\ Orders(Tail(q)) = {i - 1}
  <2>1. q \in Seq(Message)
    BY DEF IInv, Types
  <2> HIDE DEF q
  <2> QED
    BY <1>1, <2>1, OrdersTail
<1>3. /\ inbox' \in [Workers -> Seq(Message)] /\ inbox'[w] = Tail(q)
      /\ phase' \in [Workers -> Phase]
      /\ phase'[w] = IF Head(q) = "FORMAT_START" THEN "reinit" ELSE phase[w]
      /\ \A v \in Workers \ {w} : inbox'[v] = inbox[v] /\ phase'[v] = phase[v]
  BY <1>1, <1>2 DEF IInv, Types, Phase
<1>4. ready' \subseteq Workers /\ excused' \subseteq Workers
  BY <1>1 DEF IInv, Types
<1>5. Types'
  BY <1>1, <1>3, <1>4 DEF IInv, Types
<1>6. \A v \in Workers \ {w} : Same(v)
  BY <1>1, <1>3 DEF Same
<1>7. NoOrder(w) => NoOrder(w)'
  BY <1>1, <1>2, <1>3 DEF NoOrder, Reinits
<1>8. Ordered(w) => Ordered(w)'
  <2>1. OneOrder(w) => OneOrder(w)'
    BY <1>1, <1>2, <1>3 DEF OneOrder, Reinits
  <2> QED
    BY <1>1, <1>7, <2>1 DEF Ordered
<1>9. Obeyed \/ Asked => (NoOrder(w) /\ Quiet(w) => Quiet(w)')
  <2> SUFFICES ASSUME Obeyed \/ Asked, NoOrder(w), Quiet(w) PROVE Quiet(w)'
    OBVIOUS
  <2>1. card # "MOUNT" /\ Head(q) # "FORMAT_START"
    BY <1>2 DEF Obeyed, Asked, NoOrder
  <2>2. CASE Head(q) = "ok"
    BY <1>1, <2>1, <2>2 DEF Quiet
  <2>3. CASE Head(q) # "ok"
    BY <1>1, <1>3, <2>1, <2>3 DEF Quiet
  <2> QED
    BY <2>2, <2>3
<1> QED
  BY <1>1, <1>5, <1>6, <1>7, <1>8, <1>9, OneWorker

(* The answer: who had not answered does, and is quiet from now on.        *)
LEMMA WorkerAnswersKeeps ==
  ASSUME IInv, NEW w \in Workers, WorkerAnswers(w)
  PROVE  IInv'
<1>1. /\ UNCHANGED <<card, turn, toTell, overlapped, questions, reply, inbox, ready, thread,
                     lost>>
      /\ phase[w] = "joins" /\ thread[w] # "open"
      /\ phase' = [phase EXCEPT ![w] = "answered"]
      /\ answered' = IF Asked THEN answered \cup {w} ELSE answered
      /\ excused' = IF thread[w] = "none" THEN excused \ {w} ELSE excused \cup {w}
  BY DEF WorkerAnswers, SetResponse, Asked, cloudVars, deviceVars, boxVars
<1>2. /\ Types' /\ phase'[w] = "answered"
      /\ \A v \in Workers \ {w} : phase'[v] = phase[v]
  BY <1>1 DEF IInv, Types, Phase
<1>3. \A v \in Workers \ {w} : Same(v)
  BY <1>1, <1>2 DEF Same
<1>4. \A v \in Workers \ {w} : /\ NoOrder(v)' <=> NoOrder(v)
                               /\ Ordered(v)' <=> Ordered(v)
                               /\ Quiet(v)' <=> Quiet(v)
  BY <1>3, SameWorker
<1> SUFFICES ASSUME ~overlapped PROVE InTurn'
  BY <1>1, <1>2 DEF IInv
<1>5. InTurn /\ Asked /\ w \notin answered /\ OneOrder(w)
  BY <1>1 DEF IInv, InTurn, NoOrder, Ordered, Reinits
<1>6. /\ w \notin toTell /\ Orders(inbox[w]) = {}
  BY <1>1, <1>5 DEF OneOrder, Reinits
<1>7. NoOrder(w)' /\ Quiet(w)'
  BY <1>1, <1>2, <1>6 DEF NoOrder, Quiet, Reinits
<1>8. Asked' /\ ~Obeyed' /\ answered' = answered \cup {w}
  BY <1>1, <1>5 DEF Asked, Obeyed
<1>9. TurnFits'
  BY <1>1, <1>5 DEF InTurn, TurnFits, Asked
<1>10. \A v \in Workers : IF v \in answered' THEN NoOrder(v)' /\ Quiet(v)' ELSE Ordered(v)'
  BY <1>4, <1>5, <1>7, <1>8 DEF InTurn
<1> QED
  BY <1>8, <1>9, <1>10 DEF InTurn

LEMMA WorkerResetsKeeps ==
  ASSUME IInv, NEW w \in Workers, WorkerResets(w)
  PROVE  IInv'
<1>1. /\ UNCHANGED <<card, turn, answered, toTell, overlapped, questions, reply, inbox, excused,
                     lost>>
      /\ phase[w] = "answered" /\ phase' = [phase EXCEPT ![w] = "init"]
      /\ ready' = ready \ {w}
      /\ thread' = [thread EXCEPT ![w] = IF @ = "open" THEN "ghost" ELSE @]
  BY DEF WorkerResets, workerEnv, sdVars, cloudVars, deviceVars, boxVars
<1>2. /\ Types' /\ phase'[w] = "init" /\ (thread[w] = "none" => thread'[w] = "none")
      /\ \A v \in Workers \ {w} : phase'[v] = phase[v] /\ thread'[v] = thread[v]
  BY <1>1 DEF IInv, Types, Phase
<1>3. \A v \in Workers \ {w} : Same(v)
  BY <1>1, <1>2 DEF Same
<1>4. /\ NoOrder(w) => NoOrder(w)'
      /\ Ordered(w) => Ordered(w)'
      /\ Quiet(w) => Quiet(w)'
  BY <1>1, <1>2 DEF NoOrder, OneOrder, Ordered, Quiet, Orders, Reinits
<1> QED
  BY <1>1, <1>2, <1>3, <1>4, OneWorker

(* A job thread of a quiet worker does not come to be.                     *)
LEMMA JobKeeps ==
  ASSUME IInv, NEW w \in Workers, JobCreated(w) \/ JobRuns(w)
  PROVE  IInv'
<1>1. UNCHANGED <<card, turn, answered, toTell, overlapped, questions, reply, inbox, phase, ready,
                  excused, lost>>
  BY DEF JobCreated, JobRuns, workerEnv, sdVars, cloudVars, deviceVars, boxVars
<1>2. /\ Types' /\ \A v \in Workers \ {w} : thread'[v] = thread[v]
      /\ phase[w] = "run" \/ thread[w] # "none"
  BY <1>1 DEF JobCreated, JobRuns, IInv, Types
<1>3. \A v \in Workers \ {w} : Same(v)
  BY <1>1, <1>2 DEF Same
<1>4. /\ NoOrder(w) => NoOrder(w)'
      /\ Ordered(w) => Ordered(w)'
      /\ Quiet(w) => Quiet(w)'
  BY <1>1, <1>2 DEF NoOrder, OneOrder, Ordered, Quiet, Orders, Reinits
<1> QED
  BY <1>1, <1>2, <1>3, <1>4, OneWorker

LEMMA JobEndsKeeps ==
  ASSUME IInv, NEW w \in Workers, JobEnds(w)
  PROVE  IInv'
<1>1. /\ UNCHANGED <<card, turn, answered, toTell, overlapped, questions, reply, phase, ready,
                     excused>>
      /\ Deliver({w}, "other") /\ thread' = [thread EXCEPT ![w] = "none"]
  BY DEF JobEnds, workerEnv, sdVars, cloudVars, deviceVars
<1>2. /\ phase' \in [Workers -> Phase] /\ thread'[w] = "none"
      /\ thread' \in [Workers -> {"none", "created", "open", "ghost"}]
      /\ \A v \in Workers \ {w} : phase'[v] = phase[v] /\ thread'[v] = thread[v]
  BY <1>1 DEF IInv, Types
<1>3. (Reinits(w)' <=> Reinits(w)) /\ (Quiet(w) => Quiet(w)')
  BY <1>1, <1>2 DEF Reinits, Quiet
<1> QED
  BY <1>1, <1>2, <1>3, DeliveryKeeps

LEMMA StutterKeeps ==
  ASSUME IInv, UNCHANGED vars
  PROVE  IInv'
<1>1. UNCHANGED <<card, turn, answered, toTell, overlapped, questions, reply, inbox, phase, ready,
                  thread, excused, lost>>
  BY DEF vars, sdVars, cloudVars, deviceVars, workerVars, boxVars, loopVars
<1>2. Types'
  BY <1>1 DEF IInv, Types
<1>3. \A v \in Workers : Same(v)
  BY <1>1 DEF Same
<1>4. ~overlapped => InTurn'
  BY <1>1, <1>3, SameWorker, WorkersOnly DEF IInv
<1> QED
  BY <1>1, <1>2, <1>4 DEF IInv

-----------------------------------------------------------------------------
(* The theorems. *)

LEMMA NextKeeps == IInv /\ [Next]_vars => IInv'
BY SdStepKeeps, PlugKeeps, RequestKeeps, TellKeeps, DeviceLooksKeeps, DeviceRepliesKeeps,
   OthersKeeps, WorkerAsksKeeps, WorkerStartsKeeps, WorkerHearsKeeps, WorkerTellsKeeps,
   WorkerAnswersKeeps, WorkerResetsKeeps, JobKeeps, JobEndsKeeps, StutterKeeps
DEF Next, Format, Unmount, WorkerStep

(* The inductive invariant.                                                *)
THEOREM Inductive == Spec => []IInv
BY InitIInv, NextKeeps, PTL DEF Spec

(* While the card is unmounted or formatted no worker has files open on it *)
(* but for the named races, however many workers and requests there are.   *)
THEOREM CardIsLeftAloneAlways == Spec => []CardIsLeftAlone
<1>1. IInv => CardIsLeftAlone
  BY DEF IInv, InTurn, CardIsLeftAlone, Obeyed, Quiet, Using
<1> QED
  BY <1>1, Inductive, PTL

-----------------------------------------------------------------------------
(* The types.                                                              *)

(* Types at the start.                                                     *)
LEMMA TypesInit == Init => TypeOK
<1> SUFFICES ASSUME Init PROVE TypeOK
  OBVIOUS
<1>1. <<>> \in Seq(Workers) /\ <<>> \in Seq({"add", "remove"}) /\ <<>> \in Seq(Message)
  OBVIOUS
<1>2. reply.to = {} /\ reply.says = "no"
  BY DEF Init, NoReply
<1>3. /\ card \in Status /\ turn = "idle" /\ answered = {} /\ toTell = {} /\ ready = {}
      /\ asked = {} /\ excused = {} /\ initWait \in BOOLEAN /\ mounted \in BOOLEAN
      /\ present \in BOOLEAN /\ overlapped \in BOOLEAN /\ lost = {} /\ unheard = {}
  BY DEF Init, Status
<1>4. requests \in 0 .. MaxRequests /\ mishaps \in 0 .. MaxMishaps
  BY SdCardAssumption DEF Init
<1>5. /\ phase \in [Workers -> Phase]
      /\ thread \in [Workers -> {"none", "created", "open", "ghost"}]
  BY DEF Init, Phase
<1>6. /\ inbox \in [Workers -> Seq(Message)] /\ uevents \in Seq({"add", "remove"})
      /\ questions \in Seq(Workers)
  BY <1>1, Zenon DEF Init
<1> QED BY <1>2, <1>3, <1>4, <1>5, <1>6 DEF TypeOK

(* Types in every step.                                                    *)
LEMMA TypesNext == TypeOK /\ [Next]_vars => TypeOK'
<1> SUFFICES ASSUME TypeOK, [Next]_vars PROVE TypeOK'
  OBVIOUS
<1> USE SdCardAssumption
<1>a. ASSUME NEW ws \in SUBSET Workers, NEW m \in Message, Deliver(ws, m)
      PROVE  inbox' \in [Workers -> Seq(Message)] /\ lost' \subseteq Workers
  BY <1>a, DeliverTyped DEF TypeOK
<1>b. ASSUME Mishap PROVE mishaps' \in 0 .. MaxMishaps
  BY <1>b DEF Mishap, TypeOK
<1>1. CASE SdStep
  <2>1. UNCHANGED <<cardVars, cloudVars, deviceVars, workerVars>>
    BY <1>1 DEF SdStep
  <2>2. /\ card' \in Status
        /\ turn' \in Status \cup {"idle", "list", "wait", "umount", "eject", "mkfs"}
    BY <1>1 DEF TypeOK, Status, SdStep, SdTurn, SdLooks, SdMounts, SdCannotMount, SdAgrees, SdClears,
       SdUnmounts, SdFormats, SdEjected, SdWaits, SdWrites, SdReadsList
  <2>3. answered' \subseteq Workers /\ initWait' \in BOOLEAN /\ mounted' \in BOOLEAN
    BY <1>1 DEF TypeOK, SdStep, SdTurn, SdLooks, SdMounts, SdCannotMount, SdAgrees, SdClears,
       SdUnmounts, SdFormats, SdEjected, SdWaits, SdWrites, SdReadsList
  <2>4. mishaps' = mishaps \/ Mishap
    BY <1>1 DEF SdStep, SdLooks, SdMounts, SdCannotMount, SdAgrees, SdClears,
       SdUnmounts, SdFormats, SdEjected, SdWaits, SdWrites, SdReadsList
  <2>5. mishaps' \in 0 .. MaxMishaps
    BY <1>b, <2>4 DEF TypeOK
  <2> QED BY <2>1, <2>2, <2>3, <2>5 DEF TypeOK, cardVars, cloudVars, deviceVars, workerVars,
                                        boxVars, loopVars
<1>2. CASE Plug
  <2>1. uevents' \in Seq({"add", "remove"})
    BY <1>2 DEF Plug, TypeOK
  <2>2. present' \in BOOLEAN /\ mishaps' \in 0 .. MaxMishaps
    BY <1>2, <1>b DEF Plug, TypeOK
  <2>3. UNCHANGED <<sdVars, cloudVars, deviceVars, workerVars>>
    BY <1>2 DEF Plug
  <2> QED BY <2>1, <2>2, <2>3 DEF TypeOK, sdVars, cloudVars, deviceVars, workerVars, boxVars,
                                  loopVars
<1>3. CASE Hotplug
  <2>1. uevents' \in Seq({"add", "remove"})
    BY <1>3 DEF Hotplug, TypeOK
  <2>2. /\ UNCHANGED <<card, turn, answered, mounted, present, cloudVars, deviceVars, workerVars,
                       mishaps>>
        /\ initWait' \in BOOLEAN
    BY <1>3 DEF Hotplug
  <2> QED BY <2>1, <2>2 DEF TypeOK, cloudVars, deviceVars, workerVars, boxVars, loopVars
<1>4. CASE Format \/ Unmount
  <2>1. card' \in Status /\ toTell' = Workers /\ requests' \in 0 .. MaxRequests
    BY <1>4 DEF Format, Unmount, Request, TypeOK, Status
  <2>2. overlapped' \in BOOLEAN
    BY <1>4 DEF Format, Unmount, Request
  <2>3. UNCHANGED <<turn, answered, initWait, mounted, cardVars, deviceVars, workerVars, mishaps>>
    BY <1>4 DEF Format, Unmount, Request
  <2> QED BY <2>1, <2>2, <2>3 DEF TypeOK, cardVars, deviceVars, workerVars, boxVars, loopVars
<1>5. CASE DeviceLooks
  <2>1. questions' \in Seq(Workers) /\ Head(questions) \in Workers
    BY <1>5 DEF DeviceLooks, TypeOK
  <2>2. reply'.to = {Head(questions)} /\ reply'.says \in {"ok", "no"}
    BY <1>5 DEF DeviceLooks
  <2> QED BY <1>5, <2>1, <2>2 DEF DeviceLooks, TypeOK, sdVars, cardVars, cloudVars, workerVars,
                                  boxVars, loopVars
<1>6. CASE DeviceReplies
  <2>1. reply'.to = {} /\ reply'.says = "no"
    BY <1>6 DEF DeviceReplies, NoReply
  <2>2. reply.says \in Message /\ reply.to \in SUBSET Workers
    BY DEF TypeOK, Message
  <2>3. inbox' \in [Workers -> Seq(Message)] /\ lost' \subseteq Workers
    BY <1>6, <1>a, <2>2 DEF DeviceReplies
  <2> QED BY <1>6, <2>1, <2>3 DEF DeviceReplies, TypeOK, sdVars, cardVars, cloudVars, loopVars
<1>7. ASSUME NEW w \in Workers, Tell(w) \/ Others(w) PROVE TypeOK'
  <2>1. {w} \in SUBSET Workers /\ "FORMAT_START" \in Message /\ "other" \in Message
    BY DEF Message
  <2>2. inbox' \in [Workers -> Seq(Message)] /\ lost' \subseteq Workers
    BY <1>7, <1>a, <2>1 DEF Tell, Others
  <2>3. mishaps' \in 0 .. MaxMishaps
    BY <1>7, <1>b DEF Tell, Others, TypeOK
  <2> QED BY <1>7, <2>2, <2>3 DEF Tell, Others, TypeOK, sdVars, cardVars, cloudVars, deviceVars,
                                  loopVars
<1>8. ASSUME NEW w \in Workers, WorkerAsks(w) PROVE TypeOK'
  <2>1. questions' \in Seq(Workers) /\ asked' \subseteq Workers
    BY <1>8, PushTyped DEF WorkerAsks, TypeOK
  <2>2. \A q \in Seq(Workers) : Range(q) \subseteq Workers
    BY DEF Range
  <2>3. unheard' \subseteq Workers
    BY <1>8, <2>2 DEF WorkerAsks, TypeOK
  <2> QED BY <1>8, <2>1, <2>3 DEF WorkerAsks, TypeOK, workerEnv, sdVars, cardVars, cloudVars,
                                  boxVars
<1>9. ASSUME NEW w \in Workers, WorkerHears(w) PROVE TypeOK'
  <2>1. inbox[w] \in Seq(Message) /\ Tail(inbox[w]) \in Seq(Message)
    BY <1>9 DEF TypeOK, WorkerHears
  <2>2. inbox' \in [Workers -> Seq(Message)]
    BY <1>9, <2>1 DEF WorkerHears, TypeOK
  <2>3. phase' \in [Workers -> Phase]
    BY <1>9 DEF WorkerHears, TypeOK, Phase
  <2>4. /\ asked' \subseteq Workers /\ ready' \subseteq Workers /\ excused' \subseteq Workers
        /\ unheard' \subseteq Workers
    BY <1>9 DEF WorkerHears, TypeOK
  <2> QED BY <1>9, <2>2, <2>3, <2>4 DEF WorkerHears, TypeOK, workerEnv, sdVars, cardVars,
                                        cloudVars, deviceVars
<1>10. ASSUME NEW w \in Workers, WorkerStarts(w) \/ WorkerResets(w) PROVE TypeOK'
  <2>1. /\ phase' \in [Workers -> Phase]
        /\ thread' \in [Workers -> {"none", "created", "open", "ghost"}]
        /\ asked' \subseteq Workers /\ ready' \subseteq Workers
    BY <1>10 DEF WorkerStarts, WorkerResets, TypeOK, Phase
  <2> QED BY <1>10, <2>1 DEF WorkerStarts, WorkerResets, TypeOK, workerEnv, sdVars, cardVars,
                             cloudVars, deviceVars, boxVars
<1>11. ASSUME NEW w \in Workers, WorkerAnswers(w) PROVE TypeOK'
  <2>1. /\ phase' \in [Workers -> Phase]
        /\ answered' \subseteq Workers /\ excused' \subseteq Workers
    BY <1>11 DEF WorkerAnswers, SetResponse, TypeOK, Phase
  <2> QED BY <1>11, <2>1 DEF WorkerAnswers, TypeOK, cardVars, cloudVars, deviceVars, boxVars
<1>12. ASSUME NEW w \in Workers, WorkerTells(w) \/ JobEnds(w) PROVE TypeOK'
  <2>1. {w} \in SUBSET Workers /\ "other" \in Message
    BY DEF Message
  <2>2. inbox' \in [Workers -> Seq(Message)] /\ lost' \subseteq Workers
    BY <1>12, <1>a, <2>1 DEF WorkerTells, JobEnds
  <2>3. /\ phase' \in [Workers -> Phase]
        /\ thread' \in [Workers -> {"none", "created", "open", "ghost"}]
    BY <1>12 DEF WorkerTells, JobEnds, TypeOK, Phase
  <2> QED BY <1>12, <2>2, <2>3 DEF WorkerTells, JobEnds, TypeOK, workerEnv, sdVars, cardVars,
                                   cloudVars, deviceVars
<1>13. ASSUME NEW w \in Workers, JobCreated(w) \/ JobRuns(w) PROVE TypeOK'
  <2>1. thread' \in [Workers -> {"none", "created", "open", "ghost"}]
    BY <1>13 DEF JobCreated, JobRuns, TypeOK
  <2> QED BY <1>13, <2>1 DEF JobCreated, JobRuns, TypeOK, workerEnv, sdVars, cardVars, cloudVars,
                             deviceVars, boxVars
<1>14. CASE UNCHANGED vars
  BY <1>14 DEF TypeOK, vars, sdVars, cardVars, cloudVars, deviceVars, workerVars, boxVars, loopVars
<1> QED
  BY <1>1, <1>2, <1>3, <1>4, <1>5, <1>6, <1>7, <1>8, <1>9, <1>10, <1>11, <1>12, <1>13, <1>14
  DEF Next, WorkerStep

(* Type correctness of the card, its threads and the buffers.              *)
THEOREM SdCardIsTyped == Spec => []TypeOK
BY TypesInit, TypesNext, PTL DEF Spec

-----------------------------------------------------------------------------
(* The questions.                                                          *)

(* Who has a question in the buffer when one is added, and one is taken.   *)
LEMMA RangePush ==
  ASSUME NEW q \in Seq(Workers), NEW w \in Workers
  PROVE  w \in Range(Push(q, w))
<1>1. \A r \in Seq(Workers) : w \in Range(Append(r, w))
  <2> TAKE r \in Seq(Workers)
  <2>1. /\ Len(r) + 1 \in DOMAIN Append(r, w) /\ Append(r, w)[Len(r) + 1] = w
    BY AppendProperties
  <2> QED BY <2>1 DEF Range
<1>2. CASE Len(q) = Capacity
  <2>1. q # <<>>
    BY <1>2, PushTyped
  <2>2. Tail(q) \in Seq(Workers)
    BY <2>1
  <2> QED BY <1>1, <1>2, <2>2 DEF Push
<1>3. CASE Len(q) # Capacity
  BY <1>1, <1>3 DEF Push
<1> QED BY <1>2, <1>3

LEMMA RangeTail ==
  ASSUME NEW q \in Seq(Workers), q # <<>>, NEW w \in Range(q)
  PROVE  w = Head(q) \/ w \in Range(Tail(q))
<1>1. /\ Tail(q) \in Seq(Workers) /\ Len(Tail(q)) = Len(q) - 1 /\ Len(q) \in Nat \ {0}
      /\ Head(q) = q[1] /\ DOMAIN q = 1 .. Len(q) /\ DOMAIN Tail(q) = 1 .. Len(Tail(q))
      /\ \A i \in 1 .. Len(Tail(q)) : Tail(q)[i] = q[i + 1]
  OBVIOUS
<1>2. PICK i \in 1 .. Len(q) : q[i] = w
  BY <1>1 DEF Range
<1>3. CASE i # 1
  <2>1. i - 1 \in DOMAIN Tail(q) /\ Tail(q)[i - 1] = w
    BY <1>1, <1>2, <1>3
  <2> QED BY <2>1 DEF Range
<1> QED BY <1>1, <1>2, <1>3

(* A sleeper has an answer due.                                            *)
Due(w) == w \in Range(questions) \cup reply.to \cup unheard

Sleeps(w) == phase[w] = "init" /\ w \in asked /\ inbox[w] = <<>>

(* Nobody sleeps at the start, who falls asleep has just asked, and what   *)
(* is due to a sleeper moves on to its buffer, or is noted as pushed out.  *)
LEMMA SleepersNext == TypeOK /\ SleepersAreAnswered /\ [Next]_vars => SleepersAreAnswered'
<1> SUFFICES ASSUME TypeOK, SleepersAreAnswered, [Next]_vars, NEW w \in Workers, Sleeps(w)'
             PROVE  Due(w)'
  BY DEF SleepersAreAnswered, Sleeps, Due
<1>0. Sleeps(w) => Due(w)
  BY DEF SleepersAreAnswered, Sleeps, Due
<1>a. \A ws \in SUBSET Workers, m \in Message :
         Deliver(ws, m) => w \notin ws /\ inbox[w] = <<>>
  BY DeliverTyped DEF TypeOK, Sleeps
<1>b. \A m \in Message, v \in Workers : Deliver({v}, m) => w # v /\ inbox[w] = <<>>
  BY <1>a
<1>1. CASE SdStep \/ Plug \/ Hotplug \/ Format \/ Unmount \/ UNCHANGED vars
  <2>1. UNCHANGED <<inbox, questions, reply, unheard, asked, phase>>
    BY <1>1 DEF SdStep, Plug, Hotplug, Format, Unmount, Request, vars, deviceVars, workerVars,
                boxVars, loopVars
  <2> QED BY <1>0, <2>1 DEF Sleeps, Due
<1>2. ASSUME NEW v \in Workers, Tell(v) \/ Others(v) PROVE Due(w)'
  <2>1. UNCHANGED <<questions, reply, unheard, asked, phase>>
    BY <1>2 DEF Tell, Others, deviceVars, loopVars
  <2>2. inbox[w] = <<>>
    BY <1>2, <1>b DEF Tell, Others, Message
  <2> QED BY <1>0, <2>1, <2>2 DEF Sleeps, Due
<1>3. CASE DeviceLooks
  <2>1. /\ UNCHANGED <<inbox, unheard, asked, phase>>
        /\ questions # <<>> /\ questions' = Tail(questions)
        /\ reply.to = {} /\ reply'.to = {Head(questions)}
    BY <1>3 DEF DeviceLooks, NoReply, workerVars, boxVars, loopVars
  <2>2. questions \in Seq(Workers)
    BY DEF TypeOK
  <2> QED BY <1>0, <2>1, <2>2, RangeTail DEF Sleeps, Due
<1>4. CASE DeviceReplies
  <2>1. UNCHANGED <<questions, unheard, asked, phase>> /\ Deliver(reply.to, reply.says)
    BY <1>4 DEF DeviceReplies, loopVars
  <2>2. w \notin reply.to /\ inbox[w] = <<>>
    BY <1>a, <2>1 DEF TypeOK, Message
  <2> QED BY <1>0, <2>1, <2>2 DEF Sleeps, Due
<1>5. ASSUME NEW v \in Workers, WorkerAsks(v) PROVE Due(w)'
  <2>1. /\ UNCHANGED <<inbox, reply, phase>>
        /\ asked' = asked \cup {v} /\ questions' = Push(questions, v)
        /\ unheard' = unheard \cup (Range(questions) \ Range(questions'))
    BY <1>5 DEF WorkerAsks, boxVars
  <2>2. v \in Range(questions')
    BY <2>1, RangePush DEF TypeOK
  <2> QED BY <1>0, <2>1, <2>2 DEF Sleeps, Due
<1>6. ASSUME NEW v \in Workers, WorkerHears(v) PROVE Due(w)'
  <2>1. /\ UNCHANGED <<questions, reply>>
        /\ asked' = asked \ {v} /\ unheard' = unheard \ {v}
        /\ inbox' = [inbox EXCEPT ![v] = Tail(@)]
        /\ phase' \in {phase, [phase EXCEPT ![v] = "reinit"]}
    BY <1>6 DEF WorkerHears, deviceVars
  <2>2. w # v
    BY <2>1 DEF Sleeps
  <2>3. inbox'[w] = inbox[w] /\ phase'[w] = phase[w]
    BY <2>1, <2>2 DEF TypeOK
  <2> QED BY <1>0, <2>1, <2>2, <2>3 DEF Sleeps, Due
<1>7. ASSUME NEW v \in Workers, WorkerTells(v) \/ JobEnds(v) PROVE Due(w)'
  <2>1. /\ UNCHANGED <<questions, reply, unheard, asked>>
        /\ phase' \in {phase, [phase EXCEPT ![v] = "joins"]} /\ Deliver({v}, "other")
    BY <1>7 DEF WorkerTells, JobEnds, deviceVars
  <2>2. w # v /\ inbox[w] = <<>>
    BY <1>b, <2>1 DEF Message
  <2>3. phase'[w] = phase[w]
    BY <2>1, <2>2 DEF TypeOK
  <2> QED BY <1>0, <2>1, <2>2, <2>3 DEF Sleeps, Due
<1>8. ASSUME NEW v \in Workers, WorkerStarts(v) \/ WorkerAnswers(v) \/ WorkerResets(v)
      PROVE  Due(w)'
  <2>1. /\ UNCHANGED <<questions, reply, unheard, inbox>>
        /\ \A u \in Workers \ {v} : phase'[u] = phase[u] /\ (u \in asked' <=> u \in asked)
    BY <1>8 DEF WorkerStarts, WorkerAnswers, WorkerResets, deviceVars, boxVars, TypeOK
  <2>2. CASE w = v
    <3>1. WorkerResets(v)
      BY <1>8, <2>2 DEF WorkerStarts, WorkerAnswers, Sleeps, TypeOK
    <3> QED BY <2>1, <2>2, <3>1 DEF WorkerResets, Sleeps
  <2>3. CASE w # v
    BY <1>0, <2>1, <2>3 DEF Sleeps, Due
  <2> QED BY <2>2, <2>3
<1>9. ASSUME NEW v \in Workers, JobCreated(v) \/ JobRuns(v) PROVE Due(w)'
  <2>1. UNCHANGED <<inbox, questions, reply, unheard, asked, phase>>
    BY <1>9 DEF JobCreated, JobRuns, deviceVars, boxVars
  <2> QED BY <1>0, <2>1 DEF Sleeps, Due
<1> QED
  BY <1>1, <1>2, <1>3, <1>4, <1>5, <1>6, <1>7, <1>8, <1>9 DEF Next, WorkerStep

(* No worker in STATUS_INIT sleeps without an answer due, however the      *)
(* turns of all workers, the device server and the requests interleave and *)
(* whatever the buffers drop, unless its last question is what they drop.  *)
THEOREM SleepersAreAlwaysAnswered == Spec => []SleepersAreAnswered
<1>1. Init => SleepersAreAnswered
  BY DEF Init, SleepersAreAnswered
<1> QED BY <1>1, SleepersNext, SdCardIsTyped, PTL DEF Spec
=============================================================================
