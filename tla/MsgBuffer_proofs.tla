-------------------------- MODULE MsgBuffer_proofs -------------------------
(***************************************************************************)
(* Proofs about the message ring for every size and every message set: its *)
(* safety, and that it implements the queue of MsgQueue.                   *)
(***************************************************************************)
EXTENDS MsgBuffer, SequenceTheorems, TLAPS

LEMMA SizeIsPositive == Size \in Nat /\ Size >= 2
  BY SizeAssumption

(* Adding two offsets inside the ring wraps at most once.                  *)
LEMMA MaskOfSum ==
  ASSUME NEW a \in Index, NEW b \in 0 .. Size
  PROVE  /\ Mask(a + b) = IF a + b < Size THEN a + b ELSE a + b - Size
         /\ Mask(a + b) \in Index
  BY SizeIsPositive, SMT DEF Index, Mask

(* The distance from one index to another wraps at most once.              *)
LEMMA MaskOfDifference ==
  ASSUME NEW a \in Index, NEW b \in 0 .. Size
  PROVE  /\ Mask(a - b) = IF a >= b THEN a - b ELSE a - b + Size
         /\ Mask(a - b) \in Index
  BY SizeIsPositive, SMT DEF Index, Mask

(* The live slots are those from tail up to head, going round the end.     *)
Window(h, t) ==
  {i \in Index : IF t <= h THEN t <= i /\ i < h ELSE t <= i \/ i < h}

LEMMA LiveIsWindow ==
  ASSUME NEW h \in Index, NEW t \in Index, NEW i \in Index
  PROVE  Mask(i - t) < Mask(h - t) <=> i \in Window(h, t)
<1>1. t \in 0 .. Size
  BY SizeIsPositive DEF Index
<1>2. /\ Mask(i - t) = IF i >= t THEN i - t ELSE i - t + Size
      /\ Mask(h - t) = IF h >= t THEN h - t ELSE h - t + Size
  BY <1>1, MaskOfDifference
<1> QED
  BY <1>2, SizeIsPositive, SMT DEF Index, Window

LEMMA LiveNow ==
  ASSUME head \in Index, tail \in Index
  PROVE  \A i \in Index : IsLive(i) <=> i \in Window(head, tail)
<1> TAKE i \in Index
<1> QED
  BY LiveIsWindow DEF IsLive, NumItems

LEMMA LiveNext ==
  ASSUME head' \in Index, tail' \in Index
  PROVE  \A i \in Index : IsLive(i)' <=> i \in Window(head', tail')
<1> TAKE i \in Index
<1> QED
  BY LiveIsWindow DEF IsLive, NumItems

(* The ring's invariant, the strengthening that is inductive.              *)
IInv ==
  /\ TypeOK
  /\ SlotsOwnTheirArguments
  /\ LiveSlotsHoldMessages
  /\ SwapStaysInWindow

LEMMA InitIInv == Init => IInv
<1> SUFFICES ASSUME Init PROVE IInv
  OBVIOUS
<1>1. 0 \in Index /\ NoSwap \notin Index /\ head = 0 /\ tail = 0
  BY SizeIsPositive, MessagesAssumption, SMT DEF Index, Init
<1>2. \A i \in Index : ~IsLive(i)
  <2>1. Window(head, tail) = {}
    BY <1>1 DEF Window, Index
  <2> QED
    BY <1>1, <2>1, LiveNow
<1> QED
  BY <1>1, <1>2 DEF Init, IInv, TypeOK, SlotsOwnTheirArguments, Slot, Blank,
                    LiveSlotsHoldMessages, SwapStaysInWindow

(* One place on, and the number of messages, in linear arithmetic.         *)
LEMMA OnePlaceOn ==
  ASSUME NEW a \in Index
  PROVE  /\ Mask(a + 1) = IF a = Size - 1 THEN 0 ELSE a + 1
         /\ Mask(a - 1) = IF a = 0 THEN Size - 1 ELSE a - 1
         /\ Mask(a + 1) \in Index
         /\ Mask(a - 1) \in Index
<1>1. 1 \in 0 .. Size
  BY SizeIsPositive
<1> QED
  BY <1>1, SizeIsPositive, MaskOfSum, MaskOfDifference DEF Index

LEMMA NumItemsIs ==
  ASSUME head \in Index, tail \in Index
  PROVE  NumItems = IF head >= tail THEN head - tail ELSE head - tail + Size
<1>1. tail \in 0 .. Size
  BY SizeIsPositive DEF Index
<1> QED
  BY <1>1, MaskOfDifference DEF NumItems

LEMMA PushIInv ==
  ASSUME IInv, NEW m \in Messages, Push(m)
  PROVE  IInv'
<1> DEFINE W == Window(head, tail)
<1>1. TypeOK /\ head \in Index /\ tail \in Index
  BY DEF IInv, TypeOK
<1>2. head' \in Index /\ tail' \in Index
  BY <1>1, OnePlaceOn DEF Push
<1>3. IsFull <=> (IF head >= tail THEN head - tail = Size - 1
                                  ELSE head - tail = -1)
  BY <1>1, NumItemsIs, SizeIsPositive DEF IsFull, Index
<1>4. head \notin W
  BY <1>1, SizeIsPositive DEF Window, Index
<1>5. Window(head', tail') = (IF IsFull THEN W \ {tail} ELSE W) \cup {head}
  BY <1>1, <1>3, OnePlaceOn, SizeIsPositive DEF Window, Index, Push
<1>6. IsFull => tail # head
  BY <1>1, <1>3, SizeIsPositive DEF Index
<1>7. /\ \A i \in Index : IsLive(i) <=> i \in W
      /\ \A i \in Index : IsLive(i)' <=> i \in Window(head', tail')
  BY <1>1, <1>2, LiveNow, LiveNext
<1>8. /\ slots' \in [Index -> Slot]
      /\ slots'[head] = DeepCopy(m)
      /\ IsFull => slots'[tail] = Freed(slots[tail])
      /\ \A i \in Index : i # head /\ ~(IsFull /\ i = tail)
                            => slots'[i] = slots[i]
  <2>1. DeepCopy(m) \in Slot /\ Freed(slots[tail]) \in Slot
    <3>1. (m \in WithArg) \in BOOLEAN
      OBVIOUS
    <3>2. DeepCopy(m) \in Slot
      BY <3>1, Zenon DEF DeepCopy, Slot
    <3>3. slots[tail] \in Slot
      BY <1>1 DEF TypeOK
    <3>4. Freed(slots[tail]) \in Slot
      BY <3>3 DEF Freed, Slot
    <3> QED
      BY <3>2, <3>4
  <2>2. CASE IsFull
    BY <1>1, <1>6, <2>1, <2>2 DEF Push, TypeOK
  <2>3. CASE ~IsFull
    BY <1>1, <2>1, <2>3 DEF Push, TypeOK
  <2> QED
    BY <2>2, <2>3
<1>9. TypeOK'
  BY <1>1, <1>2, <1>8 DEF Push, TypeOK
<1>10. SlotsOwnTheirArguments'
  <2> SUFFICES ASSUME NEW i \in Index
               PROVE  slots'[i].arg <=> (IsLive(i)' /\ slots'[i].id \in WithArg)
    BY DEF SlotsOwnTheirArguments
  <2>1. CASE i = head
    <3>1. slots'[i].arg = (m \in WithArg) /\ slots'[i].id = m
      BY <2>1, <1>8 DEF DeepCopy
    <3>2. IsLive(i)'
      BY <2>1, <1>5, <1>7
    <3> QED
      BY <3>1, <3>2
  <2>2. CASE IsFull /\ i = tail
    BY <2>2, <1>5, <1>6, <1>7, <1>8 DEF Freed, TypeOK, Slot, IInv
  <2>3. CASE i # head /\ ~(IsFull /\ i = tail)
    BY <2>3, <1>5, <1>7, <1>8 DEF IInv, SlotsOwnTheirArguments
  <2> QED
    BY <2>1, <2>2, <2>3
<1>11. LiveSlotsHoldMessages'
  <2> SUFFICES ASSUME NEW i \in Index, IsLive(i)'
               PROVE  slots'[i].id \in Messages
    BY DEF LiveSlotsHoldMessages
  <2>1. CASE i = head
    BY <2>1, <1>8 DEF DeepCopy
  <2>2. CASE i # head
    BY <2>2, <1>5, <1>7, <1>8 DEF IInv, LiveSlotsHoldMessages
  <2> QED
    BY <2>1, <2>2
<1> QED
  BY <1>9, <1>10, <1>11 DEF IInv, SwapStaysInWindow, Push

LEMMA PopIInv ==
  ASSUME IInv, Pop
  PROVE  IInv'
<1> DEFINE W == Window(head, tail)
<1>1. TypeOK /\ head \in Index /\ tail \in Index
  BY DEF IInv, TypeOK
<1>2. head' \in Index /\ tail' \in Index
  BY <1>1, OnePlaceOn DEF Pop
<1>3. Window(head', tail') = W \ {tail} /\ tail \in W
  BY <1>1, OnePlaceOn, SizeIsPositive DEF Window, Index, Pop, IsEmpty
<1>4. /\ \A i \in Index : IsLive(i) <=> i \in W
      /\ \A i \in Index : IsLive(i)' <=> i \in Window(head', tail')
  BY <1>1, <1>2, LiveNow, LiveNext
<1>5. /\ slots' \in [Index -> Slot]
      /\ slots'[tail] = Freed(slots[tail])
      /\ \A i \in Index : i # tail => slots'[i] = slots[i]
  BY <1>1 DEF Pop, Freed, TypeOK, Slot
<1>6. slots[tail].id \in Messages
  BY <1>1, <1>3, <1>4 DEF IInv, LiveSlotsHoldMessages
<1>7. TypeOK'
  BY <1>1, <1>2, <1>5, <1>6 DEF Pop, TypeOK
<1>8. SlotsOwnTheirArguments'
  <2> SUFFICES ASSUME NEW i \in Index
               PROVE  slots'[i].arg <=> (IsLive(i)' /\ slots'[i].id \in WithArg)
    BY DEF SlotsOwnTheirArguments
  <2>1. CASE i = tail
    BY <2>1, <1>1, <1>3, <1>4, <1>5 DEF Freed, TypeOK, Slot
  <2>2. CASE i # tail
    BY <2>2, <1>3, <1>4, <1>5 DEF IInv, SlotsOwnTheirArguments
  <2> QED
    BY <2>1, <2>2
<1>9. LiveSlotsHoldMessages'
  BY <1>3, <1>4, <1>5 DEF IInv, LiveSlotsHoldMessages
<1> QED
  BY <1>7, <1>8, <1>9 DEF IInv, SwapStaysInWindow, Pop

(* Exchanging two live slots keeps everything but the order.               *)
LEMMA ExchangeKeepsSlots ==
  ASSUME IInv, UNCHANGED <<head, tail>>,
         NEW a \in Index, NEW b \in Index, IsLive(a), IsLive(b),
         slots' = SwapItem(a, b)
  PROVE  /\ slots' \in [Index -> Slot]
         /\ SlotsOwnTheirArguments'
         /\ LiveSlotsHoldMessages'
<1>1. slots \in [Index -> Slot]
  BY DEF IInv, TypeOK
<1>2. \A i \in Index : IsLive(i)' <=> IsLive(i)
  BY DEF IsLive, NumItems
<1>3. /\ slots' \in [Index -> Slot]
      /\ \A i \in Index : slots'[i] = IF i = b THEN slots[a]
                                      ELSE IF i = a THEN slots[b] ELSE slots[i]
  BY <1>1 DEF SwapItem
<1>4. SlotsOwnTheirArguments'
  BY <1>2, <1>3 DEF IInv, SlotsOwnTheirArguments
<1>5. LiveSlotsHoldMessages'
  BY <1>2, <1>3 DEF IInv, LiveSlotsHoldMessages
<1> QED
  BY <1>3, <1>4, <1>5

LEMMA SwapBeginIInv ==
  ASSUME IInv, NEW dest \in 1 .. NumItems - 1, SwapBegin(dest)
  PROVE  IInv'
<1> DEFINE d == Mask(tail + dest)
<1>1. TypeOK /\ head \in Index /\ tail \in Index
  BY DEF IInv, TypeOK
<1>2. NumItems = IF head >= tail THEN head - tail ELSE head - tail + Size
  BY <1>1, NumItemsIs
<1>3. dest \in 0 .. Size
  BY <1>1, <1>2, SizeIsPositive DEF Index
<1>4. d \in Index /\ d = IF tail + dest < Size THEN tail + dest
                                              ELSE tail + dest - Size
  BY <1>1, <1>3, MaskOfSum
<1>5. d # tail /\ d \in Window(head, tail) /\ tail \in Window(head, tail)
  BY <1>1, <1>2, <1>3, <1>4, SizeIsPositive DEF Window, Index
<1>6. IsLive(d) /\ IsLive(tail)
  BY <1>1, <1>4, <1>5, LiveNow
<1>7. IsLive(d)'
  BY <1>6 DEF IsLive, NumItems, SwapBegin
<1> QED
  BY <1>1, <1>4, <1>5, <1>6, <1>7, ExchangeKeepsSlots
     DEF SwapBegin, IInv, TypeOK, SwapStaysInWindow

LEMMA SwapStepIInv ==
  ASSUME IInv, SwapStep
  PROVE  IInv'
<1> DEFINE r == Mask(last - 1)
<1>1. TypeOK /\ head \in Index /\ tail \in Index /\ last \in Index
  BY DEF IInv, TypeOK, SwapStep
<1>2. IsLive(last) /\ last # tail /\ init
  BY DEF IInv, SwapStaysInWindow, SwapStep
<1>3. r \in Index /\ r = IF last = 0 THEN Size - 1 ELSE last - 1
  BY <1>1, OnePlaceOn
<1>4. last \in Window(head, tail)
  BY <1>1, <1>2, LiveNow
<1>5. r \in Window(head, tail)
  BY <1>1, <1>2, <1>3, <1>4, SizeIsPositive DEF Window, Index
<1>6. IsLive(r)
  BY <1>1, <1>3, <1>5, LiveNow
<1>7. last' = r /\ IsLive(last)'
  BY <1>3, <1>6 DEF IsLive, NumItems, SwapStep
<1>8. SwapStaysInWindow'
  BY <1>2, <1>7 DEF SwapStep, SwapStaysInWindow
<1>9. TypeOK'
  BY <1>1, <1>2, <1>3, <1>6, <1>7, ExchangeKeepsSlots DEF SwapStep, TypeOK
<1> QED
  BY <1>1, <1>2, <1>3, <1>6, <1>8, <1>9, ExchangeKeepsSlots DEF SwapStep, IInv

(* A buffer just allocated or just released has nothing live.              *)
LEMMA EmptyIInv ==
  ASSUME IInv, BufferInit \/ BufferRelease
  PROVE  IInv'
<1>1. 0 \in Index /\ head' = 0 /\ tail' = 0
  BY SizeIsPositive DEF Index, BufferInit, BufferRelease
<1>2. \A i \in Index : ~IsLive(i)'
  <2>1. Window(head', tail') = {}
    BY <1>1 DEF Window, Index
  <2> QED
    BY <1>1, <2>1, LiveNext
<1>3. slots' = [i \in Index |-> Blank] /\ last' = NoSwap
  BY DEF BufferInit, BufferRelease, IInv, SwapStaysInWindow
<1>4. Blank \in Slot
  BY DEF Blank, Slot
<1>5. TypeOK'
  BY <1>1, <1>3, <1>4 DEF BufferInit, BufferRelease, IInv, TypeOK
<1>6. SlotsOwnTheirArguments'
  BY <1>2, <1>3 DEF SlotsOwnTheirArguments, Blank
<1> QED
  BY <1>2, <1>3, <1>5, <1>6 DEF IInv, LiveSlotsHoldMessages, SwapStaysInWindow

(* A step that leaves slots, head, tail and init alone and either ends the *)
(* swap or leaves it alone.                                                *)
LEMMA QuietIInv ==
  ASSUME IInv, PushFail \/ SwapEnd \/ UNCHANGED vars
  PROVE  IInv'
<1>1. /\ UNCHANGED <<slots, head, tail, init>>
      /\ last' \in {last, NoSwap}
  BY DEF PushFail, SwapEnd, vars
<1>2. \A i \in Index : IsLive(i)' <=> IsLive(i)
  BY <1>1 DEF IsLive, NumItems
<1>3. TypeOK'
  BY DEF IInv, TypeOK, PushFail, SwapEnd, vars
<1>4. SwapStaysInWindow'
  BY <1>1 DEF IInv, SwapStaysInWindow, IsLive, NumItems
<1> QED
  BY <1>1, <1>2, <1>3, <1>4
     DEF IInv, SlotsOwnTheirArguments, LiveSlotsHoldMessages

LEMMA NextIInv == IInv /\ [Next]_vars => IInv'
<1> SUFFICES ASSUME IInv, [Next]_vars PROVE IInv'
  OBVIOUS
<1>1. CASE BufferInit
  BY <1>1, EmptyIInv
<1>2. CASE BufferRelease
  BY <1>2, EmptyIInv
<1>3. CASE PushFail
  BY <1>3, QuietIInv
<1>4. ASSUME NEW m \in Messages, Push(m) PROVE IInv'
  BY <1>4, PushIInv
<1>5. CASE Pop
  BY <1>5, PopIInv
<1>6. ASSUME NEW dest \in 1 .. NumItems - 1, SwapBegin(dest) PROVE IInv'
  BY <1>6, SwapBeginIInv
<1>7. CASE SwapStep
  BY <1>7, SwapStepIInv
<1>8. CASE SwapEnd
  BY <1>8, QuietIInv
<1>9. CASE UNCHANGED vars
  BY <1>9, QuietIInv
<1> QED
  BY <1>1, <1>2, <1>3, <1>4, <1>5, <1>6, <1>7, <1>8, <1>9 DEF Next

LEMMA InvariantHolds == Spec => []IInv
<1> QED
  BY InitIInv, NextIInv, PTL DEF Spec

(* msg_buffer.c: head, tail and the swap's index never leave the ring.     *)
THEOREM TypeCorrect == Spec => []TypeOK
<1>1. IInv => TypeOK
  BY DEF IInv
<1> QED
  BY <1>1, InvariantHolds, PTL

(* msg_buffer_push, _pop and _swap: no slot leaks or dangles an argument,  *)
(* whatever the size, the message set and the interleaving of operations.  *)
THEOREM ArgumentsAreOwned == Spec => []SlotsOwnTheirArguments
<1>1. IInv => SlotsOwnTheirArguments
  BY DEF IInv
<1> QED
  BY <1>1, InvariantHolds, PTL

(* msg_buffer_pop and _probe_item: what is read was written by a push.     *)
THEOREM LiveSlotsAreWritten == Spec => []LiveSlotsHoldMessages
<1>1. IInv => LiveSlotsHoldMessages
  BY DEF IInv
<1> QED
  BY <1>1, InvariantHolds, PTL

(* msg_buffer_swap: its loop stays between tail and head.                  *)
THEOREM SwapIsConfined == Spec => []SwapStaysInWindow
<1>1. IInv => SwapStaysInWindow
  BY DEF IInv
<1> QED
  BY <1>1, InvariantHolds, PTL

-----------------------------------------------------------------------------
(* The ring is a queue.                                                    *)

Ids == Messages \cup {None}

(* The places of the waiting messages, the oldest first: they are all      *)
(* different, and the one behind the last is head.                         *)
Ring ==
  /\ NumItems \in 0 .. Size - 1
  /\ NumItems = IF head >= tail THEN head - tail ELSE head - tail + Size
  /\ \A k \in 1 .. Size : /\ At(k) \in Index
                          /\ At(k) = IF tail + k - 1 < Size THEN tail + k - 1
                                                            ELSE tail + k - 1 - Size
  /\ \A j, k \in 1 .. Size : At(j) = At(k) => j = k
  /\ At(1) = tail /\ At(NumItems + 1) = head

(* What waits is a sequence of messages.                                   *)
Row ==
  /\ Waiting \in Seq(Ids) /\ Len(Waiting) = NumItems
  /\ \A k \in 1 .. NumItems : Waiting[k] = slots[At(k)].id

LEMMA Places ==
  ASSUME TypeOK
  PROVE  Ring
<1>1. head \in Index /\ tail \in Index
  BY DEF TypeOK
<1>2. NumItems = IF head >= tail THEN head - tail ELSE head - tail + Size
  BY <1>1, NumItemsIs
<1>3. NumItems \in 0 .. Size - 1
  BY <1>1, <1>2, SizeIsPositive DEF Index
<1>4. ASSUME NEW k \in 1 .. Size
      PROVE  /\ At(k) \in Index
             /\ At(k) = IF tail + k - 1 < Size THEN tail + k - 1 ELSE tail + k - 1 - Size
  <2>1. k - 1 \in 0 .. Size /\ tail + (k - 1) = tail + k - 1
    BY <1>1, SizeIsPositive DEF Index
  <2>2. /\ Mask(tail + (k - 1)) = IF tail + (k - 1) < Size THEN tail + (k - 1)
                                                           ELSE tail + (k - 1) - Size
        /\ Mask(tail + (k - 1)) \in Index
    BY <1>1, <2>1, MaskOfSum
  <2> QED
    BY <2>1, <2>2 DEF At
<1>5. \A j, k \in 1 .. Size : At(j) = At(k) => j = k
  BY <1>1, <1>4, SizeIsPositive DEF Index
<1>6. At(1) = tail /\ At(NumItems + 1) = head
  BY <1>1, <1>2, <1>3, <1>4, SizeIsPositive DEF Index
<1> QED
  BY <1>2, <1>3, <1>4, <1>5, <1>6 DEF Ring

LEMMA WaitingIs ==
  ASSUME TypeOK
  PROVE  Row
<1>1. NumItems \in Nat /\ \A k \in 1 .. NumItems : At(k) \in Index
  BY Places, SizeIsPositive DEF Ring
<1>2. \A k \in 1 .. NumItems : slots[At(k)].id \in Ids
  BY <1>1 DEF TypeOK, Slot, Ids
<1>3. Waiting \in [1 .. NumItems -> Ids]
  BY <1>2 DEF Waiting
<1> QED
  BY <1>1, <1>3 DEF Waiting, Row

LEMMA TheyAreThere == TypeOK => Ring /\ Row
BY Places, WaitingIs

(* The same before and after a step.                                       *)
LEMMA Both ==
  ASSUME IInv, [Next]_vars
  PROVE  Ring /\ Row /\ Ring' /\ Row' /\ TypeOK /\ TypeOK'
<1>1. TypeOK => Ring /\ Row
  BY TheyAreThere
<1>2. TypeOK' => Ring' /\ Row'
  BY TheyAreThere, PTL
<1>3. IInv'
  BY NextIInv
<1> QED
  BY <1>1, <1>2, <1>3 DEF IInv

(* When the oldest message goes, the others move up by one.                *)
LEMMA TailMoves ==
  ASSUME Ring, Ring', TypeOK, tail' = Mask(tail + 1), NEW k \in 1 .. Size, k + 1 \in 1 .. Size
  PROVE  At(k)' = At(k + 1)
<1>1. tail \in Index /\ tail' = IF tail = Size - 1 THEN 0 ELSE tail + 1
  BY OnePlaceOn DEF TypeOK
<1>2. At(k)' = IF tail' + k - 1 < Size THEN tail' + k - 1 ELSE tail' + k - 1 - Size
  BY DEF Ring
<1>3. At(k + 1) = IF tail + (k + 1) - 1 < Size THEN tail + (k + 1) - 1
                                               ELSE tail + (k + 1) - 1 - Size
  BY DEF Ring
<1> QED
  BY <1>1, <1>2, <1>3, SizeIsPositive DEF Index

-----------------------------------------------------------------------------
(* Every step of the ring is a step of the queue, or leaves it alone. *)

(* A message joins at the end.                                             *)
LEMMA PushAccepts ==
  ASSUME IInv, NEW m \in Messages, Push(m), ~IsFull
  PROVE  Queue!Accept(m)
<1>1. Ring /\ Row /\ Ring' /\ Row' /\ TypeOK /\ TypeOK'
  BY Both DEF Next
<1>2. /\ init /\ last = NoSwap /\ last' = NoSwap /\ tail' = tail /\ head' = Mask(head + 1)
      /\ slots' = [slots EXCEPT ![head] = DeepCopy(m)] /\ ret' = "success"
      /\ UNCHANGED <<init, overflow, out>>
  BY DEF Push
<1>3. Held = Waiting /\ Held' = Waiting'
  BY <1>2 DEF Held
<1>4. NumItems < Size - 1 /\ NumItems \in Nat
  BY <1>1, SizeIsPositive DEF Ring, IsFull
<1>5. NumItems' = NumItems + 1
  <2>1. /\ head \in Index /\ tail \in Index
        /\ NumItems = IF head >= tail THEN head - tail ELSE head - tail + Size
        /\ NumItems' = IF head' >= tail' THEN head' - tail' ELSE head' - tail' + Size
    BY <1>1 DEF Ring, TypeOK
  <2>2. head' = IF head = Size - 1 THEN 0 ELSE head + 1
    BY <1>2, <2>1, OnePlaceOn
  <2> QED
    BY <1>2, <1>4, <2>1, <2>2, SizeIsPositive DEF Index
<1>6. \A k \in 1 .. Size : At(k)' = At(k)
  BY <1>2 DEF At
<1>7. \A k \in 1 .. NumItems : Waiting'[k] = Waiting[k]
  <2> SUFFICES ASSUME NEW k \in 1 .. NumItems PROVE Waiting'[k] = Waiting[k]
    OBVIOUS
  <2>1. k \in 1 .. Size /\ NumItems + 1 \in 1 .. Size /\ k # NumItems + 1 /\ k \in 1 .. NumItems'
    BY <1>4, <1>5, SizeIsPositive
  <2>2. At(k) # head /\ At(k) \in Index
    BY <1>1, <2>1 DEF Ring
  <2>3. slots'[At(k)] = slots[At(k)]
    BY <1>1, <1>2, <2>2 DEF TypeOK
  <2> QED
    BY <1>1, <1>6, <2>1, <2>3 DEF Row
<1>8. Waiting'[NumItems + 1] = m
  <2>1. NumItems + 1 \in 1 .. Size /\ NumItems + 1 \in 1 .. NumItems'
    BY <1>4, <1>5, SizeIsPositive
  <2>2. slots'[head].id = m
    BY <1>1, <1>2 DEF TypeOK, DeepCopy
  <2> QED
    BY <1>1, <1>6, <2>1, <2>2 DEF Row, Ring
<1>9. Waiting' = Append(Waiting, m)
  <2>1. m \in Ids
    BY DEF Ids
  <2>2. /\ Append(Waiting, m) \in Seq(Ids) /\ Len(Append(Waiting, m)) = NumItems + 1
        /\ \A k \in 1 .. NumItems : Append(Waiting, m)[k] = Waiting[k]
        /\ Append(Waiting, m)[NumItems + 1] = m
    BY <1>1, <2>1, AppendProperties DEF Row
  <2>3. Waiting' \in Seq(Ids) /\ Len(Waiting') = NumItems + 1
    BY <1>1, <1>5 DEF Row
  <2>4. \A k \in 1 .. NumItems + 1 : Waiting'[k] = Append(Waiting, m)[k]
    BY <1>4, <1>7, <1>8, <2>2
  <2> HIDE DEF Row
  <2> QED
    BY <2>2, <2>3, <2>4, SeqEqual
<1> QED
  BY <1>1, <1>2, <1>3, <1>4, <1>9 DEF Queue!Accept, Row

(* The oldest message leaves the front of the queue.                       *)
LEMMA PopTakes ==
  ASSUME IInv, Pop
  PROVE  Queue!Take
<1>1. Ring /\ Row /\ Ring' /\ Row' /\ TypeOK /\ TypeOK'
  BY Both DEF Next
<1>2. /\ init /\ last = NoSwap /\ last' = NoSwap /\ tail' = Mask(tail + 1) /\ head' = head
      /\ head # tail /\ out' = slots[tail].id
      /\ slots' = [slots EXCEPT ![tail] = Freed(@)]
      /\ UNCHANGED <<init, overflow, ret>>
  BY DEF Pop, IsEmpty
<1>3. Held = Waiting /\ Held' = Waiting'
  BY <1>2 DEF Held
<1>4. NumItems \in 1 .. Size - 1 /\ NumItems' = NumItems - 1
  <2>1. /\ head \in Index /\ tail \in Index /\ NumItems \in 0 .. Size - 1
        /\ NumItems = IF head >= tail THEN head - tail ELSE head - tail + Size
        /\ NumItems' = IF head' >= tail' THEN head' - tail' ELSE head' - tail' + Size
    BY <1>1 DEF Ring, TypeOK
  <2>2. tail' = IF tail = Size - 1 THEN 0 ELSE tail + 1
    BY <1>2, <2>1, OnePlaceOn
  <2> QED
    BY <1>2, <2>1, <2>2, SizeIsPositive DEF Index
<1>5. \A k \in 1 .. NumItems - 1 : Waiting'[k] = Waiting[k + 1]
  <2> SUFFICES ASSUME NEW k \in 1 .. NumItems - 1 PROVE Waiting'[k] = Waiting[k + 1]
    OBVIOUS
  <2>1. k \in 1 .. Size /\ k + 1 \in 1 .. NumItems /\ k + 1 \in 1 .. Size /\ 1 \in 1 .. Size
        /\ k \in 1 .. NumItems'
    BY <1>4, SizeIsPositive
  <2>2. At(k)' = At(k + 1)
    BY <1>1, <1>2, <2>1, TailMoves
  <2>3. At(k + 1) # tail /\ At(k + 1) \in Index
    BY <1>1, <2>1 DEF Ring
  <2>4. slots'[At(k + 1)] = slots[At(k + 1)]
    BY <1>1, <1>2, <2>3 DEF TypeOK
  <2> QED
    BY <1>1, <2>1, <2>2, <2>4 DEF Row
<1>6. Waiting # <<>> /\ Head(Waiting) = slots[tail].id
  <2>1. 1 \in 1 .. NumItems /\ Len(Waiting) = NumItems /\ Waiting \in Seq(Ids)
    BY <1>1, <1>4 DEF Row
  <2>2. Waiting[1] = slots[tail].id
    BY <1>1, <2>1 DEF Row, Ring
  <2> QED
    BY <2>1, <2>2
<1>7. Waiting' = Tail(Waiting)
  <2>1. /\ Tail(Waiting) \in Seq(Ids) /\ Len(Tail(Waiting)) = NumItems - 1
        /\ \A k \in 1 .. NumItems - 1 : Tail(Waiting)[k] = Waiting[k + 1]
    BY <1>1, <1>6, HeadTailProperties DEF Row
  <2>2. Waiting' \in Seq(Ids) /\ Len(Waiting') = NumItems - 1
    BY <1>1, <1>4 DEF Row
  <2>3. \A k \in 1 .. NumItems - 1 : Waiting'[k] = Tail(Waiting)[k]
    BY <1>5, <2>1
  <2> QED
    BY <2>1, <2>2, <2>3, SeqEqual
<1> QED
  BY <1>2, <1>3, <1>6, <1>7 DEF Queue!Take

(* In a full ring head is the slot before tail, and both move on by one.   *)
LEMMA PushDisplaces ==
  ASSUME IInv, NEW m \in Messages, Push(m), IsFull
  PROVE  Queue!Displace(m)
<1>1. Ring /\ Row /\ Ring' /\ Row' /\ TypeOK /\ TypeOK'
  BY Both DEF Next
<1>2. /\ init /\ overflow /\ last = NoSwap /\ last' = NoSwap
      /\ tail' = Mask(tail + 1) /\ head' = Mask(head + 1) /\ ret' = "overflow"
      /\ slots' = [slots EXCEPT ![tail] = Freed(@), ![head] = DeepCopy(m)]
      /\ UNCHANGED <<init, overflow, out>>
  BY DEF Push
<1>3. Held = Waiting /\ Held' = Waiting'
  BY <1>2 DEF Held
<1>4. NumItems = Size - 1 /\ NumItems' = NumItems /\ NumItems \in Nat /\ NumItems >= 1
  <2>1. /\ head \in Index /\ tail \in Index /\ NumItems = Size - 1
        /\ NumItems = IF head >= tail THEN head - tail ELSE head - tail + Size
        /\ NumItems' = IF head' >= tail' THEN head' - tail' ELSE head' - tail' + Size
    BY <1>1 DEF Ring, TypeOK, IsFull
  <2>2. /\ tail' = IF tail = Size - 1 THEN 0 ELSE tail + 1
        /\ head' = IF head = Size - 1 THEN 0 ELSE head + 1
    BY <1>2, <2>1, OnePlaceOn
  <2> QED
    BY <1>2, <2>1, <2>2, SizeIsPositive DEF Index
<1>5. \A k \in 1 .. Size - 1 : At(k)' = At(k + 1)
  <2>1. \A k \in 1 .. Size - 1 : k \in 1 .. Size /\ k + 1 \in 1 .. Size
    BY SizeIsPositive
  <2> QED
    BY <1>1, <1>2, <2>1, TailMoves
<1>6. \A k \in 1 .. NumItems - 1 : Waiting'[k] = Waiting[k + 1]
  <2> SUFFICES ASSUME NEW k \in 1 .. NumItems - 1 PROVE Waiting'[k] = Waiting[k + 1]
    OBVIOUS
  <2>1. /\ k \in 1 .. Size - 1 /\ k + 1 \in 1 .. NumItems /\ k + 1 \in 1 .. Size
        /\ k \in 1 .. NumItems' /\ 1 \in 1 .. Size /\ NumItems + 1 \in 1 .. Size
        /\ k + 1 # 1 /\ k + 1 # NumItems + 1
    BY <1>4, SizeIsPositive
  <2>2. At(k + 1) # tail /\ At(k + 1) # head /\ At(k + 1) \in Index
    BY <1>1, <2>1 DEF Ring
  <2>3. slots'[At(k + 1)] = slots[At(k + 1)]
    BY <1>1, <1>2, <2>2 DEF TypeOK
  <2> QED
    BY <1>1, <1>5, <2>1, <2>3 DEF Row
<1>7. Waiting'[NumItems] = m
  <2>1. NumItems \in 1 .. NumItems' /\ NumItems \in 1 .. Size - 1
    BY <1>4, SizeIsPositive
  <2>2. \A k \in 1 .. Size - 1 : k = NumItems => At(k)' = head
    BY <1>1, <1>5, <2>1 DEF Ring
  <2>3. slots'[head].id = m
    BY <1>1, <1>2 DEF TypeOK, DeepCopy
  <2> QED
    BY <1>1, <2>1, <2>2, <2>3 DEF Row
<1>8. Waiting' = Append(Tail(Waiting), m)
  <2>1. m \in Ids /\ Waiting # <<>> /\ Waiting \in Seq(Ids) /\ Len(Waiting) = NumItems
    <3>1. m \in Ids /\ Waiting \in Seq(Ids) /\ Len(Waiting) = NumItems
      BY <1>1 DEF Ids, Row
    <3>2. Waiting # <<>>
      BY <1>4, <3>1, EmptySeq
    <3> QED
      BY <3>1, <3>2
  <2>2. /\ Tail(Waiting) \in Seq(Ids) /\ Len(Tail(Waiting)) = NumItems - 1
        /\ \A k \in 1 .. NumItems - 1 : Tail(Waiting)[k] = Waiting[k + 1]
    BY <2>1, HeadTailProperties
  <2> DEFINE t == Tail(Waiting)
  <2> HIDE DEF t
  <2>3. /\ Append(t, m) \in Seq(Ids) /\ Len(Append(t, m)) = Len(t) + 1
        /\ \A k \in 1 .. Len(t) : Append(t, m)[k] = t[k]
        /\ Append(t, m)[Len(t) + 1] = m
    <3>1. t \in Seq(Ids)
      BY <2>2 DEF t
    <3> QED
      BY <2>1, <3>1, AppendProperties
  <2>4. /\ Append(t, m) \in Seq(Ids) /\ Len(Append(t, m)) = NumItems
        /\ \A k \in 1 .. NumItems - 1 : Append(t, m)[k] = Waiting[k + 1]
        /\ Append(t, m)[NumItems] = m
    <3>1. Len(t) = NumItems - 1 /\ Len(t) + 1 = NumItems
          /\ \A k \in 1 .. NumItems - 1 : t[k] = Waiting[k + 1]
      BY <1>4, <2>2 DEF t
    <3> QED
      BY <2>3, <3>1
  <2>5. Waiting' \in Seq(Ids) /\ Len(Waiting') = NumItems
    BY <1>1, <1>4 DEF Row
  <2>6. \A k \in 1 .. NumItems : Waiting'[k] = Append(t, m)[k]
    <3> SUFFICES ASSUME NEW k \in 1 .. NumItems PROVE Waiting'[k] = Append(t, m)[k]
      OBVIOUS
    <3>1. k \in 1 .. NumItems - 1 \/ k = NumItems
      BY <1>4
    <3> QED
      BY <1>6, <1>7, <2>4, <3>1
  <2>7. Waiting' = Append(t, m)
    BY <2>4, <2>5, <2>6, SeqEqual
  <2> QED
    BY <2>7 DEF t
<1> QED
  BY <1>1, <1>2, <1>3, <1>4, <1>8 DEF Queue!Displace, Row

LEMMA PushFailRefuses ==
  ASSUME IInv, PushFail
  PROVE  Queue!Refuse
<1>1. Row /\ Row'
  BY Both DEF Next
<1>2. /\ init /\ ~overflow /\ last = NoSwap /\ NumItems = Size - 1 /\ ret' = "fail"
      /\ UNCHANGED <<slots, head, tail, init, overflow, last, out>>
  BY DEF PushFail, IsFull
<1>3. Held = Waiting /\ Held' = Held
  BY <1>2 DEF Held, Waiting, NumItems, At, Below
<1> QED
  BY <1>1, <1>2, <1>3 DEF Queue!Refuse, Row

(* With head at tail nothing waits.                                        *)
LEMMA NothingWaits ==
  ASSUME Row', NumItems' = 0
  PROVE  Waiting' = <<>>
BY DEF Row

LEMMA InitOpens ==
  ASSUME IInv, BufferInit \/ BufferRelease
  PROVE  Queue!Open \/ Queue!Close
<1>1. Ring /\ Row /\ Ring' /\ Row' /\ TypeOK /\ TypeOK'
  BY Both DEF Next
<1>2. last' = NoSwap /\ head' = 0 /\ tail' = 0
  BY DEF BufferInit, BufferRelease, IInv, SwapStaysInWindow
<1>3. Held' = <<>>
  <2>1. NumItems' = 0
    BY <1>1, <1>2 DEF Ring
  <2> QED
    BY <1>1, <1>2, <2>1, NothingWaits DEF Held
<1>4. CASE BufferInit
  BY <1>3, <1>4 DEF BufferInit, Queue!Open
<1>5. CASE BufferRelease
  BY <1>3, <1>5 DEF BufferRelease, Queue!Close
<1> QED
  BY <1>4, <1>5

-----------------------------------------------------------------------------
(* Bringing a message to the front. *)

LEMMA PlaceOf ==
  ASSUME TypeOK, NEW k \in 1 .. Size
  PROVE  Mask(At(k) - tail) = k - 1
<1>1. tail \in Index /\ tail \in 0 .. Size
  BY SizeIsPositive DEF TypeOK, Index
<1>2. At(k) \in Index /\ At(k) = IF tail + k - 1 < Size THEN tail + k - 1
                                                        ELSE tail + k - 1 - Size
  BY Places DEF Ring
<1>3. Mask(At(k) - tail) = IF At(k) >= tail THEN At(k) - tail ELSE At(k) - tail + Size
  BY <1>1, <1>2, MaskOfDifference
<1> QED
  BY <1>1, <1>2, <1>3, SizeIsPositive DEF Index

(* The displaced message is Below the front, with one or more between.     *)
LEMMA BelowIs ==
  ASSUME IInv, last # NoSwap
  PROVE  Below \in 2 .. NumItems /\ last = At(Below) /\ Mask(last - 1) = At(Below - 1)
<1>1. Ring /\ Row
  BY TheyAreThere DEF IInv
<1>2. /\ last \in Index /\ tail \in Index /\ tail \in 0 .. Size /\ last # tail
      /\ Mask(last - tail) < NumItems
  BY SizeIsPositive DEF IInv, TypeOK, SwapStaysInWindow, IsLive, Index
<1>3. /\ Mask(last - tail) = IF last >= tail THEN last - tail ELSE last - tail + Size
      /\ NumItems \in 0 .. Size - 1
  BY <1>1, <1>2, MaskOfDifference DEF Ring
<1>4. Below \in 2 .. NumItems
  BY <1>2, <1>3, SizeIsPositive DEF Below, Index
<1>5. Below \in 1 .. Size /\ Below - 1 \in 1 .. Size
  BY <1>3, <1>4, SizeIsPositive
<1>6. /\ At(Below) = IF tail + Below - 1 < Size THEN tail + Below - 1 ELSE tail + Below - 1 - Size
      /\ At(Below - 1) = IF tail + (Below - 1) - 1 < Size THEN tail + (Below - 1) - 1
                                                         ELSE tail + (Below - 1) - 1 - Size
  BY <1>1, <1>5 DEF Ring
<1>7. last = At(Below)
  BY <1>2, <1>3, <1>6, SizeIsPositive DEF Below, Index
<1>8. Mask(last - 1) = IF last = 0 THEN Size - 1 ELSE last - 1
  BY <1>2, OnePlaceOn
<1>9. Mask(last - 1) = At(Below - 1)
  BY <1>2, <1>3, <1>4, <1>6, <1>7, <1>8, SizeIsPositive DEF Index
<1> QED
  BY <1>4, <1>7, <1>9

(* What the exchange of two slots does to the row of messages.             *)
LEMMA ExchangeInRow ==
  ASSUME TypeOK, Ring, Row, Row', UNCHANGED <<head, tail>>,
         NEW a \in 1 .. NumItems, NEW b \in 1 .. NumItems, slots' = SwapItem(At(a), At(b))
  PROVE  /\ NumItems' = NumItems
         /\ \A k \in 1 .. NumItems : Waiting'[k] = IF k = a THEN Waiting[b]
                                                  ELSE IF k = b THEN Waiting[a] ELSE Waiting[k]
<1>1. NumItems' = NumItems /\ \A k \in 1 .. NumItems : At(k)' = At(k)
  BY DEF NumItems, At
<1>2. \A k \in 1 .. NumItems : k \in 1 .. Size
  BY SizeIsPositive DEF Ring
<1>3. slots' = [slots EXCEPT ![At(a)] = slots[At(b)], ![At(b)] = slots[At(a)]]
  BY DEF SwapItem
<1>4. \A k \in 1 .. NumItems : At(k) \in Index /\ (At(k) = At(a) => k = a) /\ (At(k) = At(b) => k = b)
  BY <1>2 DEF Ring
<1>5. \A k \in 1 .. NumItems : slots'[At(k)] = IF k = a THEN slots[At(b)]
                                             ELSE IF k = b THEN slots[At(a)] ELSE slots[At(k)]
  BY <1>3, <1>4 DEF TypeOK
<1>6. \A k \in 1 .. NumItems : Waiting'[k] = slots'[At(k)].id
  BY <1>1 DEF Row
<1> QED
  BY <1>1, <1>5, <1>6 DEF Row

(* The first exchange is, for the queue, the whole operation ...           *)
LEMMA SwapBeginBrings ==
  ASSUME IInv, NEW dest \in 1 .. NumItems - 1, SwapBegin(dest)
  PROVE  dest + 1 \in 2 .. Len(Held) /\ Queue!BringToFront(dest + 1)
<1> DEFINE p == dest + 1
<1>1. Ring /\ Row /\ Ring' /\ Row' /\ TypeOK /\ TypeOK'
  BY Both DEF Next
<1>2. /\ init /\ last = NoSwap /\ slots' = SwapItem(tail, Mask(tail + dest))
      /\ last' = Mask(tail + dest) /\ UNCHANGED <<head, tail, init, overflow, ret, out>>
  BY DEF SwapBegin
<1>3. NumItems \in 0 .. Size - 1 /\ p \in 2 .. NumItems /\ p \in 1 .. Size /\ 1 \in 1 .. NumItems
      /\ p - 1 = dest /\ p \in Nat
  BY <1>1, SizeIsPositive DEF Ring
<1> HIDE DEF p
<1>4. At(1) = tail /\ At(p) = Mask(tail + dest) /\ At(p) \in Index
  <2>1. tail + p - 1 = tail + dest
    BY <1>1, <1>3 DEF TypeOK, Index, p
  <2> QED
    BY <1>1, <1>3, <2>1 DEF Ring, At
<1>5. /\ NumItems' = NumItems
      /\ \A k \in 1 .. NumItems : Waiting'[k] = IF k = 1 THEN Waiting[p]
                                               ELSE IF k = p THEN Waiting[1] ELSE Waiting[k]
  BY <1>1, <1>2, <1>3, <1>4, ExchangeInRow
<1>6. Held = Waiting /\ last' # NoSwap /\ Below' = p
  <2>1. Mask(At(p) - tail) = p - 1
    BY <1>1, <1>3, PlaceOf
  <2>2. last' # NoSwap
    BY <1>2, <1>4, MessagesAssumption, SizeIsPositive DEF Index
  <2>3. Below' = Mask(At(p) - tail) + 1
    BY <1>2, <1>4 DEF Below
  <2> QED
    BY <1>2, <1>3, <2>1, <2>2, <2>3 DEF Held
<1>7. Held' = [k \in 1 .. NumItems |-> IF k = 2 THEN Waiting'[p]
                                      ELSE IF k \in 3 .. p THEN Waiting'[k - 1]
                                      ELSE Waiting'[k]]
  BY <1>5, <1>6 DEF Held
<1>8. ASSUME NEW k \in 1 .. NumItems
      PROVE  (IF k = 2 THEN Waiting'[p] ELSE IF k \in 3 .. p THEN Waiting'[k - 1] ELSE Waiting'[k])
               = (IF k = 1 THEN Waiting[p] ELSE IF k \in 2 .. p THEN Waiting[k - 1] ELSE Waiting[k])
  <2>1. k \in 3 .. p => k - 1 \in 1 .. NumItems /\ k - 1 # 1 /\ k - 1 # p
    BY <1>3
  <2>2. k = 2 => k - 1 = 1 /\ p # 1
    BY <1>3
  <2>3. k \in 2 .. p <=> k = 2 \/ k \in 3 .. p
    BY <1>3
  <2>4. k = p => k = 2 \/ k \in 3 .. p
    BY <1>3
  <2>5. k # 1 \/ (k # 2 /\ k \notin 3 .. p)
    OBVIOUS
  <2> QED
    BY <1>3, <1>5, <2>1, <2>2, <2>3, <2>4, <2>5
<1>9. Held' = Queue!MovedTo(Held, p, 1)
  <2>1. Queue!MovedTo(Held, p, 1) = [k \in 1 .. NumItems |-> IF k = 1 THEN Waiting[p]
                                        ELSE IF k \in 2 .. p THEN Waiting[k - 1]
                                        ELSE Waiting[k]]
    BY <1>1, <1>6 DEF Queue!MovedTo, Row
  <2> QED
    BY <1>7, <1>8, <2>1
<1> QED
  BY <1>1, <1>2, <1>3, <1>6, <1>9 DEF Queue!BringToFront, Row, p

(* ... and the loop only carries out what the queue has done already.      *)
LEMMA SwapStepStutters ==
  ASSUME IInv, SwapStep
  PROVE  Held' = Held
<1>1. Ring /\ Row /\ Ring' /\ Row' /\ TypeOK /\ TypeOK'
  BY Both DEF Next
<1>2. /\ last # NoSwap /\ Mask(last - 1) # tail /\ slots' = SwapItem(Mask(last - 1), last)
      /\ last' = Mask(last - 1) /\ UNCHANGED <<head, tail>>
  BY DEF SwapStep
<1>3. PICK b \in 2 .. NumItems : Below = b /\ last = At(b) /\ Mask(last - 1) = At(b - 1)
  BY <1>2, BelowIs
<1>4. NumItems \in 0 .. Size - 1 /\ b \in 3 .. NumItems /\ b - 1 \in 1 .. Size
      /\ b - 1 \in 1 .. NumItems /\ b \in 1 .. NumItems
  <2>1. b # 2
    BY <1>1, <1>2, <1>3 DEF Ring
  <2> QED
    BY <1>1, <1>3, <2>1, SizeIsPositive DEF Ring
<1>5. /\ NumItems' = NumItems
      /\ \A k \in 1 .. NumItems : Waiting'[k] = IF k = b - 1 THEN Waiting[b]
                                               ELSE IF k = b THEN Waiting[b - 1] ELSE Waiting[k]
  BY <1>1, <1>2, <1>3, <1>4, ExchangeInRow
<1>6. last' # NoSwap /\ Below' = b - 1
  <2>1. Mask(At(b - 1) - tail) = (b - 1) - 1
    BY <1>1, <1>4, PlaceOf
  <2>2. last' \in Index
    BY <1>1, <1>2, <1>3, <1>4 DEF Ring
  <2>3. last' # NoSwap
    BY <2>2, MessagesAssumption, SizeIsPositive DEF Index
  <2>4. Below' = Mask(At(b - 1) - tail) + 1
    BY <1>2, <1>3 DEF Below
  <2> QED
    BY <1>4, <2>1, <2>3, <2>4
<1>7. Held = [k \in 1 .. NumItems |-> IF k = 2 THEN Waiting[b]
                                     ELSE IF k \in 3 .. b THEN Waiting[k - 1]
                                     ELSE Waiting[k]]
  BY <1>2, <1>3 DEF Held
<1>8. Held' = [k \in 1 .. NumItems |-> IF k = 2 THEN Waiting'[b - 1]
                                      ELSE IF k \in 3 .. b - 1 THEN Waiting'[k - 1]
                                      ELSE Waiting'[k]]
  BY <1>5, <1>6 DEF Held
<1>9. ASSUME NEW k \in 1 .. NumItems
      PROVE  (IF k = 2 THEN Waiting'[b - 1]
              ELSE IF k \in 3 .. b - 1 THEN Waiting'[k - 1] ELSE Waiting'[k])
               = (IF k = 2 THEN Waiting[b] ELSE IF k \in 3 .. b THEN Waiting[k - 1] ELSE Waiting[k])
  <2>1. k \in 3 .. b - 1 => k - 1 \in 1 .. NumItems /\ k - 1 # b - 1 /\ k - 1 # b /\ k \in 3 .. b
    BY <1>4
  <2>2. k = b => k \notin 3 .. b - 1 /\ k \in 3 .. b /\ k # b - 1 /\ k # 2
    BY <1>4
  <2>3. k # 2 /\ k \notin 3 .. b => k # b /\ k # b - 1 /\ k \notin 3 .. b - 1
    BY <1>4
  <2>4. k \in 3 .. b => k \in 3 .. b - 1 \/ k = b
    BY <1>4
  <2> QED
    BY <1>4, <1>5, <2>1, <2>2, <2>3, <2>4
<1> QED
  BY <1>7, <1>8, <1>9

LEMMA SwapEndStutters ==
  ASSUME IInv, SwapEnd
  PROVE  Held' = Held
<1>1. Ring /\ Row /\ Ring' /\ Row' /\ TypeOK /\ TypeOK'
  BY Both DEF Next
<1>2. /\ last # NoSwap /\ Mask(last - 1) = tail /\ last' = NoSwap
      /\ UNCHANGED <<slots, head, tail, init, overflow, ret, out>>
  BY DEF SwapEnd
<1>3. Waiting' = Waiting
  BY <1>2 DEF Waiting, NumItems, At
<1>4. Below = 2
  <2>1. PICK b \in 2 .. NumItems : Below = b /\ At(b - 1) = tail
    BY <1>2, BelowIs
  <2>2. b - 1 \in 1 .. Size /\ 1 \in 1 .. Size
    BY <1>1, <2>1, SizeIsPositive DEF Ring
  <2>3. b - 1 = 1
    BY <1>1, <2>1, <2>2 DEF Ring
  <2> QED
    BY <2>1, <2>3
<1>5. Held = [k \in 1 .. NumItems |-> Waiting[k]]
  BY <1>2, <1>4 DEF Held
<1>6. Waiting = [k \in 1 .. NumItems |-> Waiting[k]]
  BY DEF Waiting
<1> QED
  BY <1>2, <1>3, <1>5, <1>6 DEF Held

-----------------------------------------------------------------------------
(* No message is lost but the oldest on a declared overflow, none comes    *)
(* twice, and one that is brought to the front leaves the others in order. *)
THEOREM RingIsQueue == Spec => ImplementsQueue
<1>1. Init => Queue!Init
  <2> SUFFICES ASSUME Init PROVE Queue!Init
    OBVIOUS
  <2>1. Ring /\ Row
    BY InitIInv, TheyAreThere DEF IInv
  <2>2. head = 0 /\ tail = 0 /\ last = NoSwap
    BY DEF Init
  <2>3. NumItems = 0
    BY <2>1, <2>2 DEF Ring
  <2>4. Held = <<>>
    BY <2>1, <2>2, <2>3 DEF Held, Row
  <2> QED
    BY <2>4 DEF Init, Queue!Init
<1>2. IInv /\ [Next]_vars => [Queue!Next]_(Queue!vars)
  <2> SUFFICES ASSUME IInv, [Next]_vars PROVE Queue!Next \/ UNCHANGED Queue!vars
    OBVIOUS
  <2>1. CASE BufferInit \/ BufferRelease
    BY <2>1, InitOpens DEF Queue!Next
  <2>2. CASE PushFail
    BY <2>2, PushFailRefuses DEF Queue!Next
  <2>3. ASSUME NEW m \in Messages, Push(m) PROVE Queue!Next
    BY <2>3, PushAccepts, PushDisplaces DEF Queue!Next
  <2>4. CASE Pop
    BY <2>4, PopTakes DEF Queue!Next
  <2>5. ASSUME NEW dest \in 1 .. NumItems - 1, SwapBegin(dest) PROVE Queue!Next
    BY <2>5, SwapBeginBrings DEF Queue!Next
  <2>6. CASE SwapStep
    <3>1. UNCHANGED <<init, overflow, ret, out>>
      BY <2>6 DEF SwapStep
    <3> QED
      BY <2>6, <3>1, SwapStepStutters DEF Queue!vars
  <2>7. CASE SwapEnd
    <3>1. UNCHANGED <<init, overflow, ret, out>>
      BY <2>7 DEF SwapEnd
    <3> QED
      BY <2>7, <3>1, SwapEndStutters DEF Queue!vars
  <2>8. CASE UNCHANGED vars
    BY <2>8 DEF vars, Queue!vars, Held, Waiting, NumItems, At, Below
  <2> QED
    BY <2>1, <2>2, <2>3, <2>4, <2>5, <2>6, <2>7, <2>8 DEF Next
<1> QED
  BY <1>1, <1>2, InvariantHolds, PTL DEF Spec, ImplementsQueue
=============================================================================
