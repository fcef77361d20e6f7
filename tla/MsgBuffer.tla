------------------------------ MODULE MsgBuffer -----------------------------
(***************************************************************************)
(* The ring of message slots of common/buffer/msg_buffer.c. Every server   *)
(* of the camera owns one and every other thread pushes into it; each      *)
(* operation runs under the owner's mutex, so operations are atomic with   *)
(* respect to one another. The one operation with a loop, bringing a       *)
(* message to the front, is modelled loop iteration by loop iteration      *)
(* with the mutex held (every other action waits for last = NoSwap).       *)
(*                                                                         *)
(* A slot is abstracted to the message it was last written with and to     *)
(* whether it still owns the heap copy of that message's argument.         *)
(* The sequence number of a message is not modelled: no code reads it.     *)
(*                                                                         *)
(* Memory is assumed not to run out. When calloc fails, msg_buffer_init    *)
(* leaves the buffer uninitialised and msg_deep_copy returns -1, which     *)
(* nobody looks at, with a copy that points to the argument of its source; *)
(* then a slot does not own its argument, and nothing here holds.          *)
(***************************************************************************)
EXTENDS Integers, Sequences

CONSTANTS
  Messages,   \* the messages that are sent
  WithArg,    \* those that carry a heap-allocated argument
  Size,       \* slots in the ring
  None,       \* content of a slot never written; no message popped yet
  NoSwap      \* no msg_buffer_swap is in progress

(* The masks "& (size-1)" of the code are reductions modulo size because   *)
(* every configured size is a power of two.                                *)
ASSUME SizeAssumption ==
  /\ Size \in Nat
  /\ Size >= 2
  /\ \E k \in 1 .. 30 : Size = 2^k

ASSUME MessagesAssumption ==
  /\ WithArg \subseteq Messages
  /\ None \notin Messages
  /\ NoSwap \notin Nat

VARIABLES
  slots,      \* buffer[]: [Index -> [id, arg]]
  head,       \* next slot to write
  tail,       \* oldest message
  init,       \* the buffer is allocated
  overflow,   \* MSG_BUFFER_OVERFLOW_YES
  last,       \* last_index of the running msg_buffer_swap, or NoSwap
  ret,        \* result of the last push
  out         \* message the last pop handed over

vars == <<slots, head, tail, init, overflow, last, ret, out>>

Index == 0 .. Size - 1
Slot == [id : Messages \cup {None}, arg : BOOLEAN]
Blank == [id |-> None, arg |-> FALSE]

Mask(i) == i % Size

(* msg_buffer_is_empty, msg_buffer_is_full and msg_buffer_num_items        *)
IsEmpty == head = tail
NumItems == Mask(head - tail)
(* Faulty: off by one.                                                     *)
IsFullTooLate == NumItems = Size
IsFull == NumItems = Size - 1

(* Freeing the argument a slot owns, as every path that gives a slot up    *)
(* does; the rest of the slot keeps its stale content.                     *)
(* Faulty: the argument is not freed.                                      *)
Leaked(slot) == slot
Freed(slot) == [slot EXCEPT !.arg = FALSE]

(* msg_deep_copy: the copy owns an argument of its own, as memory has been *)
(* found for it.                                                           *)
DeepCopy(m) == [id |-> m, arg |-> m \in WithArg]

(* msg_buffer_swap_item: the two slots exchange messages and arguments.    *)
SwapItem(org, dest) ==
  [slots EXCEPT ![org] = slots[dest], ![dest] = slots[org]]

-----------------------------------------------------------------------------
Init ==
  /\ slots = [i \in Index |-> Blank]
  /\ head = 0
  /\ tail = 0
  /\ init = FALSE
  /\ overflow \in BOOLEAN
  /\ last = NoSwap
  /\ ret = "none"
  /\ out = None

(* msg_buffer_init, which finds memory for the slots                       *)
BufferInit ==
  /\ ~init
  /\ head' = 0
  /\ tail' = 0
  /\ overflow' \in BOOLEAN
  /\ slots' = [i \in Index |-> Blank]
  /\ init' = TRUE
  /\ UNCHANGED <<last, ret, out>>

(* msg_buffer_release                                                      *)
BufferRelease ==
  /\ init
  /\ last = NoSwap
  /\ head' = 0
  /\ tail' = 0
  /\ slots' = [i \in Index |-> Blank]
  /\ init' = FALSE
  /\ UNCHANGED <<overflow, last, ret, out>>

(* msg_buffer_push when the ring is full and may not overflow: nothing but *)
(* the result.                                                             *)
PushFail ==
  /\ init
  /\ last = NoSwap
  /\ IsFull
  /\ ~overflow
  /\ ret' = "fail"
  /\ UNCHANGED <<slots, head, tail, init, overflow, last, out>>

(* msg_buffer_push: when full, the oldest slot is freed and dropped first, *)
(* then the message is copied into the head slot.                          *)
Push(m) ==
  /\ init
  /\ last = NoSwap
  /\ IsFull => overflow
  /\ slots' = IF IsFull
              THEN [slots EXCEPT ![tail] = Freed(@), ![head] = DeepCopy(m)]
              ELSE [slots EXCEPT ![head] = DeepCopy(m)]
  /\ tail' = IF IsFull THEN Mask(tail + 1) ELSE tail
  /\ head' = Mask(head + 1)
  /\ ret' = IF IsFull THEN "overflow" ELSE "success"
  /\ UNCHANGED <<init, overflow, last, out>>

(* msg_buffer_pop; on an empty buffer the code returns 1 and does nothing. *)
Pop ==
  /\ init
  /\ last = NoSwap
  /\ ~IsEmpty
  /\ out' = slots[tail].id
  /\ slots' = [slots EXCEPT ![tail] = Freed(@)]
  /\ tail' = Mask(tail + 1)
  /\ UNCHANGED <<head, init, overflow, last, ret>>

(* msg_buffer_swap(buff, 0, dest), its only use: the message block of a    *)
(* server brings message number dest to the front. The first exchange puts *)
(* it there and leaves the former front in its place ...                   *)
SwapBegin(dest) ==
  /\ init
  /\ last = NoSwap
  /\ slots' = SwapItem(tail, Mask(tail + dest))
  /\ last' = Mask(tail + dest)
  /\ UNCHANGED <<head, tail, init, overflow, ret, out>>

(* Faulty: the loop does not stop at the front.                            *)
SwapStepUnbounded ==
  /\ last # NoSwap
  /\ slots' = SwapItem(Mask(last - 1), last)
  /\ last' = Mask(last - 1)
  /\ UNCHANGED <<head, tail, init, overflow, ret, out>>

(* ... and each iteration moves the former front one place back up.        *)
SwapStep ==
  /\ last # NoSwap
  /\ Mask(last - 1) # tail
  /\ slots' = SwapItem(Mask(last - 1), last)
  /\ last' = Mask(last - 1)
  /\ UNCHANGED <<head, tail, init, overflow, ret, out>>

(* Faulty: the end of the loop is missed when the window wraps around.     *)
SwapEndUnmasked ==
  /\ last # NoSwap
  /\ last - 1 = tail
  /\ last' = NoSwap
  /\ UNCHANGED <<slots, head, tail, init, overflow, ret, out>>

SwapEnd ==
  /\ last # NoSwap
  /\ Mask(last - 1) = tail
  /\ last' = NoSwap
  /\ UNCHANGED <<slots, head, tail, init, overflow, ret, out>>

Next ==
  \/ BufferInit
  \/ BufferRelease
  \/ PushFail
  \/ \E m \in Messages : Push(m)
  \/ Pop
  \/ \E dest \in 1 .. NumItems - 1 : SwapBegin(dest)
  \/ SwapStep
  \/ SwapEnd

(* The loop of msg_buffer_swap runs to its end; nothing else need happen.  *)
Fairness == WF_vars(SwapStep) /\ WF_vars(SwapEnd)

Spec == Init /\ [][Next]_vars /\ Fairness

-----------------------------------------------------------------------------
(* The slots between tail and head, in the order they are popped.          *)
IsLive(i) == Mask(i - tail) < NumItems

(* Type correctness: indices stay inside the ring whatever the wrap-arounds *)
(* of push (head, tail), pop (tail) and swap (last).                        *)
TypeOK ==
  /\ slots \in [Index -> Slot]
  /\ head \in Index
  /\ tail \in Index
  /\ init \in BOOLEAN
  /\ overflow \in BOOLEAN
  /\ last \in Index \cup {NoSwap}
  /\ ret \in {"none", "success", "overflow", "fail"}
  /\ out \in Messages \cup {None}

(* A slot owns an argument exactly while it holds a waiting message that   *)
(* has one: push, overflow, pop and the exchanges of swap neither leak a   *)
(* block nor leave a freed one reachable.                                  *)
SlotsOwnTheirArguments ==
  \A i \in Index :
    slots[i].arg <=> (IsLive(i) /\ slots[i].id \in WithArg)

(* The one slot in front of head is never live, and every live slot holds  *)
(* a message: probe and pop never read a slot that was not written.        *)
LiveSlotsHoldMessages ==
  \A i \in Index : IsLive(i) => slots[i].id \in Messages

(* While a message is being brought to the front, the displaced one is     *)
(* below the front and inside the window, so the loop stays on live slots. *)
SwapStaysInWindow ==
  last # NoSwap => init /\ last # tail /\ IsLive(last)

(* msg_buffer_swap terminates: its loop cannot run round the ring for ever *)
(* with the mutex held.                                                    *)
SwapTerminates == last # NoSwap ~> last = NoSwap

-----------------------------------------------------------------------------
(* Refinement: the waiting messages in order; while a swap is running, the *)
(* queue it will leave (the displaced front, now at position Below, goes   *)
(* back to second place).                                                  *)
At(k) == Mask(tail + k - 1)
Waiting == [k \in 1 .. NumItems |-> slots[At(k)].id]
Below == Mask(last - tail) + 1
Held == IF last = NoSwap THEN Waiting
        ELSE [k \in 1 .. NumItems |->
                IF k = 2 THEN Waiting[Below]
                ELSE IF k \in 3 .. Below THEN Waiting[k - 1]
                ELSE Waiting[k]]

Queue == INSTANCE MsgQueue
           WITH Capacity <- Size - 1, open <- init, overwrite <- overflow, queue <- Held

(* The ring implements the first-in first-out queue: no message is lost    *)
(* except the oldest on a declared overflow, none is duplicated, and       *)
(* bringing one to the front keeps the order of the others.                *)
ImplementsQueue == Queue!Init /\ [][Queue!Next]_(Queue!vars)
=============================================================================
