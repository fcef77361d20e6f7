------------------------------ MODULE MsgQueue ------------------------------
(***************************************************************************)
(* What the message buffer of common/buffer/msg_buffer.c promises to the   *)
(* servers that share it: a bounded first-in first-out queue from which    *)
(* the owner takes messages one at a time and in which a message may be    *)
(* brought to the front without disturbing the order of the others.        *)
(* MsgBuffer implements this specification with a ring of slots.           *)
(***************************************************************************)
EXTENDS Integers, Sequences

CONSTANTS
  Messages,   \* what can be sent
  Capacity,   \* how many messages the queue holds
  None        \* "no message": nothing has been taken yet

VARIABLES
  queue,      \* the waiting messages, oldest first
  open,       \* the owner has created the queue and not released it
  overwrite,  \* a full queue gives up its oldest message instead of refusing
  ret,        \* the result of the last send
  out         \* the last message the owner took

vars == <<queue, open, overwrite, ret, out>>

Init ==
  /\ queue = << >>
  /\ open = FALSE
  /\ overwrite \in BOOLEAN
  /\ ret = "none"
  /\ out = None

Open ==
  /\ ~open
  /\ open' = TRUE
  /\ queue' = << >>
  /\ overwrite' \in BOOLEAN
  /\ UNCHANGED <<ret, out>>

(* There is room: the message joins at the end.                            *)
Accept(m) ==
  /\ open
  /\ Len(queue) < Capacity
  /\ queue' = Append(queue, m)
  /\ ret' = "success"
  /\ UNCHANGED <<open, overwrite, out>>

(* A full queue that may overwrite drops its oldest message, and says so.  *)
Displace(m) ==
  /\ open
  /\ Len(queue) = Capacity
  /\ overwrite
  /\ queue' = Append(Tail(queue), m)
  /\ ret' = "overflow"
  /\ UNCHANGED <<open, overwrite, out>>

(* A full queue that may not overwrite refuses, and says so.               *)
Refuse ==
  /\ open
  /\ Len(queue) = Capacity
  /\ ~overwrite
  /\ ret' = "fail"
  /\ UNCHANGED <<queue, open, overwrite, out>>

Take ==
  /\ open
  /\ queue # << >>
  /\ out' = Head(queue)
  /\ queue' = Tail(queue)
  /\ UNCHANGED <<open, overwrite, ret>>

(* The queue with its p-th message moved to position q =< p.               *)
MovedTo(s, p, q) ==
  [k \in 1 .. Len(s) |-> IF k = q THEN s[p]
                         ELSE IF k \in q + 1 .. p THEN s[k - 1]
                         ELSE s[k]]

BringToFront(p) ==
  /\ open
  /\ queue' = MovedTo(queue, p, 1)
  /\ UNCHANGED <<open, overwrite, ret, out>>

Close ==
  /\ open
  /\ open' = FALSE
  /\ queue' = << >>
  /\ UNCHANGED <<overwrite, ret, out>>

Next ==
  \/ Open
  \/ \E m \in Messages : Accept(m) \/ Displace(m)
  \/ Refuse
  \/ Take
  \/ \E p \in 2 .. Len(queue) : BringToFront(p)
  \/ Close

Spec == Init /\ [][Next]_vars
=============================================================================
