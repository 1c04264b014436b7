----------------------------- MODULE FifoQueue -----------------------------
(* What the work queue promises (asgn4/README.md:38-41): connections leave it *)
(* from the front, in the order in which they were put in at the back.        *)
EXTENDS Integers, Sequences

CONSTANTS
  Value,           \* the connections that may be queued
  EMPTY_QUEUE      \* what dequeue() returns when there is none

VARIABLES
  items,           \* the queued connections, the oldest first
  result           \* what the last call returned

Init == items = <<>> /\ result = 0

Enqueue(v) ==
  /\ items' = Append(items, v)
  /\ UNCHANGED result

Dequeue ==
  \/ items = <<>> /\ result' = EMPTY_QUEUE /\ UNCHANGED items
  \/ items # <<>> /\ result' = Head(items) /\ items' = Tail(items)

GetQueueSize ==
  /\ result' = Len(items)
  /\ UNCHANGED items

Next ==
  \/ \E v \in Value : Enqueue(v)
  \/ Dequeue
  \/ GetQueueSize

Spec == Init /\ [][Next]_<<items, result>>
=============================================================================
