------------------------------ MODULE JobQueue ------------------------------
(***************************************************************************)
(* The linked list of threadPool.c (the same file in asgn3 and asgn4), down *)
(* to its pointers and the heap.  Each function is one step: all calls are  *)
(* made by the owner of myMutex (Dispatcher, LockDiscipline).               *)
(***************************************************************************)
EXTENDS Integers, Sequences

CONSTANTS
  Value,           \* the connections that may be queued
  EMPTY_QUEUE,     \* what dequeue() returns when there is none
  Node,            \* the addresses malloc() may return.  With none left there
                   \* is no step: the code does not test for NULL
  NULL

ASSUME NullAssumption == NULL \notin Node

VARIABLES
  head, tail,      \* pointers to the first and to the last node
  size,
  heap,            \* the allocated nodes: their addresses and fields
  result,          \* what the last call returned
  chain            \* history: the addresses in the order of their enqueue()

vars == <<head, tail, size, heap, result, chain>>

Allocated == DOMAIN heap

\* Mutant: the tail is not reset when the last node leaves.
TailAfterMutant(next) == tail

\* "if (head == NULL) tail = NULL"
TailAfter(next) == IF next = NULL THEN NULL ELSE tail

HeadAfter(new) == IF tail = NULL THEN new ELSE head

\* Mutant: the unlinked node is not freed.
FreeMutant(p) == heap

Free(p) == [q \in Allocated \ {p} |-> heap[q]]

enqueue(v) ==
  \E new \in Node \ Allocated :
    /\ size' = size + 1
    /\ heap' = [p \in Allocated \cup {new} |->
                  IF p = new THEN [next |-> NULL, clientSocket |-> v]
                  ELSE IF p = tail THEN [heap[p] EXCEPT !.next = new]
                  ELSE heap[p]]
    /\ head' = HeadAfter(new)
    /\ tail' = new
    /\ chain' = Append(chain, new)
    /\ UNCHANGED result

\* Mutant: size is counted down before the test for an empty list.
dequeueEmptyMutant ==
  /\ head = NULL
  /\ result' = EMPTY_QUEUE
  /\ size' = size - 1
  /\ UNCHANGED <<head, tail, heap, chain>>

dequeueEmpty ==
  /\ head = NULL
  /\ result' = EMPTY_QUEUE
  /\ UNCHANGED <<head, tail, size, heap, chain>>

\* Mutant: the value is read after the head has moved on.
FrontMutant == IF heap[head].next = NULL THEN heap[head].clientSocket
               ELSE heap[heap[head].next].clientSocket

Front == heap[head].clientSocket

dequeue ==
  /\ head # NULL
  /\ size' = size - 1
  /\ result' = Front
  /\ head' = heap[head].next
  /\ tail' = TailAfter(heap[head].next)
  /\ heap' = Free(head)
  /\ chain' = Tail(chain)

getQueueSize ==
  /\ result' = size
  /\ UNCHANGED <<head, tail, size, heap, chain>>

Init ==
  /\ head = NULL /\ tail = NULL
  /\ size = 0
  /\ heap = <<>>
  /\ result = 0
  /\ chain = <<>>

Next ==
  \/ \E v \in Value : enqueue(v)
  \/ dequeueEmpty
  \/ dequeue
  \/ getQueueSize

Spec == Init /\ [][Next]_vars

-----------------------------------------------------------------------------
\* Every variable has its type: size, an int, never drops below 0.
TypeOK ==
  /\ head \in Node \cup {NULL} /\ tail \in Node \cup {NULL}
  /\ size \in Nat
  /\ Allocated \subseteq Node
  /\ heap \in [Allocated -> [next : Node \cup {NULL}, clientSocket : Value]]
  /\ result \in Value \cup {EMPTY_QUEUE} \cup Nat
  /\ chain \in Seq(Node)

\* The pointers agree: head, tail and the next fields run through the nodes in the
\* order of their enqueue() and end in NULL, and size counts them.
WellLinked ==
  /\ size = Len(chain)
  /\ head = IF chain = <<>> THEN NULL ELSE chain[1]
  /\ tail = IF chain = <<>> THEN NULL ELSE chain[Len(chain)]
  /\ \A i \in 1..Len(chain) :
       /\ chain[i] \in Allocated
       /\ heap[chain[i]].next = IF i < Len(chain) THEN chain[i + 1] ELSE NULL
  /\ \A i, j \in 1..Len(chain) : chain[i] = chain[j] => i = j

\* Nothing but the queued nodes is allocated: dequeue() frees what it unlinks,
\* once, so that the memory of a long-lived server does not grow.
NoLeak == \A p \in Allocated : \E i \in 1..Len(chain) : chain[i] = p

Fifo == INSTANCE FifoQueue WITH
  items <- [i \in 1..Len(chain) |-> heap[chain[i]].clientSocket]

\* The list is a first-in first-out queue: what dequeue() and getQueueSize() read
\* from the nodes is what a sequence of connections would give.
ImplementsFifo == Fifo!Spec
=============================================================================
