-------------------------- MODULE JobQueue_proofs --------------------------
(* Proofs that the linked list is well formed and leaks nothing after any    *)
(* sequence of calls, and that it implements the first-in first-out queue.   *)
EXTENDS JobQueue, SequenceTheorems, TLAPS

Inv == TypeOK /\ WellLinked /\ NoLeak

LEMMA InitInv == Init => Inv
BY DEF Init, Inv, TypeOK, WellLinked, NoLeak, Allocated

\* What enqueue() does to the nodes, and to the connections they hold.
LEMMA EnqueueEffect ==
  ASSUME Inv, NEW v \in Value, enqueue(v)
  PROVE  /\ Inv'
         /\ Len(chain') = Len(chain) + 1
         /\ \A i \in 1..Len(chain) :
              heap'[chain'[i]].clientSocket = heap[chain[i]].clientSocket
         /\ heap'[chain'[Len(chain) + 1]].clientSocket = v
<1> USE NullAssumption DEF Inv
<1>1. PICK new \in Node \ Allocated :
        /\ size' = size + 1
        /\ heap' = [p \in Allocated \cup {new} |->
                      IF p = new THEN [next |-> NULL, clientSocket |-> v]
                      ELSE IF p = tail THEN [heap[p] EXCEPT !.next = new]
                      ELSE heap[p]]
        /\ head' = HeadAfter(new)
        /\ tail' = new
        /\ chain' = Append(chain, new)
        /\ UNCHANGED result
      BY DEF enqueue
<1>2. /\ chain' \in Seq(Node)
      /\ Len(chain) \in Nat
      /\ Len(chain') = Len(chain) + 1
      /\ \A i \in 1..Len(chain) : chain'[i] = chain[i]
      /\ chain'[Len(chain) + 1] = new
      BY <1>1 DEF TypeOK
<1>3. /\ Allocated' = Allocated \cup {new}
      /\ \A p \in Allocated : heap'[p].clientSocket = heap[p].clientSocket
      /\ \A p \in Allocated : p # tail => heap'[p] = heap[p]
      /\ tail \in Allocated => heap'[tail].next = new
      /\ heap'[new] = [next |-> NULL, clientSocket |-> v]
      BY <1>1 DEF TypeOK, Allocated
<1>4. \A i \in 1..Len(chain) : chain[i] \in Allocated /\ chain[i] # new
      BY <1>1 DEF WellLinked
<1>5. TypeOK'
  <2>1. heap' \in [Allocated' -> [next : Node \cup {NULL}, clientSocket : Value]]
        BY <1>1, <1>3 DEF TypeOK, Allocated
  <2> QED BY <1>1, <1>2, <1>3, <2>1 DEF TypeOK, HeadAfter
<1>6. WellLinked'
  <2>1. head' = chain'[1] /\ chain' # <<>>
        BY <1>1, <1>2 DEF WellLinked, HeadAfter, TypeOK
  <2>2. tail' = chain'[Len(chain')] /\ size' = Len(chain')
        BY <1>1, <1>2 DEF WellLinked
  <2>3. ASSUME NEW i \in 1..Len(chain')
        PROVE  /\ chain'[i] \in Allocated'
               /\ heap'[chain'[i]].next
                    = IF i < Len(chain') THEN chain'[i + 1] ELSE NULL
    <3>1. CASE i = Len(chain')
          BY <1>2, <1>3, <3>1
    <3>2. CASE i = Len(chain)
      <4>1. i \in 1..Len(chain) /\ chain # <<>>
            BY <1>2, <3>2
      <4>2. tail = chain[i]
            BY <3>2, <4>1 DEF WellLinked
      <4> QED BY <1>2, <1>3, <1>4, <3>2, <4>1, <4>2
    <3>3. CASE i < Len(chain)
      <4>1. i \in 1..Len(chain) /\ Len(chain) \in 1..Len(chain) /\ chain # <<>>
            BY <1>2, <3>3
      <4>2. tail # chain[i]
            BY <3>3, <4>1 DEF WellLinked
      <4>3. heap[chain[i]].next = chain[i + 1]
            BY <3>3, <4>1 DEF WellLinked
      <4>4. i + 1 \in 1..Len(chain)
            BY <1>2, <3>3
      <4> QED BY <1>2, <1>3, <1>4, <3>3, <4>1, <4>2, <4>3, <4>4
    <3> QED BY <1>2, <3>1, <3>2, <3>3
  <2>4. \A i, j \in 1..Len(chain') : chain'[i] = chain'[j] => i = j
        BY <1>2, <1>4 DEF WellLinked
  <2> QED BY <2>1, <2>2, <2>3, <2>4 DEF WellLinked
<1>7. NoLeak'
      BY <1>2, <1>3 DEF NoLeak
<1>8. \A i \in 1..Len(chain) :
        heap'[chain'[i]].clientSocket = heap[chain[i]].clientSocket
      BY <1>2, <1>3, <1>4
<1> QED BY <1>2, <1>3, <1>5, <1>6, <1>7, <1>8

\* What dequeue() does when the list is not empty.
LEMMA DequeueEffect ==
  ASSUME Inv, dequeue
  PROVE  /\ Inv'
         /\ Len(chain) \in Nat \ {0}
         /\ Len(chain') = Len(chain) - 1
         /\ result' = heap[chain[1]].clientSocket
         /\ \A i \in 1..Len(chain') :
              heap'[chain'[i]].clientSocket = heap[chain[i + 1]].clientSocket
<1> USE NullAssumption DEF Inv
<1>1. /\ chain # <<>> /\ head = chain[1]
      /\ Len(chain) \in Nat \ {0}
      BY DEF dequeue, WellLinked, TypeOK
<1>2. /\ chain' \in Seq(Node)
      /\ Len(chain') = Len(chain) - 1
      /\ \A i \in 1..Len(chain') : i + 1 \in 1..Len(chain) /\ chain'[i] = chain[i + 1]
      BY <1>1 DEF dequeue, TypeOK
<1>3. /\ Allocated' = Allocated \ {chain[1]}
      /\ \A p \in Allocated' : heap'[p] = heap[p]
      BY <1>1 DEF dequeue, Free, Allocated
<1>4. \A i \in 1..Len(chain') : chain'[i] \in Allocated'
      BY <1>1, <1>2, <1>3 DEF WellLinked
<1>5. heap[head].next = IF 1 < Len(chain) THEN chain[2] ELSE NULL
      BY <1>1 DEF WellLinked
<1>6. WellLinked'
  <2>1. size' = Len(chain')
        BY <1>2 DEF dequeue, WellLinked
  <2>2. CASE Len(chain) = 1
    <3>1. chain' = <<>> /\ head' = NULL /\ tail' = NULL
          BY <1>2, <1>5, <2>2 DEF dequeue, TailAfter
    <3> QED BY <2>1, <3>1 DEF WellLinked
  <2>3. CASE Len(chain) > 1
    <3>d. /\ 2 \in 1..Len(chain) /\ Len(chain') \in 1..Len(chain')
          /\ 1 \in 1..Len(chain') /\ chain' # <<>>
          BY <1>1, <1>2, <2>3
    <3>a. head' = heap[head].next
          BY DEF dequeue
    <3>b. chain'[1] = chain[2]
          BY <1>2, <3>d
    <3>c. head' = chain'[1]
          BY <1>5, <2>3, <3>a, <3>b
    <3>1. /\ chain' # <<>> /\ head' = chain'[1]
          /\ 2 \in 1..Len(chain) /\ Len(chain') \in 1..Len(chain')
          BY <3>d, <3>c
    <3>2. chain[2] # NULL
          BY <3>1 DEF TypeOK
    <3>3. tail' = chain'[Len(chain')]
          BY <1>1, <1>2, <1>5, <2>3, <3>1, <3>2 DEF dequeue, TailAfter, WellLinked
    <3>4. ASSUME NEW i \in 1..Len(chain')
          PROVE  heap'[chain'[i]].next
                   = IF i < Len(chain') THEN chain'[i + 1] ELSE NULL
      <4>1. heap'[chain'[i]].next
              = IF i + 1 < Len(chain) THEN chain[i + 2] ELSE NULL
            BY <1>1, <1>2, <1>3, <1>4 DEF WellLinked
      <4>2. i < Len(chain') => chain'[i + 1] = chain[i + 2]
            BY <1>1, <1>2
      <4> QED BY <1>1, <1>2, <4>1, <4>2
    <3>5. \A i, j \in 1..Len(chain') : chain'[i] = chain'[j] => i = j
          BY <1>1, <1>2 DEF WellLinked
    <3> QED BY <1>4, <2>1, <3>1, <3>3, <3>4, <3>5 DEF WellLinked
  <2>4. Len(chain) = 1 \/ Len(chain) > 1
        BY <1>1
  <2> QED BY <2>2, <2>3, <2>4
<1>7. NoLeak'
  <2> SUFFICES ASSUME NEW p \in Allocated' PROVE \E i \in 1..Len(chain') : chain'[i] = p
      BY DEF NoLeak
  <2>1. PICK i \in 1..Len(chain) : chain[i] = p /\ i # 1
        BY <1>3 DEF NoLeak
  <2>2. i - 1 \in 1..Len(chain') /\ chain'[i - 1] = p
        BY <1>1, <1>2, <2>1
  <2> QED BY <2>2
<1>8. TypeOK'
  <2>1. heap[head].next \in Node \cup {NULL} /\ result' \in Value
        BY <1>1 DEF TypeOK, WellLinked, dequeue, Front
  <2>2. size' \in Nat
        BY <1>1 DEF dequeue, WellLinked
  <2>3. heap' \in [Allocated' -> [next : Node \cup {NULL}, clientSocket : Value]]
        BY <1>1, <1>3 DEF TypeOK, dequeue, Free, Allocated
  <2> QED BY <1>2, <1>3, <2>1, <2>2, <2>3 DEF TypeOK, dequeue, TailAfter
<1>9. result' = heap[chain[1]].clientSocket
      BY <1>1 DEF dequeue, Front
<1>10. \A i \in 1..Len(chain') :
         heap'[chain'[i]].clientSocket = heap[chain[i + 1]].clientSocket
      BY <1>2, <1>3, <1>4
<1> QED BY <1>1, <1>2, <1>6, <1>7, <1>8, <1>9, <1>10

LEMMA NextInv == Inv /\ [Next]_vars => Inv'
<1> SUFFICES ASSUME Inv, [Next]_vars PROVE Inv'
    OBVIOUS
<1>1. ASSUME NEW v \in Value, enqueue(v) PROVE Inv'
      BY <1>1, EnqueueEffect
<1>2. CASE dequeueEmpty
      BY <1>2 DEF dequeueEmpty, Inv, TypeOK, WellLinked, NoLeak, Allocated
<1>3. CASE dequeue
      BY <1>3, DequeueEffect
<1>4. CASE getQueueSize
      BY <1>4 DEF getQueueSize, Inv, TypeOK, WellLinked, NoLeak, Allocated
<1>5. CASE UNCHANGED vars
      BY <1>5 DEF vars, Inv, TypeOK, WellLinked, NoLeak, Allocated
<1> QED BY <1>1, <1>2, <1>3, <1>4, <1>5 DEF Next

LEMMA InvHolds == Spec => []Inv
BY InitInv, NextInv, PTL DEF Spec

\* TypeOK: head and tail are nodes or NULL, and dequeue() on an empty list does not
\* count size down below 0.
THEOREM ListTypeCorrect == Spec => []TypeOK
<1>1. Inv => TypeOK
      BY DEF Inv
<1> QED BY <1>1, InvHolds, PTL

\* WellLinked: head, tail, size and the next fields agree after any sequence of
\* calls of enqueue(), dequeue() and getQueueSize(), however malloc() reuses nodes.
THEOREM ListIsWellLinked == Spec => []WellLinked
<1>1. Inv => WellLinked
      BY DEF Inv
<1> QED BY <1>1, InvHolds, PTL

\* NoLeak: the allocated nodes are the queued ones.
THEOREM NothingLeaks == Spec => []NoLeak
<1>1. Inv => NoLeak
      BY DEF Inv
<1> QED BY <1>1, InvHolds, PTL

-----------------------------------------------------------------------------
Connections == [i \in 1..Len(chain) |-> heap[chain[i]].clientSocket]

LEMMA ConnectionsType == Inv => Connections \in Seq(Value) /\ Len(Connections) = Len(chain)
<1> SUFFICES ASSUME Inv PROVE Connections \in Seq(Value) /\ Len(Connections) = Len(chain)
    OBVIOUS
<1>1. Len(chain) \in Nat
      BY DEF Inv, TypeOK
<1>2. Connections \in [1..Len(chain) -> Value]
      BY DEF Inv, TypeOK, WellLinked, Connections
<1> QED BY <1>1, <1>2

\* ImplementsFifo: every step of the list is a step of the queue of connections.
THEOREM ListImplementsFifo == Spec => ImplementsFifo
<1>1. Init => Fifo!Init
      BY DEF Init, Fifo!Init
<1>2. Inv /\ Inv' /\ [Next]_vars => [Fifo!Next]_<<Connections, result>>
  <2> SUFFICES ASSUME Inv, Inv', [Next]_vars
               PROVE  [Fifo!Next]_<<Connections, result>>
      OBVIOUS
  <2> USE DEF Fifo!Next
  <2>a. /\ Connections \in Seq(Value) /\ Len(Connections) = Len(chain)
        /\ Connections' \in Seq(Value) /\ Len(Connections') = Len(chain')
        /\ Len(chain) \in Nat
    <3>1. Connections \in Seq(Value) /\ Len(Connections) = Len(chain) /\ Len(chain) \in Nat
          BY ConnectionsType DEF Inv, TypeOK
    <3>2. (Inv => Connections \in Seq(Value) /\ Len(Connections) = Len(chain))'
          BY ConnectionsType, PTL
    <3> QED BY <3>1, <3>2
  <2>1. ASSUME NEW v \in Value, enqueue(v) PROVE Fifo!Enqueue(v)
    <3>1. /\ Len(chain') = Len(chain) + 1
          /\ \A i \in 1..Len(chain) : Connections'[i] = Connections[i]
          /\ Connections'[Len(chain) + 1] = v
          BY <2>1, <2>a, EnqueueEffect DEF Connections
    <3>2. Connections' = Append(Connections, v)
          BY <2>a, <3>1
    <3> QED BY <2>1, <3>2 DEF Fifo!Enqueue, enqueue, Connections
  <2>2. CASE dequeueEmpty
    <3>1. Len(chain) = 0
          BY <2>2, <2>a, NullAssumption DEF dequeueEmpty, Inv, WellLinked, TypeOK
    <3>2. Connections = <<>>
          BY <3>1, <2>a
    <3> QED BY <2>2, <3>2 DEF Fifo!Dequeue, dequeueEmpty, Connections
  <2>3. CASE dequeue
    <3>d. /\ Len(chain) \in Nat \ {0}
          /\ Len(chain') = Len(chain) - 1
          /\ result' = heap[chain[1]].clientSocket
          /\ \A i \in 1..Len(chain') :
               heap'[chain'[i]].clientSocket = heap[chain[i + 1]].clientSocket
          BY <2>3, DequeueEffect
    <3>1. /\ Len(chain) # 0
          /\ Len(chain') = Len(chain) - 1
          /\ result' = Connections[1]
          /\ \A i \in 1..Len(chain') : Connections'[i] = Connections[i + 1]
          BY <3>d DEF Connections
    <3>2. Connections # <<>> /\ Head(Connections) = Connections[1]
          BY <2>a, <3>1
    <3>3. Connections' = Tail(Connections)
          BY <2>a, <3>1, <3>2
    <3> QED BY <3>1, <3>2, <3>3 DEF Fifo!Dequeue, Connections
  <2>4. CASE getQueueSize
    <3>1. result' = Len(Connections) /\ Connections' = Connections
          BY <2>4, <2>a DEF getQueueSize, Inv, WellLinked, Connections
    <3> QED BY <3>1 DEF Fifo!GetQueueSize, Connections
  <2>5. CASE UNCHANGED vars
        BY <2>5 DEF vars, Connections
  <2> QED BY <2>1, <2>2, <2>3, <2>4, <2>5 DEF Next
<1> QED BY <1>1, <1>2, InvHolds, PTL DEF Spec, ImplementsFifo, Fifo!Spec, Connections
=============================================================================
