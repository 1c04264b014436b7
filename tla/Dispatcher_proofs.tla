------------------------- MODULE Dispatcher_proofs -------------------------
(***************************************************************************)
(* Proofs that the invariants of Dispatcher hold for every number of        *)
(* workers and of descriptors and every MAX_QUEUE_SIZE, and that the pool   *)
(* of ServerPool has them too and no deadlock.                              *)
(***************************************************************************)
EXTENDS ServerPool, FiniteSetTheorems, SequenceTheorems, TLAPS

MainPc == {"accept", "lock", "check", "full", "relock", "enqueue", "unlock"}
WorkerPc == {"lock", "relock", "dequeue", "waiting", "unlock", "handle",
             "close", "closing"}

\* A connection that waits for room, or is about to be queued, is a real one.
Typing ==
  /\ TypeOK
  /\ pc[Main] \in MainPc
  /\ \A w \in Worker : pc[w] \in WorkerPc
  /\ pc[Main] \in {"full", "relock", "enqueue"} => connfd # Failed

LEMMA InitTyping == Init => Typing
BY WorkersAssumption, DataAssumption DEF Init, Typing, TypeOK, MainPc, WorkerPc, Thread

LEMMA NextTyping == Typing /\ [Next]_vars => Typing'
<1> SUFFICES ASSUME Typing, [Next]_vars PROVE Typing'
    OBVIOUS
<1> USE WorkersAssumption, DataAssumption DEF Typing, TypeOK, MainPc, WorkerPc, Thread
<1>1. CASE Accept
      BY <1>1 DEF Accept, Goto
<1>2. CASE AcceptError
      BY <1>2 DEF AcceptError, Goto
<1>3. CASE MainLock
      BY <1>3 DEF MainLock, Goto, Acquire
<1>4. CASE ContinueAfterError
      BY <1>4 DEF ContinueAfterError, Goto
<1>5. CASE WaitForRoom
      BY <1>5 DEF WaitForRoom, Goto, Release
<1>6. CASE MainRelock
      BY <1>6 DEF MainRelock, Goto, Acquire
<1>7. CASE Enqueue
  <2>1. connfd \in Fd
        BY <1>7 DEF Enqueue, ReadyToEnqueue
  <2>2. queue' \in Seq(Fd)
        BY <1>7, <2>1 DEF Enqueue, Enqueued
  <2> QED BY <1>7, <2>2 DEF Enqueue, Waiting
<1>8. CASE MainUnlock
      BY <1>8 DEF MainUnlock, Goto, Release
<1>9. ASSUME NEW w \in Worker, WorkerLock(w) PROVE Typing'
      BY <1>9 DEF WorkerLock, Goto, Acquire
<1>10. ASSUME NEW w \in Worker, WaitForWork(w) PROVE Typing'
      BY <1>10 DEF WaitForWork, Goto, Release
<1>11. ASSUME NEW w \in Worker, Dequeue(w) PROVE Typing'
  <2>1. Head(queue) \in Fd /\ Tail(queue) \in Seq(Fd)
        BY <1>11 DEF Dequeue
  <2> QED BY <1>11, <2>1 DEF Dequeue, MainWoken
<1>12. ASSUME NEW w \in Worker, WorkerUnlock(w) PROVE Typing'
      BY <1>12 DEF WorkerUnlock, Goto, Release
<1>13. ASSUME NEW w \in Worker, Handle(w) PROVE Typing'
      BY <1>13 DEF Handle, Goto
<1>14. ASSUME NEW w \in Worker, LockClose(w) PROVE Typing'
      BY <1>14 DEF LockClose, Goto
<1>15. ASSUME NEW w \in Worker, Close(w) PROVE Typing'
      BY <1>15 DEF Close, Goto
<1>16. ASSUME NEW t \in Thread, SpuriousWakeup(t) PROVE Typing'
      BY <1>16 DEF SpuriousWakeup, Goto
<1>17. CASE UNCHANGED vars
      BY <1>17 DEF vars
<1> QED BY <1>1, <1>2, <1>3, <1>4, <1>5, <1>6, <1>7, <1>8, <1>9, <1>10, <1>11,
           <1>12, <1>13, <1>14, <1>15, <1>16, <1>17
        DEF Next, MainStep, WorkerStep

LEMMA TypingHolds == Spec => []Typing
BY InitTyping, NextTyping, PTL DEF Spec

\* TypeOK: nothing but an accepted descriptor is ever queued or handled, also
\* when accept() fails and the loop of main() continues with the mutex locked.
THEOREM TypeCorrect == Spec => []TypeOK
<1>1. Typing => TypeOK
      BY DEF Typing
<1> QED BY <1>1, TypingHolds, PTL
-----------------------------------------------------------------------------
LEMMA NextLockDiscipline == Typing /\ LockDiscipline /\ [Next]_vars => LockDiscipline'
<1> SUFFICES ASSUME Typing, LockDiscipline, [Next]_vars PROVE LockDiscipline'
    OBVIOUS
<1> USE WorkersAssumption DEF Typing, TypeOK, MainPc, WorkerPc, Thread, LockDiscipline
<1>1. CASE Accept
      BY <1>1 DEF Accept, Goto
<1>2. CASE AcceptError
      BY <1>2 DEF AcceptError, Goto
<1>3. CASE MainLock
      BY <1>3 DEF MainLock, Goto, Acquire
<1>4. CASE ContinueAfterError
      BY <1>4 DEF ContinueAfterError, Goto
<1>5. CASE WaitForRoom
      BY <1>5 DEF WaitForRoom, Goto, Release
<1>6. CASE MainRelock
      BY <1>6 DEF MainRelock, Goto, Acquire
<1>7. CASE Enqueue
      BY <1>7 DEF Enqueue, ReadyToEnqueue, Enqueued, Waiting
<1>8. CASE MainUnlock
      BY <1>8 DEF MainUnlock, Goto, Release
<1>9. ASSUME NEW w \in Worker, WorkerLock(w) PROVE LockDiscipline'
      BY <1>9 DEF WorkerLock, Goto, Acquire
<1>10. ASSUME NEW w \in Worker, WaitForWork(w) PROVE LockDiscipline'
      BY <1>10 DEF WaitForWork, Goto, Release
<1>11. ASSUME NEW w \in Worker, Dequeue(w) PROVE LockDiscipline'
      BY <1>11 DEF Dequeue, MainWoken
<1>12. ASSUME NEW w \in Worker, WorkerUnlock(w) PROVE LockDiscipline'
      BY <1>12 DEF WorkerUnlock, Goto, Release
<1>13. ASSUME NEW w \in Worker, Handle(w) PROVE LockDiscipline'
      BY <1>13 DEF Handle, Goto
<1>14. ASSUME NEW w \in Worker, LockClose(w) PROVE LockDiscipline'
      BY <1>14 DEF LockClose, Goto
<1>15. ASSUME NEW w \in Worker, Close(w) PROVE LockDiscipline'
      BY <1>15 DEF Close, Goto
<1>16. ASSUME NEW t \in Thread, SpuriousWakeup(t) PROVE LockDiscipline'
      BY <1>16 DEF SpuriousWakeup, Goto
<1>17. CASE UNCHANGED vars
      BY <1>17 DEF vars
<1> QED BY <1>1, <1>2, <1>3, <1>4, <1>5, <1>6, <1>7, <1>8, <1>9, <1>10, <1>11,
           <1>12, <1>13, <1>14, <1>15, <1>16, <1>17
        DEF Next, MainStep, WorkerStep

\* LockDiscipline: every access to the queue and every signal happens under
\* myMutex, every close() under closeConnMutex, across condition waits too.
THEOREM MutualExclusion == Spec => []LockDiscipline
<1>1. Init => LockDiscipline
      BY WorkersAssumption DEF Init, LockDiscipline, Thread
<1> QED BY <1>1, NextLockDiscipline, TypingHolds, PTL DEF Spec

-----------------------------------------------------------------------------
\* While the dispatcher is on its way back from the wait nobody else enqueues, so
\* the room it was woken for is still there, unless the wake-up was spurious.
RoomKept ==
  /\ QueueBound
  /\ NoLostRoom
  /\ pc[Main] \in {"relock", "enqueue"} => Len(queue) <= MAX_QUEUE_SIZE + spurious

LEMMA NextRoomKept == Typing /\ RoomKept /\ [Next]_vars => RoomKept'
<1> SUFFICES ASSUME Typing, RoomKept, [Next]_vars PROVE RoomKept'
    OBVIOUS
<1> USE WorkersAssumption, DataAssumption
    DEF Typing, TypeOK, MainPc, WorkerPc, Thread, RoomKept, QueueBound, NoLostRoom,
        QueueIsFull
<1>1. CASE Accept
      BY <1>1 DEF Accept, Goto
<1>2. CASE AcceptError
      BY <1>2 DEF AcceptError, Goto
<1>3. CASE MainLock
      BY <1>3 DEF MainLock, Goto, Acquire
<1>4. CASE ContinueAfterError
      BY <1>4 DEF ContinueAfterError, Goto
<1>5. CASE WaitForRoom
      BY <1>5 DEF WaitForRoom, Goto, Release
<1>6. CASE MainRelock
      BY <1>6 DEF MainRelock, Goto, Acquire
<1>7. CASE Enqueue
  <2>1. connfd \in Fd
        BY <1>7 DEF Enqueue, ReadyToEnqueue
  <2>2. Len(queue') = Len(queue) + 1
        BY <1>7, <2>1 DEF Enqueue, Enqueued
  <2>3. Len(queue) <= MAX_QUEUE_SIZE + spurious
        BY <1>7 DEF Enqueue, ReadyToEnqueue
  <2>4. pc'[Main] = "unlock" /\ spurious' = spurious
        BY <1>7 DEF Enqueue, Waiting
  <2> QED BY <2>2, <2>3, <2>4
<1>8. CASE MainUnlock
      BY <1>8 DEF MainUnlock, Goto, Release
<1>9. ASSUME NEW w \in Worker, WorkerLock(w) PROVE RoomKept'
      BY <1>9 DEF WorkerLock, Goto, Acquire
<1>10. ASSUME NEW w \in Worker, WaitForWork(w) PROVE RoomKept'
      BY <1>10 DEF WaitForWork, Goto, Release
<1>11. ASSUME NEW w \in Worker, Dequeue(w) PROVE RoomKept'
  <2>1. Len(queue') = Len(queue) - 1 /\ spurious' = spurious
        BY <1>11 DEF Dequeue
  <2>2. pc'[Main] # "full"
        BY <1>11 DEF Dequeue, MainWoken
  <2>3. pc'[Main] \in {"relock", "enqueue"} => pc[Main] \in {"full", "relock", "enqueue"}
        BY <1>11 DEF Dequeue, MainWoken
  <2> QED BY <2>1, <2>2, <2>3
<1>12. ASSUME NEW w \in Worker, WorkerUnlock(w) PROVE RoomKept'
      BY <1>12 DEF WorkerUnlock, Goto, Release
<1>13. ASSUME NEW w \in Worker, Handle(w) PROVE RoomKept'
      BY <1>13 DEF Handle, Goto
<1>14. ASSUME NEW w \in Worker, LockClose(w) PROVE RoomKept'
      BY <1>14 DEF LockClose, Goto
<1>15. ASSUME NEW w \in Worker, Close(w) PROVE RoomKept'
      BY <1>15 DEF Close, Goto
<1>16. ASSUME NEW t \in Thread, SpuriousWakeup(t) PROVE RoomKept'
      BY <1>16 DEF SpuriousWakeup, Goto
<1>17. CASE UNCHANGED vars
      BY <1>17 DEF vars
<1> QED BY <1>1, <1>2, <1>3, <1>4, <1>5, <1>6, <1>7, <1>8, <1>9, <1>10, <1>11,
           <1>12, <1>13, <1>14, <1>15, <1>16, <1>17
        DEF Next, MainStep, WorkerStep

LEMMA RoomKeptHolds == Spec => []RoomKept
<1>1. Init => RoomKept
      BY WorkersAssumption, DataAssumption
      DEF Init, RoomKept, QueueBound, NoLostRoom, Thread
<1> QED BY <1>1, NextRoomKept, TypingHolds, PTL DEF Spec

\* QueueBound: the memory the queue takes is bounded whatever the clients do, by
\* one connection more than MAX_QUEUE_SIZE and one per spurious wake-up.
THEOREM QueueIsBounded == Spec => []QueueBound
<1>1. RoomKept => QueueBound
      BY DEF RoomKept
<1> QED BY <1>1, RoomKeptHolds, PTL

\* NoLostRoom: the dispatcher never sleeps while there is room in the queue, so
\* that no signal of queueFull is lost between its test and its wait.
THEOREM RoomIsNoticed == Spec => []NoLostRoom
<1>1. RoomKept => NoLostRoom
      BY DEF RoomKept
<1> QED BY <1>1, RoomKeptHolds, PTL

-----------------------------------------------------------------------------
Owned == NoConnectionLost /\ NoConnectionShared

\* A step that moves no connection from hand to hand keeps them all owned.
LEMMA SameOwners ==
  ASSUME Owned, MainHolds' = MainHolds, queue' = queue, open' = open,
         \A w \in Worker : WorkerHolds(w)' = WorkerHolds(w)
  PROVE  Owned'
BY DEF Owned, NoConnectionLost, NoConnectionShared, Queued

LEMMA NextOwned == Typing /\ Owned /\ [Next]_vars => Owned'
<1> SUFFICES ASSUME Typing, Owned, [Next]_vars PROVE Owned'
    OBVIOUS
<1> USE WorkersAssumption, DataAssumption DEF Typing, TypeOK, MainPc, WorkerPc, Thread
<1>a. open = MainHolds \cup Queued \cup UNION {WorkerHolds(w) : w \in Worker}
      BY DEF Owned, NoConnectionLost
<1>b. /\ \A i, j \in 1..Len(queue) : queue[i] = queue[j] => i = j
      /\ Queued \cap MainHolds = {}
      /\ \A w \in Worker :
           /\ WorkerHolds(w) \cap (Queued \cup MainHolds) = {}
           /\ \A v \in Worker \ {w} : WorkerHolds(w) \cap WorkerHolds(v) = {}
      BY DEF Owned, NoConnectionShared
<1>1. CASE Accept
  <2>1. PICK f \in Fd \ open : connfd' = f /\ open' = open \cup {f}
        BY <1>1 DEF Accept
  <2>2. MainHolds = {} /\ MainHolds' = {f}
        BY <1>1, <2>1 DEF Accept, Goto, MainHolds
  <2>3. Queued' = Queued /\ queue' = queue
        BY <1>1 DEF Accept, Queued
  <2>4. \A w \in Worker : WorkerHolds(w)' = WorkerHolds(w)
        BY <1>1 DEF Accept, Goto, WorkerHolds
  <2>5. f \notin Queued /\ \A w \in Worker : f \notin WorkerHolds(w)
        BY <1>a, <2>1
  <2>6. NoConnectionLost'
        BY <1>a, <2>1, <2>2, <2>3, <2>4 DEF NoConnectionLost
  <2>7. NoConnectionShared'
        BY <1>b, <2>2, <2>3, <2>4, <2>5 DEF NoConnectionShared
  <2> QED BY <2>6, <2>7 DEF Owned
<1>2. CASE AcceptError
      BY <1>2, SameOwners DEF AcceptError, Goto, MainHolds, WorkerHolds
<1>3. CASE MainLock
      BY <1>3, SameOwners DEF MainLock, Goto, MainHolds, WorkerHolds
<1>4. CASE ContinueAfterError
      BY <1>4, SameOwners DEF ContinueAfterError, Goto, MainHolds, WorkerHolds
<1>5. CASE WaitForRoom
      BY <1>5, SameOwners DEF WaitForRoom, Goto, MainHolds, WorkerHolds
<1>6. CASE MainRelock
      BY <1>6, SameOwners DEF MainRelock, Goto, MainHolds, WorkerHolds
<1>7. CASE Enqueue
  <2>1. connfd \in Fd /\ queue' = Append(queue, connfd) /\ open' = open
        BY <1>7 DEF Enqueue, ReadyToEnqueue, Enqueued
  <2>2. MainHolds = {connfd} /\ MainHolds' = {}
        BY <1>7, <2>1 DEF Enqueue, ReadyToEnqueue, Waiting, MainHolds
  <2>3. \A w \in Worker : WorkerHolds(w)' = WorkerHolds(w)
        BY <1>7 DEF Enqueue, Waiting, WorkerHolds
  <2>4. /\ Len(queue') = Len(queue) + 1
        /\ \A i \in 1..Len(queue) : queue'[i] = queue[i]
        /\ queue'[Len(queue) + 1] = connfd
        BY <2>1
  <2>5. Queued' = Queued \cup {connfd}
        BY <2>4 DEF Queued
  <2>6. NoConnectionLost'
        BY <1>a, <2>1, <2>2, <2>3, <2>5 DEF NoConnectionLost
  <2>7. \A i \in 1..Len(queue) : queue[i] # connfd
        BY <1>b, <2>2 DEF Queued
  <2>8. \A i, j \in 1..Len(queue') : queue'[i] = queue'[j] => i = j
    <3> SUFFICES ASSUME NEW i \in 1..Len(queue'), NEW j \in 1..Len(queue'),
                        queue'[i] = queue'[j]
                 PROVE  i = j
        OBVIOUS
    <3>1. CASE i \in 1..Len(queue) /\ j \in 1..Len(queue)
          BY <1>b, <2>4, <3>1
    <3>2. CASE i = Len(queue) + 1 \/ j = Len(queue) + 1
          BY <2>4, <2>7, <3>2
    <3> QED BY <2>4, <3>1, <3>2
  <2>9. NoConnectionShared'
        BY <1>b, <2>2, <2>3, <2>5, <2>8 DEF NoConnectionShared
  <2> QED BY <2>6, <2>9 DEF Owned
<1>8. CASE MainUnlock
      BY <1>8, SameOwners DEF MainUnlock, Goto, MainHolds, WorkerHolds
<1>9. ASSUME NEW w \in Worker, WorkerLock(w) PROVE Owned'
      BY <1>9, SameOwners DEF WorkerLock, Goto, MainHolds, WorkerHolds
<1>10. ASSUME NEW w \in Worker, WaitForWork(w) PROVE Owned'
      BY <1>10, SameOwners DEF WaitForWork, Goto, MainHolds, WorkerHolds
<1>11. ASSUME NEW w \in Worker, Dequeue(w) PROVE Owned'
  <2> DEFINE f == queue[1]
  <2>1. /\ Len(queue) \in Nat \ {0} /\ Len(queue') = Len(queue) - 1
        /\ \A i \in 1..Len(queue') : queue'[i] = queue[i + 1]
        /\ Head(queue) = f /\ open' = open
        BY <1>11 DEF Dequeue
  <2>2. MainHolds' = MainHolds
        BY <1>11 DEF Dequeue, MainWoken, MainHolds
  <2>3. WorkerHolds(w) = {} /\ WorkerHolds(w)' = {f}
        BY <1>11, <2>1 DEF Dequeue, WorkerHolds
  <2>4. \A v \in Worker \ {w} : WorkerHolds(v)' = WorkerHolds(v)
        BY <1>11 DEF Dequeue, WorkerHolds
  <2>5. \A i \in 1..Len(queue') : i + 1 \in 1..Len(queue) /\ queue'[i] # f
        BY <1>b, <2>1
  <2>6. Queued = Queued' \cup {f} /\ f \notin Queued'
    <3>1. ASSUME NEW x \in Queued, x # f PROVE x \in Queued'
      <4>1. PICK i \in 1..Len(queue) : x = queue[i]
            BY DEF Queued
      <4>2. i - 1 \in 1..Len(queue') /\ queue'[i - 1] = x
            BY <2>1, <3>1, <4>1
      <4> QED BY <4>2 DEF Queued
    <3>2. f \in Queued
          BY <2>1 DEF Queued
    <3>3. Queued' \subseteq Queued /\ f \notin Queued'
          BY <2>1, <2>5 DEF Queued
    <3> QED BY <3>1, <3>2, <3>3
  <2>7. NoConnectionLost'
    <3>1. UNION {WorkerHolds(v)' : v \in Worker}
            = {f} \cup UNION {WorkerHolds(v) : v \in Worker}
          BY <2>3, <2>4
    <3> QED BY <1>a, <2>1, <2>2, <2>6, <3>1 DEF NoConnectionLost
  <2>8. \A i, j \in 1..Len(queue') : queue'[i] = queue'[j] => i = j
        BY <1>b, <2>1, <2>5
  <2>9. \A v \in Worker \ {w} : f \notin WorkerHolds(v)
        BY <1>b, <2>6
  <2>10. f \notin MainHolds
        BY <1>b, <2>6
  <2>11. NoConnectionShared'
        BY <1>b, <2>2, <2>3, <2>4, <2>6, <2>8, <2>9, <2>10 DEF NoConnectionShared
  <2> QED BY <2>7, <2>11 DEF Owned
<1>12. ASSUME NEW w \in Worker, WorkerUnlock(w) PROVE Owned'
      BY <1>12, SameOwners DEF WorkerUnlock, Goto, MainHolds, WorkerHolds
<1>13. ASSUME NEW w \in Worker, Handle(w) PROVE Owned'
      BY <1>13, SameOwners DEF Handle, Goto, MainHolds, WorkerHolds
<1>14. ASSUME NEW w \in Worker, LockClose(w) PROVE Owned'
      BY <1>14, SameOwners DEF LockClose, Goto, MainHolds, WorkerHolds
<1>15. ASSUME NEW w \in Worker, Close(w) PROVE Owned'
  <2> DEFINE f == threadConnfd[w]
  <2>1. MainHolds' = MainHolds /\ Queued' = Queued /\ queue' = queue
        BY <1>15 DEF Close, Goto, MainHolds, Queued
  <2>2. WorkerHolds(w) = {f} /\ WorkerHolds(w)' = {}
        BY <1>15 DEF Close, Goto, WorkerHolds
  <2>3. \A v \in Worker \ {w} : WorkerHolds(v)' = WorkerHolds(v)
        BY <1>15 DEF Close, Goto, WorkerHolds
  <2>4. open' = open \ {f}
        BY <1>15 DEF Close
  <2>5. /\ f \notin MainHolds /\ f \notin Queued
        /\ \A v \in Worker \ {w} : f \notin WorkerHolds(v)
        BY <1>b, <2>2
  <2>6. UNION {WorkerHolds(v) : v \in Worker}
          = {f} \cup UNION {WorkerHolds(v)' : v \in Worker}
        BY <2>2, <2>3
  <2>7. f \notin UNION {WorkerHolds(v)' : v \in Worker}
        BY <2>2, <2>3, <2>5
  <2>8. NoConnectionLost'
        BY <1>a, <2>1, <2>4, <2>5, <2>6, <2>7 DEF NoConnectionLost
  <2>9. NoConnectionShared'
        BY <1>b, <2>1, <2>2, <2>3 DEF NoConnectionShared
  <2> QED BY <2>8, <2>9 DEF Owned
<1>16. ASSUME NEW t \in Thread, SpuriousWakeup(t) PROVE Owned'
      BY <1>16, SameOwners DEF SpuriousWakeup, Goto, MainHolds, WorkerHolds
<1>17. CASE UNCHANGED vars
      BY <1>17, SameOwners DEF vars, MainHolds, WorkerHolds
<1> QED BY <1>1, <1>2, <1>3, <1>4, <1>5, <1>6, <1>7, <1>8, <1>9, <1>10, <1>11,
           <1>12, <1>13, <1>14, <1>15, <1>16, <1>17
        DEF Next, MainStep, WorkerStep

LEMMA OwnedHolds == Spec => []Owned
<1>1. Init => Owned
      BY WorkersAssumption, DataAssumption
      DEF Init, Owned, NoConnectionLost, NoConnectionShared, MainHolds, Queued,
          WorkerHolds, Thread
<1> QED BY <1>1, NextOwned, TypingHolds, PTL DEF Spec

\* NoConnectionLost: every accepted connection stays with the dispatcher, in the
\* queue or with a worker until it is closed, and no closed one is kept.
THEOREM ConnectionsKept == Spec => []NoConnectionLost
<1>1. Owned => NoConnectionLost
      BY DEF Owned
<1> QED BY <1>1, OwnedHolds, PTL

\* NoConnectionShared: no two workers, and no worker and the queue, ever have the
\* same connection, although the kernel reuses descriptors as soon as it may.
THEOREM ConnectionsUnshared == Spec => []NoConnectionShared
<1>1. Owned => NoConnectionShared
      BY DEF Owned
<1> QED BY <1>1, OwnedHolds, PTL

-----------------------------------------------------------------------------
LEMMA OnTheWayFinite == IsFiniteSet(OnTheWay)
BY WorkersAssumption, FS_Subset DEF OnTheWay

\* A step that puts no worker to sleep, takes none from its way to dequeue() and
\* leaves the queue alone keeps a worker on its way for every connection.
LEMMA NoneFellAsleep ==
  ASSUME NoIdleWorker, queue \in Seq(Fd), queue' = queue, Waiting' \subseteq Waiting,
         OnTheWay \subseteq OnTheWay', IsFiniteSet(OnTheWay')
  PROVE  NoIdleWorker'
<1>1. Cardinality(OnTheWay) <= Cardinality(OnTheWay')
      BY FS_Subset
<1>2. Cardinality(OnTheWay) \in Nat /\ Cardinality(OnTheWay') \in Nat /\ Len(queue) \in Nat
      BY OnTheWayFinite, FS_CardinalityType
<1> QED BY <1>1, <1>2 DEF NoIdleWorker

LEMMA NextNoIdleWorker == Typing /\ NoIdleWorker /\ [Next]_vars => NoIdleWorker'
<1> SUFFICES ASSUME Typing, NoIdleWorker, [Next]_vars PROVE NoIdleWorker'
    OBVIOUS
<1> USE WorkersAssumption, DataAssumption DEF Typing, TypeOK, MainPc, WorkerPc, Thread
<1>a. IsFiniteSet(OnTheWay')
      BY FS_Subset DEF OnTheWay
<1>b. Cardinality(OnTheWay) \in Nat /\ Cardinality(OnTheWay') \in Nat
      BY <1>a, OnTheWayFinite, FS_CardinalityType
<1> USE NoneFellAsleep, <1>a
<1>1. CASE Accept
      BY <1>1 DEF Accept, Goto, Waiting, OnTheWay
<1>2. CASE AcceptError
      BY <1>2 DEF AcceptError, Goto, Waiting, OnTheWay
<1>3. CASE MainLock
      BY <1>3 DEF MainLock, Goto, Waiting, OnTheWay
<1>4. CASE ContinueAfterError
      BY <1>4 DEF ContinueAfterError, Goto, Waiting, OnTheWay
<1>5. CASE WaitForRoom
      BY <1>5 DEF WaitForRoom, Goto, Waiting, OnTheWay
<1>6. CASE MainRelock
      BY <1>6 DEF MainRelock, Goto, Waiting, OnTheWay
<1>7. CASE Enqueue
  <2>1. CASE Waiting = {}
    <3>1. Waiting' = {}
          BY <1>7, <2>1 DEF Enqueue, Waiting
    <3> QED BY <3>1 DEF NoIdleWorker
  <2>2. CASE Waiting # {}
    <3>1. PICK w \in Waiting : pc' = [pc EXCEPT ![Main] = "unlock", ![w] = "relock"]
          BY <1>7, <2>2 DEF Enqueue, NobodyToWake
    <3>2. OnTheWay' = OnTheWay \cup {w} /\ w \notin OnTheWay
          BY <3>1 DEF OnTheWay, Waiting
    <3>3. Cardinality(OnTheWay') = Cardinality(OnTheWay) + 1
          BY <3>2, OnTheWayFinite, FS_AddElement
    <3>4. connfd \in Fd
          BY <1>7 DEF Enqueue, ReadyToEnqueue
    <3>5. Len(queue') = Len(queue) + 1
          BY <1>7, <3>4 DEF Enqueue, Enqueued
    <3>6. Len(queue) <= Cardinality(OnTheWay)
          BY <2>2 DEF NoIdleWorker
    <3> QED BY <1>b, <3>3, <3>5, <3>6 DEF NoIdleWorker
  <2> QED BY <2>1, <2>2
<1>8. CASE MainUnlock
      BY <1>8 DEF MainUnlock, Goto, Waiting, OnTheWay
<1>9. ASSUME NEW w \in Worker, WorkerLock(w) PROVE NoIdleWorker'
      BY <1>9 DEF WorkerLock, Goto, Waiting, OnTheWay
<1>10. ASSUME NEW w \in Worker, WaitForWork(w) PROVE NoIdleWorker'
  <2>1. Len(queue') = 0
        BY <1>10 DEF WaitForWork
  <2> QED BY <1>b, <2>1 DEF NoIdleWorker
<1>11. ASSUME NEW w \in Worker, Dequeue(w) PROVE NoIdleWorker'
  <2>1. Waiting' = Waiting
        BY <1>11 DEF Dequeue, Waiting
  <2>2. OnTheWay' = OnTheWay \ {w} /\ w \in OnTheWay
        BY <1>11 DEF Dequeue, OnTheWay
  <2>3. Cardinality(OnTheWay') = Cardinality(OnTheWay) - 1
        BY <2>2, OnTheWayFinite, FS_RemoveElement
  <2>4. Len(queue) \in Nat /\ Len(queue') = Len(queue) - 1
        BY <1>11 DEF Dequeue
  <2> QED BY <1>b, <2>1, <2>3, <2>4 DEF NoIdleWorker
<1>12. ASSUME NEW w \in Worker, WorkerUnlock(w) PROVE NoIdleWorker'
      BY <1>12 DEF WorkerUnlock, Goto, Waiting, OnTheWay
<1>13. ASSUME NEW w \in Worker, Handle(w) PROVE NoIdleWorker'
      BY <1>13 DEF Handle, Goto, Waiting, OnTheWay
<1>14. ASSUME NEW w \in Worker, LockClose(w) PROVE NoIdleWorker'
      BY <1>14 DEF LockClose, Goto, Waiting, OnTheWay
<1>15. ASSUME NEW w \in Worker, Close(w) PROVE NoIdleWorker'
      BY <1>15 DEF Close, Goto, Waiting, OnTheWay
<1>16. ASSUME NEW t \in Thread, SpuriousWakeup(t) PROVE NoIdleWorker'
      BY <1>16 DEF SpuriousWakeup, Goto, Waiting, OnTheWay
<1>17. CASE UNCHANGED vars
      BY <1>17 DEF vars, Waiting, OnTheWay
<1> QED BY <1>1, <1>2, <1>3, <1>4, <1>5, <1>6, <1>7, <1>8, <1>9, <1>10, <1>11,
           <1>12, <1>13, <1>14, <1>15, <1>16, <1>17
        DEF Next, MainStep, WorkerStep

\* NoIdleWorker: no signal of canWork is lost: while a worker sleeps, each queued
\* connection has a worker of its own that is awake and on its way to the queue.
THEOREM WorkIsNoticed == Spec => []NoIdleWorker
<1>1. Init => NoIdleWorker
  <2> SUFFICES ASSUME Init PROVE NoIdleWorker
      OBVIOUS
  <2>1. Len(queue) = 0 /\ Cardinality(OnTheWay) \in Nat
        BY OnTheWayFinite, FS_CardinalityType DEF Init
  <2> QED BY <2>1 DEF NoIdleWorker
<1> QED BY <1>1, NextNoIdleWorker, TypingHolds, PTL DEF Spec

-----------------------------------------------------------------------------
(* The pool whose workers a client can take for good.                      *)

\* A step of the pool is one of Dispatcher.
LEMMA PoolSteps == [PoolNext]_poolVars => [Next]_vars
BY DEF PoolNext, AcceptClient, DispatcherStep, PoolStep, Wakeup, Next, poolVars, vars

\* The pool is the server of Dispatcher, whichever workers are lost, so that all that
\* is proved above of its connections, its queue and its wake-ups holds of the pool.
THEOREM PoolIsDispatcher == PoolSpec => Spec
<1>1. PoolInit => Init
      BY DEF PoolInit
<1> QED BY <1>1, PoolSteps, PTL DEF PoolSpec, Spec

\* Each mutex is with the thread that is between its lock and its unlock, or free: the
\* converse of LockDiscipline, which a failed accept() would break.
PoolLocks ==
  /\ pc[Main] # "accept" => connfd # Failed
  /\ mutex = Main => pc[Main] \in {"check", "enqueue", "unlock"}
  /\ \A w \in Worker :
       /\ mutex = w => pc[w] \in {"dequeue", "unlock"}
       /\ closeMutex = w => pc[w] = "closing"

LEMMA NextPoolLocks == Typing /\ PoolLocks /\ [PoolNext]_poolVars => PoolLocks'
<1> SUFFICES ASSUME Typing, PoolLocks, [PoolNext]_poolVars PROVE PoolLocks'
    OBVIOUS
<1> USE WorkersAssumption, DataAssumption
    DEF Typing, TypeOK, MainPc, WorkerPc, Thread, PoolLocks
<1>1. CASE Accept
      BY <1>1 DEF Accept, Goto
<1>2. CASE MainLock
      BY <1>2 DEF MainLock, Goto, Acquire
<1>3. CASE ContinueAfterError
      BY <1>3 DEF ContinueAfterError, Goto
<1>4. CASE WaitForRoom
      BY <1>4 DEF WaitForRoom, Goto, Release
<1>5. CASE MainRelock
      BY <1>5 DEF MainRelock, Goto, Acquire
<1>6. CASE Enqueue
      BY <1>6 DEF Enqueue, ReadyToEnqueue, Waiting
<1>7. CASE MainUnlock
      BY <1>7 DEF MainUnlock, Goto, Release
<1>8. ASSUME NEW w \in Worker, WorkerLock(w) PROVE PoolLocks'
      BY <1>8 DEF WorkerLock, Goto, Acquire
<1>9. ASSUME NEW w \in Worker, WaitForWork(w) PROVE PoolLocks'
      BY <1>9 DEF WaitForWork, Goto, Release
<1>10. ASSUME NEW w \in Worker, Dequeue(w) PROVE PoolLocks'
      BY <1>10 DEF Dequeue, MainWoken
<1>11. ASSUME NEW w \in Worker, WorkerUnlock(w) PROVE PoolLocks'
      BY <1>11 DEF WorkerUnlock, Goto, Release
<1>12. ASSUME NEW w \in Worker, Handle(w) PROVE PoolLocks'
      BY <1>12 DEF Handle, Goto
<1>13. ASSUME NEW w \in Worker, LockClose(w) PROVE PoolLocks'
      BY <1>13 DEF LockClose, Goto
<1>14. ASSUME NEW w \in Worker, Close(w) PROVE PoolLocks'
      BY <1>14 DEF Close, Goto
<1>15. ASSUME NEW t \in Thread, SpuriousWakeup(t) PROVE PoolLocks'
      BY <1>15 DEF SpuriousWakeup, Goto
<1>16. CASE UNCHANGED poolVars
      BY <1>16 DEF poolVars, vars
<1> QED BY <1>1, <1>2, <1>3, <1>4, <1>5, <1>6, <1>7, <1>8, <1>9, <1>10, <1>11,
           <1>12, <1>13, <1>14, <1>15, <1>16
        DEF PoolNext, AcceptClient, DispatcherStep, PoolStep, Wakeup, MainStep, WorkerStep

\* When all threads are blocked both mutexes are free: their owners could go on.
LEMMA BlockedAreAsleep ==
  ASSUME Typing, PoolLocks, \A t \in Thread : Blocked(t)
  PROVE  /\ pc[Main] \in {"accept", "full"}
         /\ \A w \in Worker : pc[w] = "waiting" \/ Taken(w)
<1> USE WorkersAssumption, DataAssumption
    DEF Typing, TypeOK, MainPc, WorkerPc, Thread, PoolLocks, Blocked, Taken
<1>1. mutex = Nobody
  <2>1. mutex # Main
        OBVIOUS
  <2>2. \A w \in Worker : mutex # w
        OBVIOUS
  <2> QED BY <2>1, <2>2
<1>2. closeMutex = Nobody
      OBVIOUS
<1> QED BY <1>1, <1>2

\* RestsWhenDone: the pool comes to rest only when no worker is left, or with nothing
\* queued, the dispatcher in accept(), and nothing open but what has taken a worker.
THEOREM PoolHasNoDeadlock == PoolSpec => []RestsWhenDone
<1>1. ASSUME Typing, RoomKept, Owned, NoIdleWorker, PoolLocks
      PROVE  RestsWhenDone
  <2> SUFFICES ASSUME \A t \in Thread : Blocked(t), NEW v \in Worker, ~Taken(v)
               PROVE  pc[Main] = "accept" /\ queue = <<>> /\ open \subseteq lasting
      BY DEF RestsWhenDone, NoWorkerLeft
  <2>1. /\ pc[Main] \in {"accept", "full"}
        /\ \A w \in Worker : pc[w] = "waiting" \/ Taken(w)
        BY <1>1, BlockedAreAsleep
  <2>2. Waiting # {} /\ OnTheWay = {}
        BY <2>1 DEF Waiting, OnTheWay, Taken
  <2>3. queue \in Seq(Fd) /\ Len(queue) \in Nat /\ Len(queue) <= 0
        BY <1>1, <2>2, FS_EmptySet DEF NoIdleWorker, Typing, TypeOK
  <2>4. queue = <<>>
        BY <2>3
  <2>5. pc[Main] = "accept"
        BY <1>1, <2>1, <2>3, DataAssumption DEF RoomKept, NoLostRoom, QueueIsFull
  <2>6. MainHolds = {} /\ Queued = {}
        BY <2>4, <2>5 DEF MainHolds, Queued
  <2>7. \A w \in Worker : WorkerHolds(w) \subseteq lasting
        BY <2>1 DEF WorkerHolds, Taken
  <2>8. open \subseteq lasting
        BY <1>1, <2>6, <2>7 DEF Owned, NoConnectionLost
  <2> QED BY <2>4, <2>5, <2>8
<1>2. PoolInit => PoolLocks
      BY WorkersAssumption, DataAssumption DEF PoolInit, Init, PoolLocks, Thread
<1> QED BY <1>1, <1>2, NextPoolLocks, PoolIsDispatcher, TypingHolds, RoomKeptHolds, OwnedHolds,
           WorkIsNoticed, PTL DEF PoolSpec
=============================================================================
