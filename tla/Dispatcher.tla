----------------------------- MODULE Dispatcher -----------------------------
(***************************************************************************)
(* The dispatcher and the worker threads of the multithreaded server       *)
(* (asgn4/httpserver.c, main and threadFunction).  The main thread accepts *)
(* connections and appends them to a queue; the workers take them from the *)
(* front, handle them and close them.  One mutex protects the queue;       *)
(* canWork wakes a worker, queueFull wakes the dispatcher.                 *)
(*                                                                         *)
(* The queue is a sequence here: JobQueue is the linked list of            *)
(* threadPool.c and implements it.  What a worker does with a connection   *)
(* is FileHandlers; here handling a connection is one step.                *)
(*                                                                         *)
(* File descriptors are reused by the kernel as soon as they are closed,   *)
(* so that behaviours are infinite although Fd is small.                   *)
(***************************************************************************)
EXTENDS Integers, Sequences, FiniteSets

CONSTANTS
  Worker,          \* the worker threads
  Main,            \* the dispatcher thread
  Nobody,          \* the owner of a free mutex
  Fd,              \* the descriptors accept() may return; all are positive,
                   \* as descriptor 0 is taken before accept() is reached
  Failed,          \* the negative result of a failed accept()
  EMPTY_QUEUE,     \* the negative result of dequeue() on an empty queue
  MAX_QUEUE_SIZE,
  AcceptFails,     \* may accept() fail (ECONNABORTED, EMFILE, ...)?
  MaxSpurious      \* bound: spurious wake-ups of condition variables

ASSUME WorkersAssumption ==
  /\ IsFiniteSet(Worker) /\ Worker # {}
  /\ Main \notin Worker
  /\ Nobody \notin Worker \cup {Main}

ASSUME DataAssumption ==
  /\ Failed \notin Fd
  /\ EMPTY_QUEUE \notin Fd
  /\ MAX_QUEUE_SIZE \in Nat
  /\ AcceptFails \in BOOLEAN
  /\ MaxSpurious \in Nat

VARIABLES
  pc,              \* where each thread is
  mutex,           \* the owner of myMutex
  closeMutex,      \* the owner of closeConnMutex
  queue,           \* the connections that wait for a worker
  connfd,          \* the dispatcher's local variable
  threadConnfd,    \* each worker's local variable
  open,            \* the connection descriptors the kernel holds open
  spurious         \* how many spurious wake-ups there were

vars == <<pc, mutex, closeMutex, queue, connfd, threadConnfd, open, spurious>>

Thread == Worker \cup {Main}

Goto(t, from, to) ==
  /\ pc[t] = from
  /\ pc' = [pc EXCEPT ![t] = to]

\* Mutant: pthread_mutex_trylock whose result is not looked at.
AcquireMutant(t) == mutex' = t

Acquire(t) == mutex = Nobody /\ mutex' = t
Release    == mutex' = Nobody

-----------------------------------------------------------------------------
(* The dispatcher: the accept loop of main().                              *)

Accept ==
  /\ Goto(Main, "accept", "lock")
  /\ \E f \in Fd \ open : connfd' = f /\ open' = open \cup {f}
  /\ UNCHANGED <<mutex, closeMutex, queue, threadConnfd, spurious>>

AcceptError ==
  /\ AcceptFails
  /\ Goto(Main, "accept", "lock")
  /\ connfd' = Failed
  /\ UNCHANGED <<mutex, closeMutex, queue, threadConnfd, open, spurious>>

MainLock ==
  /\ Goto(Main, "lock", "check")
  /\ Acquire(Main)
  /\ UNCHANGED <<closeMutex, queue, connfd, threadConnfd, open, spurious>>

\* "continue" after a failed accept(): the mutex stays locked.
ContinueAfterError ==
  /\ connfd = Failed
  /\ Goto(Main, "check", "accept")
  /\ UNCHANGED <<mutex, closeMutex, queue, connfd, threadConnfd, open, spurious>>

\* Mutant: the bound is off by one.
QueueIsFullMutant == Len(queue) > MAX_QUEUE_SIZE + 1

QueueIsFull == Len(queue) > MAX_QUEUE_SIZE

\* Mutant: a connection that finds the queue full is dropped, and not closed.
WaitForRoomMutant ==
  /\ connfd # Failed /\ QueueIsFull
  /\ Goto(Main, "check", "unlock")
  /\ UNCHANGED <<mutex, closeMutex, queue, connfd, threadConnfd, open, spurious>>

\* pthread_cond_wait(&queueFull, &myMutex): wait and release in one step.
WaitForRoom ==
  /\ connfd # Failed /\ QueueIsFull
  /\ Goto(Main, "check", "full")
  /\ Release
  /\ UNCHANGED <<closeMutex, queue, connfd, threadConnfd, open, spurious>>

\* Back from the wait: the condition is not tested again.
MainRelock ==
  /\ Goto(Main, "relock", "enqueue")
  /\ Acquire(Main)
  /\ UNCHANGED <<closeMutex, queue, connfd, threadConnfd, open, spurious>>

Waiting == {w \in Worker : pc[w] = "waiting"}

\* Mutant: a signal "is not needed" when the queue was not empty.
NobodyToWakeMutant == Waiting = {} \/ queue # <<>>

NobodyToWake == Waiting = {}

\* Mutant: the result of accept() is not tested.
ReadyToEnqueueMutant ==
  \/ pc[Main] = "check" /\ ~QueueIsFull
  \/ pc[Main] = "enqueue"

ReadyToEnqueue ==
  \/ pc[Main] = "check" /\ connfd # Failed /\ ~QueueIsFull
  \/ pc[Main] = "enqueue"

\* Mutant: the list is used as a stack.
EnqueuedMutant == <<connfd>> \o queue

Enqueued == Append(queue, connfd)

\* enqueue() and pthread_cond_signal(&canWork), which wakes one waiter if any.
Enqueue ==
  /\ ReadyToEnqueue
  /\ queue' = Enqueued
  /\ \/ /\ NobodyToWake
        /\ pc' = [pc EXCEPT ![Main] = "unlock"]
     \/ \E w \in Waiting :
          pc' = [pc EXCEPT ![Main] = "unlock", ![w] = "relock"]
  /\ UNCHANGED <<mutex, closeMutex, connfd, threadConnfd, open, spurious>>

MainUnlock ==
  /\ Goto(Main, "unlock", "accept")
  /\ Release
  /\ UNCHANGED <<closeMutex, queue, connfd, threadConnfd, open, spurious>>

-----------------------------------------------------------------------------
(* The workers: the loop of threadFunction().                              *)

WorkerLock(w) ==
  /\ \/ Goto(w, "lock", "dequeue")
     \/ Goto(w, "relock", "dequeue")
  /\ Acquire(w)
  /\ UNCHANGED <<closeMutex, queue, connfd, threadConnfd, open, spurious>>

\* dequeue() found nothing: pthread_cond_wait(&canWork, &myMutex).
WaitForWork(w) ==
  /\ queue = <<>>
  /\ Goto(w, "dequeue", "waiting")
  /\ threadConnfd' = [threadConnfd EXCEPT ![w] = EMPTY_QUEUE]
  /\ Release
  /\ UNCHANGED <<closeMutex, queue, connfd, open, spurious>>

\* Mutant: the worker does not signal queueFull.
MainWokenMutant == pc[Main]

MainWoken == IF pc[Main] = "full" THEN "relock" ELSE pc[Main]

\* dequeue() and pthread_cond_signal(&queueFull).
Dequeue(w) ==
  /\ pc[w] = "dequeue"
  /\ queue # <<>>
  /\ threadConnfd' = [threadConnfd EXCEPT ![w] = Head(queue)]
  /\ queue' = Tail(queue)
  /\ pc' = [pc EXCEPT ![w] = "unlock", ![Main] = MainWoken]
  /\ UNCHANGED <<mutex, closeMutex, connfd, open, spurious>>

WorkerUnlock(w) ==
  /\ Goto(w, "unlock", "handle")
  /\ Release
  /\ UNCHANGED <<closeMutex, queue, connfd, threadConnfd, open, spurious>>

\* Mutant: handle_connection() closes the connection too.
HandleMutant(w) ==
  /\ Goto(w, "handle", "close")
  /\ open' = open \ {threadConnfd[w]}
  /\ UNCHANGED <<mutex, closeMutex, queue, connfd, threadConnfd, spurious>>

\* handle_connection() returns.
Handle(w) ==
  /\ Goto(w, "handle", "close")
  /\ UNCHANGED <<mutex, closeMutex, queue, connfd, threadConnfd, open, spurious>>

LockClose(w) ==
  /\ Goto(w, "close", "closing")
  /\ closeMutex = Nobody
  /\ closeMutex' = w
  /\ UNCHANGED <<mutex, queue, connfd, threadConnfd, open, spurious>>

\* close() and the release of closeConnMutex.
Close(w) ==
  /\ Goto(w, "closing", "lock")
  /\ open' = open \ {threadConnfd[w]}
  /\ closeMutex' = Nobody
  /\ UNCHANGED <<mutex, queue, connfd, threadConnfd, spurious>>

-----------------------------------------------------------------------------
\* POSIX lets pthread_cond_wait return although nobody signalled.
SpuriousWakeup(t) ==
  /\ spurious < MaxSpurious
  /\ \/ Goto(t, "waiting", "relock")
     \/ Goto(t, "full", "relock")
  /\ spurious' = spurious + 1
  /\ UNCHANGED <<mutex, closeMutex, queue, connfd, threadConnfd, open>>

Init ==
  /\ pc = [t \in Thread |-> IF t = Main THEN "accept" ELSE "lock"]
  /\ mutex = Nobody
  /\ closeMutex = Nobody
  /\ queue = <<>>
  /\ connfd = Failed
  /\ threadConnfd = [w \in Worker |-> EMPTY_QUEUE]
  /\ open = {}
  /\ spurious = 0

MainStep ==
  \/ MainLock \/ ContinueAfterError \/ WaitForRoom \/ MainRelock
  \/ Enqueue \/ MainUnlock

WorkerStep(w) ==
  \/ WorkerLock(w) \/ WaitForWork(w) \/ Dequeue(w) \/ WorkerUnlock(w)
  \/ Handle(w) \/ LockClose(w) \/ Close(w)

Next ==
  \/ Accept
  \/ AcceptError
  \/ MainStep
  \/ \E w \in Worker : WorkerStep(w)
  \/ \E t \in Thread : SpuriousWakeup(t)

Spec == Init /\ [][Next]_vars

\* Threads that can run do run.  A thread that wants a mutex which is free
\* again and again gets it: the default mutex promises no order, but waiters
\* are woken on every unlock.  Nothing makes a client connect or accept() fail.
Fairness ==
  /\ WF_vars(MainStep)
  /\ SF_vars(MainLock \/ MainRelock)
  /\ \A w \in Worker :
       /\ WF_vars(WorkerStep(w))
       /\ SF_vars(WorkerLock(w))
       /\ SF_vars(LockClose(w))

FairSpec == Spec /\ Fairness

-----------------------------------------------------------------------------
(* Properties.                                                             *)

\* Every variable has its type: in particular only real descriptors are queued.
TypeOK ==
  /\ pc \in [Thread -> {"accept", "lock", "check", "full", "relock", "enqueue",
                        "unlock", "dequeue", "waiting", "handle", "close",
                        "closing"}]
  /\ mutex \in Thread \cup {Nobody}
  /\ closeMutex \in Worker \cup {Nobody}
  /\ queue \in Seq(Fd)
  /\ connfd \in Fd \cup {Failed}
  /\ threadConnfd \in [Worker -> Fd \cup {EMPTY_QUEUE}]
  /\ open \subseteq Fd
  /\ spurious \in 0..MaxSpurious

\* Whoever is between lock and unlock (or wait) of a mutex owns it: the queue
\* and the condition variables are touched by the owner of myMutex alone, also
\* after a condition wait has handed the mutex on and taken it back.
LockDiscipline ==
  /\ \A w \in Worker : pc[w] \in {"dequeue", "unlock"} => mutex = w
  /\ pc[Main] \in {"check", "enqueue", "unlock"} => mutex = Main
  /\ \A w \in Worker : pc[w] = "closing" => closeMutex = w

\* Who is responsible for which accepted connection.
MainHolds == IF pc[Main] \in {"lock", "check", "full", "relock", "enqueue"}
             THEN {connfd} \cap Fd ELSE {}

WorkerHolds(w) == IF pc[w] \in {"unlock", "handle", "close", "closing"}
                  THEN {threadConnfd[w]} ELSE {}

Queued == {queue[i] : i \in 1..Len(queue)}

\* No connection is lost or leaked: a descriptor is open exactly while the
\* dispatcher, the queue or a worker is responsible for it.
NoConnectionLost ==
  open = MainHolds \cup Queued \cup UNION {WorkerHolds(w) : w \in Worker}

\* No connection is handled or closed on behalf of two: a descriptor is in one
\* place of the queue, with one worker, or in the dispatcher's hand.  With
\* descriptors reused at once, a second close() would hit another connection.
NoConnectionShared ==
  /\ \A i, j \in 1..Len(queue) : queue[i] = queue[j] => i = j
  /\ Queued \cap MainHolds = {}
  /\ \A w \in Worker :
       /\ WorkerHolds(w) \cap (Queued \cup MainHolds) = {}
       /\ \A v \in Worker \ {w} : WorkerHolds(w) \cap WorkerHolds(v) = {}

\* The queue outgrows MAX_QUEUE_SIZE by one connection, since the dispatcher
\* tests size > MAX_QUEUE_SIZE, and by one more for each spurious wake-up, since
\* it does not test again; by no more than that however the workers are slow.
QueueBound == Len(queue) <= MAX_QUEUE_SIZE + 1 + spurious

\* No wake-up of the dispatcher is lost: it sleeps only while the queue is full.
NoLostRoom == pc[Main] = "full" => QueueIsFull

OnTheWay == {w \in Worker : pc[w] \in {"lock", "relock", "dequeue"}}

\* No wake-up of a worker is lost: while a worker sleeps, every queued connection
\* has a worker of its own that is on its way to dequeue().
NoIdleWorker == Waiting # {} => Len(queue) <= Cardinality(OnTheWay)

\* Every accepted connection is eventually handled and closed.
EveryConnectionClosed == \A f \in Fd : f \in open ~> f \notin open
=============================================================================
