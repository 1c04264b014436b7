----------------------------- MODULE ServerPool -----------------------------
(***************************************************************************)
(* The server of asgn3 and asgn4 with connections whose handler does not   *)
(* return: a client that keeps its side open (the receive loop waits for   *)
(* more), a GET that has announced more bytes than the file has any more,  *)
(* a GET of a directory.  Dispatcher lets every handler return; here a     *)
(* worker that takes such a connection is lost to the pool for good.       *)
(*                                                                         *)
(* accept() does not fail in this module; what follows when it does is in  *)
(* Dispatcher.                                                             *)
(***************************************************************************)
EXTENDS Dispatcher

VARIABLE lasting   \* the open connections whose handler will not return

poolVars == <<vars, lasting>>

Taken(w) == pc[w] = "handle" /\ threadConnfd[w] \in lasting

\* accept() in main: any client may be one that stays.
AcceptClient ==
  /\ Accept
  /\ \/ lasting' = lasting
     \/ lasting' = lasting \cup {connfd'}

\* The loop of main behind accept().
DispatcherStep == MainStep /\ UNCHANGED lasting

\* The loop of threadFunction, for a worker that has not been taken.
PoolStep(w) == ~Taken(w) /\ WorkerStep(w) /\ UNCHANGED lasting

Wakeup == (\E t \in Thread : SpuriousWakeup(t)) /\ UNCHANGED lasting

PoolInit == Init /\ lasting = {}

PoolNext ==
  \/ AcceptClient
  \/ DispatcherStep
  \/ \E w \in Worker : PoolStep(w)
  \/ Wakeup

\* As in Dispatcher: threads that can run do run, and a mutex that is free
\* again and again is got in the end.
PoolFairness ==
  /\ WF_poolVars(DispatcherStep)
  /\ SF_poolVars((MainLock \/ MainRelock) /\ UNCHANGED lasting)
  /\ \A w \in Worker :
       /\ WF_poolVars(PoolStep(w))
       /\ SF_poolVars(WorkerLock(w) /\ UNCHANGED lasting)
       /\ SF_poolVars(LockClose(w) /\ UNCHANGED lasting)

PoolSpec == PoolInit /\ [][PoolNext]_poolVars /\ PoolFairness

-----------------------------------------------------------------------------
NoWorkerLeft == \A w \in Worker : Taken(w)

\* A thread that waits: for a mutex that another one has, for a signal, for a client
\* to connect, or for a client that stays.
Blocked(t) ==
  \/ pc[t] \in {"lock", "relock"} /\ mutex # Nobody
  \/ pc[t] = "close" /\ closeMutex # Nobody
  \/ pc[t] \in {"accept", "full", "waiting"}
  \/ t \in Worker /\ Taken(t)

\* There is no deadlock: all threads wait only when every worker is lost to a client
\* that stays, or when the work is done: the dispatcher is in accept(), the queue is
\* empty, and all that is still open belongs to clients that stay.
RestsWhenDone ==
  (\A t \in Thread : Blocked(t)) =>
    \/ NoWorkerLeft
    \/ pc[Main] = "accept" /\ queue = <<>> /\ open \subseteq lasting

\* Clients that stay do not harm the others while one worker is left: each other
\* connection that main accepted is handled and closed, unless and until every
\* worker is lost to one of them.
OthersAreServed ==
  \A f \in Fd : f \in open \ lasting ~> f \notin open \/ NoWorkerLeft

\* The dispatcher, which sleeps while the queue is full, comes back to accept()
\* again and again while one worker is left.
AcceptsAgain == []<>(pc[Main] = "accept" \/ NoWorkerLeft)
=============================================================================
