------------------------------ MODULE Shutdown ------------------------------
(***************************************************************************)
(* SIGTERM and SIGINT in the middle of requests (asgn4): the handler runs in *)
(* whichever thread the kernel picks, between any two of its steps, while    *)
(* the other threads go on until exit().  It closes the log first.          *)
(*                                                                         *)
(* pthread_rwlock_destroy() is called whether the locks are held or not,     *)
(* which is undefined; in the C library of the build it does nothing.       *)
(***************************************************************************)
EXTENDS FileHandlers

CONSTANT Main      \* the dispatcher, which holds nothing of a request

ASSUME MainAssumption == Main \notin Request \cup {Nobody}

VARIABLES
  handler,         \* how far the signal handler is
  interrupted,     \* the thread in which it runs
  logged           \* history: the files as the uploads in the log left them

shutVars == <<vars, handler, interrupted, logged>>

Signal ==
  /\ handler = "none"
  /\ handler' = "runs"
  /\ interrupted' \in Request \cup {Main}
  /\ UNCHANGED <<vars, logged>>

\* Mutant: lines that LOG has written are still in a buffer, and lost.
LogAfterCloseMutant == <<>>

LogAfterClose == log

\* fclose(logfile), which flushes what LOG has written.
CloseLog ==
  /\ handler = "runs"
  /\ handler' = "closed"
  /\ log' = LogAfterClose
  /\ UNCHANGED <<input, pc, readLock, writeLock, files, job, committed, interrupted, logged>>

\* exit(), after which nothing runs.
Exit ==
  /\ handler = "closed"
  /\ handler' = "exited"
  /\ UNCHANGED <<vars, interrupted, logged>>

sigterm_handler == Signal \/ CloseLog \/ Exit

Runs(r) == handler # "exited" /\ interrupted # r

\* LOG to a closed file: the line is lost.  It may as well end the process, which Exit
\* stands for.
LogLost(r) ==
  /\ Goto(r, "log", "unlock")
  /\ committed' = IF IsStored(r)
                  THEN [committed EXCEPT ![FileOf(r)] = files[FileOf(r)]]
                  ELSE committed
  /\ UNCHANGED <<input, readLock, writeLock, files, job, log>>

LogIsOpen == handler \in {"none", "runs"}

WorkerStep(r) ==
  /\ Runs(r)
  /\ IF LogIsOpen \/ pc[r] # "log"
     THEN ServerStep(r) \/ ClientStep(r) ELSE LogLost(r)
  /\ logged' = IF LogIsOpen THEN committed' ELSE logged
  /\ UNCHANGED <<handler, interrupted>>

Stopped ==
  /\ handler = "exited" \/ \A r \in Request : pc[r] = "done"
  /\ UNCHANGED shutVars

ShutInit == Init /\ handler = "none" /\ interrupted = Nobody /\ logged = files

ShutNext == sigterm_handler \/ Stopped \/ \E r \in Request : WorkerStep(r)

ShutSpec == ShutInit /\ [][ShutNext]_shutVars

-----------------------------------------------------------------------------
(* Properties, beside those of FileHandlers that a signal leaves true.      *)

LoggedRequests == {log[i] : i \in 1..Len(log)}

\* Wherever the process ends, at most one path is not as a sequence of whole and
\* answered uploads has left it: writeLock keeps uploads of different paths apart, too.
AtMostOneTorn ==
  \A f, g \in File : files[f] # committed[f] /\ files[g] # committed[g] => f = g

\* As long as the log is open, at most one upload has been answered and is not in it;
\* the handler can cut off no more than that, and what it cuts off later was answered
\* behind its back.
AtMostOneUnlogged ==
  LogIsOpen =>
    \A r, q \in Request :
      /\ ~IsGet(r) /\ job[r].status \notin {0, RES_FORBIDDEN} /\ r \notin LoggedRequests
      /\ ~IsGet(q) /\ job[q].status \notin {0, RES_FORBIDDEN} /\ q \notin LoggedRequests
      => r = q

AtomicLog == INSTANCE AtomicStore WITH
  store <- logged,
  history <- [k \in 1..Len(log) |->
                [req |-> log[k], status |-> job[log[k]].status,
                 length |-> job[log[k]].fileSize, body |-> job[log[k]].sent]]

\* The log is a serial history up to the moment in which it is closed: serving its
\* requests one at a time in its order gives the same answers, and the same files but
\* for the uploads that are missing in it.  Holds of uploads among themselves.
SerialLog == AtomicLog!Spec
=============================================================================
