---------------------------- MODULE Shutdown_proofs ----------------------------
(***************************************************************************)
(* Proofs about Shutdown: what FileHandlers promises under a signal, how    *)
(* little the signal can tear or leave out of the log, and the log as a     *)
(* serial history of the uploads.                                          *)
(***************************************************************************)
EXTENDS Shutdown, FileHandlers_proofs

-----------------------------------------------------------------------------
(* The invariants of FileHandlers.                                         *)

Serving == Typing /\ Exclusive /\ Creation /\ Whole

\* A step leaves the requests and the log alone, or is that of a request; one that
\* logs with the log closed is the only one that FileHandlers does not have.
LEMMA ShutSteps ==
  ASSUME [ShutNext]_shutVars
  PROVE  \/ UNCHANGED <<vars, logged>> /\ (LogIsOpen' => LogIsOpen)
         \/ \E r \in Request :
              /\ \/ (LogIsOpen \/ pc[r] # "log") /\ (ServerStep(r) \/ ClientStep(r))
                 \/ ~LogIsOpen /\ LogLost(r)
              /\ logged' = IF LogIsOpen THEN committed' ELSE logged
              /\ LogIsOpen' = LogIsOpen
<1>1. CASE UNCHANGED shutVars
      BY <1>1 DEF shutVars, LogIsOpen
<1>2. CASE sigterm_handler
      BY <1>2 DEF sigterm_handler, Signal, CloseLog, Exit, LogAfterClose, LogIsOpen, vars
<1>3. CASE Stopped
      BY <1>3 DEF Stopped, shutVars, LogIsOpen
<1>4. ASSUME NEW r \in Request, WorkerStep(r)
      PROVE  /\ \/ (LogIsOpen \/ pc[r] # "log") /\ (ServerStep(r) \/ ClientStep(r))
                \/ ~LogIsOpen /\ LogLost(r)
             /\ logged' = IF LogIsOpen THEN committed' ELSE logged
             /\ LogIsOpen' = LogIsOpen
      BY <1>4 DEF WorkerStep, LogIsOpen
<1> QED BY <1>1, <1>2, <1>3, <1>4 DEF ShutNext

\* Losing the line of an answer leaves everything else in order.
LEMMA LogLostKeeps ==
  ASSUME Serving, NEW r \in Request, LogLost(r)
  PROVE  Serving'
<1>1. /\ pc \in [Request -> GetPc \cup UploadPc] /\ job \in [Request -> Jobs]
      /\ files \in [File -> {Absent} \cup Content]
      /\ committed \in [File -> {Absent} \cup Content]
      /\ FileOf(r) \in File
      /\ readLock \subseteq Request /\ writeLock \in Request \cup {Nobody}
      /\ log \in Seq(Request)
      BY InputFacts DEF Serving, Typing, TypeOK, GetPc, UploadPc, Jobs, Codes
<1>2. /\ pc[r] = "log" /\ pc' = [pc EXCEPT ![r] = "unlock"]
      /\ UNCHANGED <<input, readLock, writeLock, files, job, log>>
      /\ committed' = IF IsStored(r) THEN [committed EXCEPT ![FileOf(r)] = files[FileOf(r)]]
                      ELSE committed
      BY DEF LogLost, Goto
<1>3. \A q \in Request : /\ FileOf(q)' = FileOf(q) /\ IsGet(q)' = IsGet(q)
                         /\ q # r => pc'[q] = pc[q]
      BY <1>1, <1>2 DEF FileOf, IsGet
<1>4. pc'[r] = "unlock"
      BY <1>1, <1>2
<1>5. Typing'
  <2>1. committed' \in [File -> {Absent} \cup Content]
        BY <1>1, <1>2
  <2>2. job' = [job EXCEPT ![r] = job[r]] /\ job[r] \in Jobs
        BY <1>1, <1>2
  <2> QED BY <1>1, <1>2, <2>1, <2>2, TypingMoves DEF Serving, GetPc, UploadPc
<1>6. Exclusive'
      BY <1>2, <1>3, <1>4 DEF Serving, Exclusive
<1>7. Creation'
  <2>1. \A q \in Request : Made(q)' => Made(q)
        BY <1>2, <1>3, <1>4 DEF Made
  <2>2. Creation
        BY DEF Serving
  <2> QED BY <1>2, <1>3, <1>4, <2>1, <2>2 DEF Creation
<1>8. Whole'
  <2>1. \A q \in Request : q # r => (Writing(q)' <=> Writing(q))
        BY <1>2, <1>3 DEF Writing, IsStored
  <2>2. ~Writing(r)'
        BY <1>4 DEF Writing
  <2>3. CASE ~IsGet(r) /\ IsStored(r)
    <3>1. \A q \in Request : q # r => ~Writing(q)
          BY <1>2, <2>3, Alone DEF Serving, Writing
    <3>2. \A q \in Request : ~Writing(q)'
          BY <2>1, <2>2, <3>1
    <3>3. ASSUME NEW g \in File PROVE files'[g] = committed'[g]
      <4>1. CASE g = FileOf(r)
            BY <1>1, <1>2, <2>3, <4>1
      <4>2. CASE g # FileOf(r)
        <5>1. files[g] = committed[g]
              BY <3>1, <4>2 DEF Serving, Whole
        <5> QED BY <1>1, <1>2, <4>2, <5>1
      <4> QED BY <4>1, <4>2
    <3> QED BY <3>2, <3>3 DEF Whole
  <2>4. CASE IsGet(r) \/ ~IsStored(r)
    <3>1. UNCHANGED <<input, files, job, committed>>
          BY <1>2, <2>4 DEF IsStored
    <3>2. \A q \in Request : (Writing(q)' <=> Writing(q)) /\ Base(q)' = Base(q)
      <4>1. ~Writing(r)
            BY <1>2, <2>4 DEF Writing
      <4> QED BY <1>3, <2>1, <2>2, <3>1, <4>1 DEF Base
    <3>3. Whole
          BY DEF Serving
    <3> QED BY <1>3, <3>1, <3>2, <3>3 DEF Whole
  <2> QED BY <2>3, <2>4
<1> QED BY <1>5, <1>6, <1>7, <1>8 DEF Serving

LEMMA ShutServing == Serving /\ [ShutNext]_shutVars => Serving'
<1> SUFFICES ASSUME Serving, [ShutNext]_shutVars PROVE Serving'
    OBVIOUS
<1>1. CASE [Next]_vars
      BY <1>1, NextTyping, NextExclusive, NextCreation, NextWhole DEF Serving
<1>2. ASSUME NEW r \in Request, LogLost(r) PROVE Serving'
      BY <1>2, LogLostKeeps
<1> QED BY <1>1, <1>2, ShutSteps DEF Next

LEMMA InitServing == Init => Serving
BY InitTyping, InitCreation, InitWhole DEF Serving

\* The types, and with them the bound on what is stored, whenever a signal comes.
THEOREM ShutdownTypeCorrect == ShutSpec => []TypeOK
<1>1. ShutInit => Serving
      BY InitServing DEF ShutInit
<1>2. Serving => TypeOK
      BY DEF Serving, Typing
<1> QED BY <1>1, <1>2, ShutServing, PTL DEF ShutSpec

\* A signal and the steps after it tear no upload but those that were in progress.
THEOREM ShutdownTearsNoOther == ShutSpec => []NoTornUpload
<1>1. ShutInit => Serving
      BY InitServing DEF ShutInit
<1>2. Serving => NoTornUpload
      BY WholeIsNotTorn DEF Serving
<1> QED BY <1>1, <1>2, ShutServing, PTL DEF ShutSpec

\* One creator per path, also among those who are answered with the log closed.
THEOREM ShutdownOneCreator == ShutSpec => []OneCreator
<1>1. ShutInit => Serving
      BY InitServing DEF ShutInit
<1>2. Serving => OneCreator
      BY DEF Serving, Creation, Made, OneCreator
<1> QED BY <1>1, <1>2, ShutServing, PTL DEF ShutSpec

\* A path that is not as the answered uploads left it has an upload that writes to it.
LEMMA TornIsWriting ==
  ASSUME Serving, NEW f \in File, files[f] # committed[f]
  PROVE  \E r \in Request : Writing(r) /\ FileOf(r) = f
BY DEF Serving, Whole

\* Wherever the process ends, it tears at most one path, however many it serves.
THEOREM ShutdownTearsOne == ShutSpec => []AtMostOneTorn
<1>1. ShutInit => Serving
      BY InitServing DEF ShutInit
<1>2. Serving => AtMostOneTorn
  <2> SUFFICES ASSUME Serving, NEW f \in File, NEW g \in File,
                      files[f] # committed[f], files[g] # committed[g]
               PROVE  f = g
      BY DEF AtMostOneTorn
  <2>1. PICK r \in Request : Writing(r) /\ FileOf(r) = f
        BY TornIsWriting
  <2>2. PICK q \in Request : Writing(q) /\ FileOf(q) = g
        BY TornIsWriting
  <2>3. r = q
        BY <2>1, <2>2, Alone DEF Serving, Writing
  <2> QED BY <2>1, <2>2, <2>3
<1> QED BY <1>1, <1>2, ShutServing, PTL DEF ShutSpec

-----------------------------------------------------------------------------
(* What is missing in the log.                                             *)

\* A line in the log is behind its request, an upload has no answer before the end, and
\* an answer without a line, as long as the log is open, is still to be logged.
Logging ==
  /\ \A r \in Request : r \in LoggedRequests => pc[r] \in {"unlock", "done"}
  /\ \A r \in Request :
       ~IsGet(r) /\ pc[r] \notin {"log", "unlock", "done"} => job[r].status = 0
  /\ LogIsOpen =>
       \A r \in Request :
         /\ ~IsGet(r) /\ pc[r] \in {"unlock", "done"}
         /\ job[r].status \notin {0, RES_FORBIDDEN}
         => r \in LoggedRequests

LEMMA LoggedAppend ==
  ASSUME log \in Seq(Request), NEW r \in Request
  PROVE  /\ LoggedRequests \subseteq Request
         /\ {Append(log, r)[i] : i \in 1..Len(Append(log, r))} = LoggedRequests \cup {r}
<1>1. Len(log) \in Nat /\ \A i \in 1..Len(log) : log[i] \in Request
      BY LenProperties, ElementOfSeq
<1>2. /\ Len(Append(log, r)) = Len(log) + 1
      /\ \A i \in 1..Len(log) : Append(log, r)[i] = log[i]
      /\ Append(log, r)[Len(log) + 1] = r
      BY AppendProperties
<1>3. 1..(Len(log) + 1) = (1..Len(log)) \cup {Len(log) + 1}
      BY <1>1
<1> QED BY <1>1, <1>2, <1>3 DEF LoggedRequests

\* What the steps other than Log do to the log and to the answer of an upload.
LEMMA AnswerSteps ==
  ASSUME Typing, NEW r \in Request, ServerStep(r) \/ ClientStep(r), ~Log(r)
  PROVE  /\ log' = log /\ committed' = committed
         /\ pc[r] \in {"unlock", "done"} => pc'[r] = "done" /\ job' = job
         /\ ~IsGet(r) =>
              \/ job'[r].status = job[r].status /\ pc'[r] \notin {"log", "unlock", "done"}
                   /\ pc[r] \notin {"log", "unlock", "done"}
              \/ pc[r] # "log" /\ pc'[r] = "log"
              \/ pc[r] = "open" /\ pc'[r] = "unlock" /\ job'[r].status = RES_FORBIDDEN
              \/ pc[r] \in {"start", "unlock"} /\ pc'[r] = "done" /\ job' = job
<1>1. /\ pc \in [Request -> GetPc \cup UploadPc] /\ job \in [Request -> Jobs]
      /\ pc[r] \in IF IsGet(r) THEN GetPc ELSE UploadPc
      BY DEF Typing, TypeOK, Control, GetPc, UploadPc, Jobs, Codes
<1> USE DEF Goto, GetPc, UploadPc
<1>2. CASE LockRead(r) \/ GetOpens(r) \/ GetReturns(r)
      BY <1>1, <1>2 DEF LockRead, GetOpens, GetReturns
<1>3. CASE GetFails(r) \/ SendHeader(r) \/ SendChunk(r) \/ Spin(r)
      BY <1>1, <1>3 DEF GetFails, OpenFails, SendHeader, SendChunk, Spin, vars
<1>4. CASE NothingToStore(r) \/ UploadOpens(r) \/ BodyEnds(r) \/ BodyComplete(r) \/ Unlock(r)
      BY <1>1, <1>4 DEF NothingToStore, UploadOpens, BodyEnds, BodyComplete, AfterEnd, Unlock
<1>5. CASE LockWrite(r)
      BY <1>1, <1>5 DEF LockWrite
<1>6. CASE Access(r)
      BY <1>1, <1>6 DEF Access, Jobs
<1>7. CASE UploadFails(r) \/ SendStored(r)
      BY <1>1, <1>7 DEF UploadFails, OpenFails, SendStored, Respond, Jobs
<1>8. CASE WriteFirst(r) \/ StoreChunk(r)
      BY <1>1, <1>8 DEF WriteFirst, StoreChunk, Write, Jobs
<1> QED BY <1>2, <1>3, <1>4, <1>5, <1>6, <1>7, <1>8 DEF ServerStep, ClientStep

\* A step that neither logs nor answers a request other than its own.
LEMMA LoggingMoves ==
  ASSUME Serving, Logging, NEW r \in Request, input' = input,
         \A q \in Request : q # r => pc'[q] = pc[q] /\ job'[q] = job[q],
         LogIsOpen' = LogIsOpen,
         LoggedRequests' \in {LoggedRequests, LoggedRequests \cup {r}},
         r \in LoggedRequests' => pc'[r] \in {"unlock", "done"},
         ~IsGet(r) /\ pc'[r] \notin {"log", "unlock", "done"} => job'[r].status = 0,
         LogIsOpen /\ ~IsGet(r) /\ pc'[r] \in {"unlock", "done"}
           /\ job'[r].status \notin {0, RES_FORBIDDEN} => r \in LoggedRequests'
  PROVE  Logging'
<1>1. \A q \in Request : IsGet(q)' = IsGet(q)
      BY DEF IsGet
<1>2. \A q \in Request : q # r => (q \in LoggedRequests' <=> q \in LoggedRequests)
      OBVIOUS
<1>3. \A q \in Request : q \in LoggedRequests' => pc'[q] \in {"unlock", "done"}
      BY <1>2 DEF Logging
<1>4. \A q \in Request :
        ~IsGet(q) /\ pc'[q] \notin {"log", "unlock", "done"} => job'[q].status = 0
      BY DEF Logging
<1>5. LogIsOpen =>
        \A q \in Request :
          /\ ~IsGet(q) /\ pc'[q] \in {"unlock", "done"}
          /\ job'[q].status \notin {0, RES_FORBIDDEN}
          => q \in LoggedRequests'
      BY <1>2 DEF Logging
<1> HIDE DEF LoggedRequests, LogIsOpen
<1> QED BY <1>1, <1>3, <1>4, <1>5 DEF Logging

LEMMA ShutLogging == Serving /\ Logging /\ [ShutNext]_shutVars => Logging'
<1> SUFFICES ASSUME Serving, Logging, [ShutNext]_shutVars PROVE Logging'
    OBVIOUS
<1>1. CASE UNCHANGED vars /\ (LogIsOpen' => LogIsOpen)
      BY <1>1 DEF vars, Logging, LoggedRequests, IsGet
<1>2. ASSUME NEW r \in Request, ServerStep(r) \/ ClientStep(r), LogIsOpen' = LogIsOpen
      PROVE  Logging'
  <2>1. /\ input' = input
        /\ \A q \in Request : q # r => pc'[q] = pc[q] /\ job'[q] = job[q]
        BY <1>2, OthersStay DEF Serving
  <2>2. CASE Log(r)
    <3>1. log' = Append(log, r) /\ log \in Seq(Request)
          BY <2>2 DEF Log, Serving, Typing, TypeOK
    <3>2. LoggedRequests' = LoggedRequests \cup {r}
          BY <3>1, LoggedAppend DEF LoggedRequests
    <3>3. pc'[r] = "unlock"
          BY <2>2 DEF Log, Goto, Serving, Typing, TypeOK
    <3> QED BY <1>2, <2>1, <3>2, <3>3, LoggingMoves
  <2>3. CASE ~Log(r)
    <3>1. /\ log' = log
          /\ pc[r] \in {"unlock", "done"} => pc'[r] = "done" /\ job' = job
          /\ ~IsGet(r) =>
              \/ job'[r].status = job[r].status /\ pc'[r] \notin {"log", "unlock", "done"}
                   /\ pc[r] \notin {"log", "unlock", "done"}
              \/ pc[r] # "log" /\ pc'[r] = "log"
              \/ pc[r] = "open" /\ pc'[r] = "unlock" /\ job'[r].status = RES_FORBIDDEN
              \/ pc[r] \in {"start", "unlock"} /\ pc'[r] = "done" /\ job' = job
          BY <1>2, <2>3, AnswerSteps DEF Serving
    <3>2. LoggedRequests' = LoggedRequests
          BY <3>1 DEF LoggedRequests
    <3>3. r \in LoggedRequests' => pc'[r] \in {"unlock", "done"}
          BY <3>1, <3>2 DEF Logging
    <3>4. ~IsGet(r) /\ pc'[r] \notin {"log", "unlock", "done"} => job'[r].status = 0
          BY <3>1 DEF Logging
    <3>5. LogIsOpen /\ ~IsGet(r) /\ pc'[r] \in {"unlock", "done"}
            /\ job'[r].status \notin {0, RES_FORBIDDEN} => r \in LoggedRequests'
          BY <3>1, <3>2 DEF Logging
    <3> QED BY <1>2, <2>1, <3>2, <3>3, <3>4, <3>5, LoggingMoves
  <2> QED BY <2>2, <2>3
<1>3. ASSUME NEW r \in Request, LogLost(r), ~LogIsOpen, LogIsOpen' = LogIsOpen PROVE Logging'
  <2>1. pc[r] = "log" /\ pc' = [pc EXCEPT ![r] = "unlock"] /\ UNCHANGED <<input, job, log>>
        BY <1>3 DEF LogLost, Goto
  <2>2. pc'[r] = "unlock" /\ \A q \in Request : q # r => pc'[q] = pc[q]
        BY <2>1 DEF Serving, Typing, TypeOK
  <2>3. LoggedRequests' = LoggedRequests
        BY <2>1 DEF LoggedRequests
  <2> QED BY <1>3, <2>1, <2>2, <2>3, LoggingMoves
<1> QED BY <1>1, <1>2, <1>3, ShutSteps

LEMMA InitLogging == ShutInit => Logging
BY DEF ShutInit, Init, Logging, LoggedRequests, IsGet

\* While the log is open a single upload has been answered and has no line, so that the
\* handler can cut off no more than that one.
THEOREM ShutdownUnlogsOne == ShutSpec => []AtMostOneUnlogged
<1> DEFINE I == Serving /\ Logging
<1>1. ShutInit => I
      BY InitServing, InitLogging DEF ShutInit
<1>2. I /\ [ShutNext]_shutVars => I'
      BY ShutServing, ShutLogging
<1>3. I => AtMostOneUnlogged
  <2> SUFFICES ASSUME Serving, Logging, LogIsOpen, NEW r \in Request, NEW q \in Request,
                 ~IsGet(r), job[r].status \notin {0, RES_FORBIDDEN}, r \notin LoggedRequests,
                 ~IsGet(q), job[q].status \notin {0, RES_FORBIDDEN}, q \notin LoggedRequests
               PROVE  r = q
      BY DEF AtMostOneUnlogged
  <2>1. pc[r] = "log" /\ pc[q] = "log"
        BY DEF Logging
  <2> QED BY <2>1, Alone DEF Serving
<1> QED BY <1>1, <1>2, <1>3, PTL DEF ShutSpec

-----------------------------------------------------------------------------
(* The log as a serial history.                                            *)

\* What the recv() loop keeps true of what it has stored.
Halfway(r) ==
  \/ job[r].stored = input[r].bodyVal
  \/ /\ input[r].bodyVal < input[r].contLen
     /\ job[r].stored >= input[r].bodyVal
     /\ job[r].stored < input[r].contLen + BUF_SIZE

\* The upload r on its way to the line that AtomicStore has for it.
SerialOf(r) ==
  /\ job[r].fileSize = 0 /\ job[r].sent = <<>>
  /\ pc[r] = "access" => input[r].op = "PUT"
  /\ input[r].op = "APPEND" => ~job[r].created
  /\ pc[r] = "open" /\ input[r].op = "PUT" => job[r].created = (files[FileOf(r)] = Absent)
  /\ Writing(r) => /\ FileOf(r) \notin Directory
                   /\ input[r].op = "PUT" =>
                        job[r].created = (committed[FileOf(r)] = Absent)
  /\ pc[r] = "recv" => Halfway(r)
  /\ pc[r] = "close" \/ (pc[r] = "log" /\ IsStored(r)) =>
       job[r].stored \in AtomicLog!Storable(input[r])
  /\ pc[r] = "log" =>
       \/ job[r].status = IF job[r].created THEN RES_CREATED ELSE RES_OK
       \/ /\ job[r].status = RES_NOT_FOUND
          /\ input[r].op = "APPEND" /\ files[FileOf(r)] = Absent
       \/ job[r].status = RES_INTERNAL_SE

Serial ==
  /\ \A r \in Request : ~IsGet(r) => SerialOf(r)
  /\ LogIsOpen => logged = committed

\* Another request's step leaves alone what an upload past its lock relies on.
LEMMA SerialOthers ==
  ASSUME Serving, NEW r \in Request, NEW q \in Request, q # r,
         ~IsGet(q), SerialOf(q),
         input' = input, pc'[q] = pc[q], job'[q] = job[q],
         files' = files \/ (~IsGet(r) /\ pc[r] \in {"open", "first", "recv"}),
         committed' = committed \/ (~IsGet(r) /\ pc[r] = "log")
  PROVE  SerialOf(q)'
<1>1. CASE pc[q] \in {"start", "done"}
      BY <1>1 DEF SerialOf, Writing, IsGet, FileOf, Halfway
<1>2. CASE pc[q] \notin {"start", "done"}
  <2>1. files' = files /\ committed' = committed
        BY <1>2, Alone DEF Serving
  <2> QED BY <2>1 DEF SerialOf, Writing, IsGet, FileOf, IsStored, Halfway, AtomicLog!Storable
<1> QED BY <1>1, <1>2

\* What has been stored when the loop ends is what AtomicStore lets be stored.
LEMMA LoopEnds ==
  ASSUME Typing, NEW r \in Request, Halfway(r),
         ~MoreToReceive(r) \/ job[r].stored = input[r].body
  PROVE  job[r].stored \in AtomicLog!Storable(input[r])
<1>1. /\ input[r].contLen \in Nat /\ input[r].body \in Nat /\ input[r].bodyVal \in Nat
      /\ input[r].bodyVal <= input[r].body
      BY InputFacts DEF Typing
<1>2. job[r].stored \in Nat /\ job[r].stored <= input[r].body
      BY DEF Typing, TypeOK
<1>3. BUF_SIZE \in Nat \ {0}
      BY FilesAssumption
<1> QED BY <1>1, <1>2, <1>3 DEF Halfway, MoreToReceive, AtomicLog!Storable

\* The step of an upload itself.
LEMMA SerialOwn ==
  ASSUME Serving, NEW r \in Request, ~IsGet(r), SerialOf(r),
         ServerStep(r) \/ ClientStep(r) \/ LogLost(r)
  PROVE  SerialOf(r)'
<1>1. /\ pc \in [Request -> GetPc \cup UploadPc] /\ job \in [Request -> Jobs]
      /\ pc[r] \in UploadPc
      /\ files \in [File -> {Absent} \cup Content]
      /\ committed \in [File -> {Absent} \cup Content]
      /\ FileOf(r) \in File
      /\ input[r].op \in {"PUT", "APPEND"}
      /\ job[r] \in Jobs
      BY InputFacts DEF Serving, Typing, TypeOK, Control, GetPc, UploadPc, Jobs, Codes, IsGet
<1>2. /\ RES_OK # RES_NOT_FOUND /\ RES_OK # RES_INTERNAL_SE
      /\ RES_CREATED # RES_NOT_FOUND /\ RES_CREATED # RES_INTERNAL_SE
      BY DEF RES_OK, RES_CREATED, RES_NOT_FOUND, RES_INTERNAL_SE
<1> USE DEF Goto
<1>3. CASE NothingToStore(r) \/ Unlock(r) \/ Log(r) \/ LogLost(r)
      BY <1>1, <1>3 DEF NothingToStore, Unlock, Log, LogLost, SerialOf, Writing, IsGet
<1>4. CASE LockWrite(r)
  <2>1. /\ pc[r] = "start" /\ pc'[r] = IF input[r].op = "PUT" THEN "access" ELSE "open"
        /\ input' = input /\ job' = job
        BY <1>1, <1>4 DEF LockWrite
  <2> QED BY <1>1, <2>1 DEF SerialOf, Writing
<1>5. CASE Access(r)
  <2>1. /\ pc[r] = "access" /\ pc'[r] = "open"
        /\ input' = input /\ files' = files
        /\ job'[r].created = (files[FileOf(r)] = Absent)
        /\ job'[r].fileSize = job[r].fileSize /\ job'[r].sent = job[r].sent
        BY <1>1, <1>5 DEF Access, Missing, Jobs
  <2>2. input[r].op = "PUT"
        BY <2>1 DEF SerialOf
  <2> QED BY <2>1, <2>2 DEF SerialOf, Writing, FileOf
<1>6. CASE UploadFails(r)
  <2>1. /\ input' = input /\ files' = files /\ committed' = committed
        /\ job'[r].created = job[r].created
        /\ job'[r].fileSize = job[r].fileSize /\ job'[r].sent = job[r].sent
        /\ \/ pc'[r] = "unlock"
           \/ /\ pc'[r] = "log" /\ job'[r].status = RES_NOT_FOUND
              /\ input[r].op = "APPEND" /\ files[FileOf(r)] = Absent
           \/ pc'[r] = "log" /\ job'[r].status = RES_INTERNAL_SE
        BY <1>1, <1>6 DEF UploadFails, OpenFails, Respond, Jobs
  <2>2. ~IsStored(r)' \/ pc'[r] = "unlock"
        BY <1>2, <2>1 DEF IsStored
  <2> QED BY <2>1, <2>2 DEF SerialOf, Writing, FileOf
<1>7. CASE UploadOpens(r)
  <2>1. /\ pc[r] = "open" /\ pc'[r] = "first"
        /\ input' = input /\ job' = job /\ committed' = committed
        /\ FileOf(r) \notin Directory
        BY <1>1, <1>7 DEF UploadOpens
  <2>2. \A q \in Request : ~Writing(q)
        BY <2>1, Alone DEF Serving, Writing
  <2>3. files[FileOf(r)] = committed[FileOf(r)]
        BY <1>1, <2>2 DEF Serving, Whole
  <2> QED BY <2>1, <2>3 DEF SerialOf, Writing, FileOf
<1>8. CASE WriteFirst(r)
  <2>1. /\ pc[r] = "first" /\ pc'[r] = "recv"
        /\ input' = input /\ committed' = committed
        /\ input[r].bodyVal \in Nat
        /\ Write(r, input[r].bodyVal)
        BY <1>1, <1>8, InputFacts DEF WriteFirst, FirstChunk, Serving, Typing
  <2>2. /\ job'[r].created = job[r].created
        /\ job'[r].fileSize = job[r].fileSize /\ job'[r].sent = job[r].sent
        /\ job'[r].stored = job[r].stored + input[r].bodyVal
        BY <1>1, <2>1 DEF Write, Jobs
  <2>3. job[r].stored = 0
        BY <2>1 DEF Serving, Typing, Control
  <2>4. Writing(r)
        BY <2>1 DEF Writing
  <2>5. job'[r].stored = input[r].bodyVal
        BY <2>1, <2>2, <2>3
  <2> QED BY <2>1, <2>2, <2>4, <2>5 DEF SerialOf, Writing, FileOf, Halfway
<1>9. CASE StoreChunk(r)
  <2>1. PICK n \in 1..BUF_SIZE : Write(r, n)
        BY <1>9 DEF StoreChunk
  <2>2. /\ pc[r] = "recv" /\ pc' = pc /\ job[r].stored < input[r].contLen
        /\ input' = input /\ committed' = committed
        BY <1>9 DEF StoreChunk, MoreToReceive
  <2>3. /\ job'[r].created = job[r].created
        /\ job'[r].fileSize = job[r].fileSize /\ job'[r].sent = job[r].sent
        /\ job'[r].stored = job[r].stored + n
        BY <1>1, <2>1 DEF Write, Jobs
  <2>4. /\ input[r].contLen \in Nat /\ input[r].bodyVal \in Nat /\ BUF_SIZE \in Nat
        /\ job[r].stored \in Nat /\ n \in Nat /\ n <= BUF_SIZE
        BY <1>1, InputFacts, FilesAssumption DEF Jobs, Serving, Typing
  <2>5. Halfway(r)
        BY <2>2 DEF SerialOf
  <2>6. /\ input[r].bodyVal < input[r].contLen
        /\ job[r].stored + n >= input[r].bodyVal
        /\ job[r].stored + n < input[r].contLen + BUF_SIZE
        BY <2>2, <2>4, <2>5 DEF Halfway
  <2>7. Halfway(r)'
        BY <2>2, <2>3, <2>6 DEF Halfway
  <2>8. Writing(r)
        BY <2>2 DEF Writing
  <2> QED BY <2>2, <2>3, <2>7, <2>8 DEF SerialOf, Writing, FileOf
<1>10. CASE BodyEnds(r) \/ BodyComplete(r)
  <2>1. /\ pc[r] = "recv" /\ pc'[r] = "close"
        /\ input' = input /\ job' = job /\ committed' = committed
        /\ ~MoreToReceive(r) \/ job[r].stored = input[r].body
        BY <1>1, <1>10 DEF BodyEnds, BodyComplete, AfterEnd
  <2>2. job[r].stored \in AtomicLog!Storable(input[r])
        BY <2>1, LoopEnds DEF Serving, SerialOf
  <2>3. (job[r].stored \in AtomicLog!Storable(input[r]))'
        BY <2>1, <2>2 DEF AtomicLog!Storable
  <2>4. Writing(r)
        BY <2>1 DEF Writing
  <2> QED BY <2>1, <2>3, <2>4 DEF SerialOf, Writing, FileOf
<1>11. CASE SendStored(r)
  <2>1. /\ pc[r] = "close" /\ pc'[r] = "log"
        /\ input' = input /\ committed' = committed
        /\ job'[r].created = job[r].created /\ job'[r].stored = job[r].stored
        /\ job'[r].fileSize = job[r].fileSize /\ job'[r].sent = job[r].sent
        /\ job'[r].status = IF job[r].created THEN RES_CREATED ELSE RES_OK
        BY <1>1, <1>11 DEF SendStored, Respond, Jobs
  <2>2. (job[r].stored \in AtomicLog!Storable(input[r]))'
        BY <2>1 DEF SerialOf, AtomicLog!Storable
  <2>3. Writing(r)
        BY <2>1 DEF Writing
  <2> QED BY <2>1, <2>2, <2>3 DEF SerialOf, Writing, FileOf
<1>12. ~(\/ LockRead(r) \/ GetFails(r) \/ GetOpens(r) \/ SendHeader(r)
         \/ SendChunk(r) \/ Spin(r) \/ GetReturns(r))
      BY <1>1 DEF LockRead, GetFails, OpenFails, GetOpens, SendHeader, SendChunk, Spin, GetReturns,
                  UploadPc
<1> QED BY <1>3, <1>4, <1>5, <1>6, <1>7, <1>8, <1>9, <1>10, <1>11, <1>12
        DEF ServerStep, ClientStep

LEMMA ShutSerial == Serving /\ Serial /\ [ShutNext]_shutVars => Serial'
<1> SUFFICES ASSUME Serving, Serial, [ShutNext]_shutVars PROVE Serial'
    OBVIOUS
<1>1. CASE UNCHANGED <<vars, logged>> /\ (LogIsOpen' => LogIsOpen)
  <2>1. \A r \in Request : IsGet(r)' = IsGet(r)
        BY <1>1 DEF vars, IsGet
  <2>2. ASSUME NEW r \in Request, SerialOf(r) PROVE SerialOf(r)'
    <3>1. Writing(r)' = Writing(r) /\ IsStored(r)' = IsStored(r) /\ FileOf(r)' = FileOf(r)
          BY <1>1 DEF vars, Writing, IsStored, IsGet, FileOf
    <3>2. Halfway(r)' = Halfway(r)
          BY <1>1 DEF vars, Halfway
    <3>3. AtomicLog!Storable(input[r])' = AtomicLog!Storable(input[r])
          BY <1>1 DEF vars, AtomicLog!Storable
    <3> QED BY <1>1, <2>2, <3>1, <3>2, <3>3 DEF vars, SerialOf
  <2>3. LogIsOpen' => logged' = committed'
        BY <1>1 DEF vars, Serial
  <2> QED BY <2>1, <2>2, <2>3 DEF Serial
<1>2. ASSUME NEW r \in Request,
             \/ ServerStep(r) \/ ClientStep(r)
             \/ LogLost(r),
             logged' = IF LogIsOpen THEN committed' ELSE logged,
             LogIsOpen' = LogIsOpen
      PROVE  Serial'
  <2>1. CASE ServerStep(r) \/ ClientStep(r)
    <3>1. /\ input' = input
          /\ \A q \in Request : q # r => pc'[q] = pc[q] /\ job'[q] = job[q]
          BY <2>1, OthersStay DEF Serving
    <3>2. files' = files \/ (~IsGet(r) /\ pc[r] \in {"open", "first", "recv"})
          BY <2>1, FilesStay DEF Serving
    <3>3. committed' = committed \/ (~IsGet(r) /\ pc[r] = "log")
      <4>1. CASE Log(r)
            BY <4>1 DEF Log, Goto, IsStored
      <4>2. CASE ~Log(r)
            BY <2>1, <4>2, AnswerSteps DEF Serving
      <4> QED BY <4>1, <4>2
    <3>4. \A q \in Request : IsGet(q)' = IsGet(q)
          BY <3>1 DEF IsGet
    <3>5. ASSUME NEW q \in Request, ~IsGet(q) PROVE SerialOf(q)'
      <4>1. CASE q = r
            BY <2>1, <3>5, <4>1, SerialOwn DEF Serial
      <4>2. CASE q # r
            BY <3>1, <3>2, <3>3, <3>5, <4>2, SerialOthers DEF Serial
      <4> QED BY <4>1, <4>2
    <3> QED BY <1>2, <3>4, <3>5 DEF Serial
  <2>2. CASE LogLost(r)
    <3>1. /\ pc[r] = "log" /\ pc' = [pc EXCEPT ![r] = "unlock"]
          /\ UNCHANGED <<input, files, job>>
          /\ committed' = committed \/ (~IsGet(r) /\ pc[r] = "log")
          BY <2>2 DEF LogLost, Goto, IsStored
    <3>2. \A q \in Request : q # r => pc'[q] = pc[q]
          BY <3>1 DEF Serving, Typing, TypeOK
    <3>3. \A q \in Request : IsGet(q)' = IsGet(q)
          BY <3>1 DEF IsGet
    <3>4. ASSUME NEW q \in Request, ~IsGet(q) PROVE SerialOf(q)'
      <4>1. CASE q = r
            BY <2>2, <3>4, <4>1, SerialOwn DEF Serial
      <4>2. CASE q # r
            BY <3>1, <3>2, <3>4, <4>2, SerialOthers DEF Serial
      <4> QED BY <4>1, <4>2
    <3> QED BY <1>2, <3>3, <3>4 DEF Serial
  <2> QED BY <1>2, <2>1, <2>2
<1> QED BY <1>1, <1>2, ShutSteps

LEMMA InitSerial == ShutInit => Serial
BY DEF ShutInit, Init, Serial, SerialOf, Writing, IsStored

\* What the log and the answers make of the history of AtomicStore.
Answered(r) ==
  [req |-> r, status |-> job[r].status, length |-> job[r].fileSize, body |-> job[r].sent]

History == [k \in 1..Len(log) |-> Answered(log[k])]

\* Nothing is answered anew in a step without a line in the log.
LEMMA HistoryStays ==
  ASSUME Serving, log' = log, \A q \in LoggedRequests : job'[q] = job[q]
  PROVE  History' = History
<1>1. \A k \in 1..Len(log) : job'[log[k]] = job[log[k]]
      BY DEF LoggedRequests
<1>2. \A k \in 1..Len(log) : Answered(log[k])' = Answered(log[k])
      BY <1>1 DEF Answered
<1> QED BY <1>2 DEF History

LEMMA HistoryGrows ==
  ASSUME Serving, NEW r \in Request, log' = Append(log, r), job' = job
  PROVE  History' = Append(History, Answered(r))
<1>1. log \in Seq(Request)
      BY DEF Serving, Typing, TypeOK
<1>2. Len(log) \in Nat /\ \A i \in 1..Len(log) : log[i] \in Request
      BY <1>1, LenProperties, ElementOfSeq
<1>3. /\ Len(log') = Len(log) + 1
      /\ \A i \in 1..Len(log) : log'[i] = log[i]
      /\ log'[Len(log) + 1] = r
      BY <1>1, AppendProperties
<1> DEFINE A == {Answered(q) : q \in Request}
           h == History
<1>4. h \in Seq(A) /\ Len(h) = Len(log) /\ \A k \in 1..Len(log) : h[k] = Answered(log[k])
      BY <1>2 DEF History
<1>5. Answered(r) \in A
      OBVIOUS
<1>6. History' = [k \in 1..(Len(log) + 1) |-> Answered(log'[k])]
      BY <1>3 DEF History, Answered
<1> HIDE DEF A, h
<1>7. /\ Append(h, Answered(r)) \in Seq(A)
      /\ Len(Append(h, Answered(r))) = Len(log) + 1
      /\ \A k \in 1..Len(log) : Append(h, Answered(r))[k] = Answered(log[k])
      /\ Append(h, Answered(r))[Len(log) + 1] = Answered(r)
      BY <1>4, <1>5, AppendProperties
<1> DEFINE g == [k \in 1..(Len(log) + 1) |-> Answered(log'[k])]
<1>8. /\ g \in Seq(A) /\ Len(g) = Len(log) + 1
      /\ \A k \in 1..(Len(log) + 1) : g[k] = Answered(log'[k])
  <2>1. \A k \in 1..(Len(log) + 1) : log'[k] \in Request
        BY <1>2, <1>3
  <2> QED BY <1>2, <2>1 DEF A
<1> HIDE DEF g
<1>9. \A k \in 1..(Len(log) + 1) : Append(h, Answered(r))[k] = g[k]
      BY <1>2, <1>3, <1>7, <1>8
<1>10. g = Append(h, Answered(r))
      BY <1>2, <1>7, <1>8, <1>9, SeqEqual
<1> QED BY <1>6, <1>10 DEF h, g

\* The line of an upload is a step of AtomicStore.
LEMMA LogServes ==
  ASSUME Serving, Logging, Serial, NEW r \in Request, ~IsGet(r), Log(r),
         LogIsOpen, logged' = committed'
  PROVE  AtomicLog!Serve(r, FileOf(r))
<1> DEFINE f == FileOf(r)
<1>1. /\ pc[r] = "log" /\ log' = Append(log, r) /\ job' = job /\ input' = input
      /\ committed' = IF IsStored(r) THEN [committed EXCEPT ![f] = files[f]] ELSE committed
      BY DEF Log, Goto
<1>2. /\ SerialOf(r) /\ logged = committed
      BY DEF Serial
<1>3. /\ input[r].op \in {"PUT", "APPEND"} /\ f \in File
      /\ files \in [File -> {Absent} \cup Content]
      /\ committed \in [File -> {Absent} \cup Content]
      /\ job[r].stored \in Nat
      BY InputFacts DEF Serving, Typing, TypeOK, IsGet
<1>4. \A k \in 1..Len(History) : History[k].req # r
  <2>1. r \notin LoggedRequests
        BY <1>1 DEF Logging
  <2>2. Len(log) \in Nat
        BY LenProperties DEF Serving, Typing, TypeOK
  <2>3. Len(History) = Len(log) /\ \A k \in 1..Len(log) : History[k].req = log[k]
        BY <2>2 DEF History, Answered
  <2> QED BY <2>1, <2>3 DEF LoggedRequests
<1>5. History' = Append(History, Answered(r))
      BY <1>1, HistoryGrows
<1>6. Answered(r) = [req |-> r, status |-> job[r].status, length |-> 0, body |-> <<>>]
      BY <1>2 DEF SerialOf, Answered
<1>7. \A code : job[r].status = code => AtomicLog!Answer(r, code, <<>>)
  <2>1. Len(<<>>) = 0
        OBVIOUS
  <2> QED BY <1>5, <1>6, <2>1 DEF AtomicLog!Answer, History, Answered
<1> HIDE DEF f
<1>8. AtomicLog!Put(r, f) \/ AtomicLog!AppendTo(r, f) \/ AtomicLog!NotFound(r, f)
        \/ AtomicLog!Fails(r)
  <2>1. CASE job[r].status = IF job[r].created THEN RES_CREATED ELSE RES_OK
    <3>1. IsStored(r) /\ Writing(r)
          BY <1>1, <2>1 DEF IsStored, Writing
    <3>2. /\ Base(r) \in Content /\ files[f] = Base(r) \o Units(r, 0, job[r].stored)
          BY <3>1 DEF Serving, Whole, f
    <3>3. /\ f \notin Directory
          /\ input[r].op = "PUT" => job[r].created = (committed[f] = Absent)
          /\ input[r].op = "APPEND" => ~job[r].created
          /\ job[r].stored \in AtomicLog!Storable(input[r])
          BY <1>1, <1>2, <3>1 DEF SerialOf, f
    <3>4. logged' = [logged EXCEPT ![f] = files[f]]
          BY <1>1, <1>2, <3>1
    <3>5. Units(r, 0, job[r].stored) \in AtomicLog!Received(r)
      <4>1. Units(r, 0, job[r].stored) = [i \in 1..job[r].stored |-> <<r, i>>]
            BY <1>3 DEF Units, Unit
      <4> QED BY <3>3, <4>1 DEF AtomicLog!Received
    <3>6. CASE input[r].op = "PUT"
      <4>1. files[f] = Units(r, 0, job[r].stored)
        <5>1. Units(r, 0, job[r].stored) \in Content
              BY <1>3, UnitsType, 0 \in Nat
        <5> QED BY <3>2, <3>6, <5>1, ConcatEmptySeq DEF Base, Content
      <4>2. job[r].status = IF logged[f] = Absent THEN 201 ELSE 200
            BY <1>2, <2>1, <3>3, <3>6 DEF RES_OK, RES_CREATED
      <4>3. AtomicLog!Answer(r, IF logged[f] = Absent THEN 201 ELSE 200, <<>>)
            BY <1>7, <4>2
      <4> QED BY <3>3, <3>4, <3>5, <3>6, <4>1, <4>3 DEF AtomicLog!Put
    <3>7. CASE input[r].op = "APPEND"
      <4>1. Base(r) = committed[f]
            BY <3>7 DEF Base, f
      <4>2. logged[f] # Absent
            BY <1>2, <3>2, <4>1, FilesAssumption
      <4>3. job[r].status = 200
            BY <2>1, <3>3, <3>7 DEF RES_OK
      <4>4. AtomicLog!Answer(r, 200, <<>>)
            BY <1>7, <4>3
      <4>5. files[f] = logged[f] \o Units(r, 0, job[r].stored)
            BY <1>2, <3>2, <4>1
      <4>6. logged' = [logged EXCEPT ![f] = logged[f] \o Units(r, 0, job[r].stored)]
            BY <3>4, <4>5
      <4> QED BY <3>3, <3>5, <3>7, <4>2, <4>4, <4>6 DEF AtomicLog!AppendTo
    <3> QED BY <1>3, <3>6, <3>7
  <2>2. CASE job[r].status \in {RES_NOT_FOUND, RES_INTERNAL_SE}
    <3>1. ~IsStored(r)
          BY <2>2 DEF IsStored, RES_OK, RES_CREATED, RES_NOT_FOUND, RES_INTERNAL_SE
    <3>2. logged' = logged
          BY <1>1, <1>2, <3>1
    <3>3. CASE job[r].status = RES_NOT_FOUND
      <4>1. input[r].op = "APPEND" /\ files[f] = Absent
            BY <1>1, <1>2, <3>3 DEF SerialOf, f, RES_OK, RES_CREATED, RES_NOT_FOUND,
                                    RES_INTERNAL_SE
      <4>2. files[f] = committed[f]
        <5>1. \A q \in Request : ~Writing(q)
          <6>1. ~Writing(r)
                BY <1>1, <3>1 DEF Writing
          <6> QED BY <1>1, <6>1, Alone DEF Serving, Writing
        <5> QED BY <1>3, <5>1 DEF Serving, Whole
      <4>3. AtomicLog!Answer(r, 404, <<>>)
            BY <1>7, <3>3 DEF RES_NOT_FOUND
      <4> QED BY <1>2, <3>2, <4>1, <4>2, <4>3 DEF AtomicLog!NotFound
    <3>4. CASE job[r].status = RES_INTERNAL_SE
      <4>1. AtomicLog!Answer(r, 500, <<>>)
            BY <1>7, <3>4 DEF RES_INTERNAL_SE
      <4> QED BY <3>2, <4>1 DEF AtomicLog!Fails
    <3> QED BY <2>2, <3>3, <3>4
  <2> QED BY <1>1, <1>2, <2>1, <2>2 DEF SerialOf
<1> QED BY <1>1, <1>4, <1>8 DEF AtomicLog!Serve, History, Answered, f

\* Every step of the server is one of AtomicStore or none.
LEMMA ShutRefines ==
  ASSUME Serving, Logging, Serial, [ShutNext]_shutVars, \A r \in Request : ~IsGet(r)
  PROVE  [AtomicLog!Next]_(AtomicLog!vars)
<1>1. ASSUME input' = input, logged' = logged, History' = History
      PROVE  UNCHANGED AtomicLog!vars
      BY <1>1 DEF AtomicLog!vars, History, Answered
<1>2. CASE UNCHANGED <<vars, logged>> /\ (LogIsOpen' => LogIsOpen)
      BY <1>1, <1>2, HistoryStays DEF vars
<1>3. ASSUME NEW r \in Request, ServerStep(r) \/ ClientStep(r), LogIsOpen \/ pc[r] # "log",
             logged' = IF LogIsOpen THEN committed' ELSE logged
      PROVE  [AtomicLog!Next]_(AtomicLog!vars)
  <2>1. CASE Log(r)
    <3>1. LogIsOpen
          BY <1>3, <2>1 DEF Log, Goto
    <3>2. AtomicLog!Serve(r, FileOf(r))
          BY <1>3, <2>1, <3>1, LogServes
    <3>3. r \in DOMAIN input
          BY DEF Serving, Typing, TypeOK
    <3> QED BY <3>2, <3>3 DEF AtomicLog!Next, FileOf
  <2>2. CASE ~Log(r)
    <3>1. /\ log' = log /\ committed' = committed
          /\ pc[r] \in {"unlock", "done"} => job' = job
          /\ input' = input
          /\ \A q \in Request : q # r => job'[q] = job[q]
          BY <1>3, <2>2, AnswerSteps, OthersStay DEF Serving
    <3>2. LoggedRequests \subseteq Request
          BY LoggedAppend DEF Serving, Typing, TypeOK
    <3>3. \A q \in LoggedRequests : job'[q] = job[q]
          BY <3>1, <3>2 DEF Logging
    <3>4. History' = History
          BY <3>1, <3>3, HistoryStays
    <3>5. logged' = logged
          BY <1>3, <3>1 DEF Serial
    <3> QED BY <1>1, <3>1, <3>4, <3>5
  <2> QED BY <2>1, <2>2
<1>4. ASSUME NEW r \in Request, LogLost(r), ~LogIsOpen,
             logged' = IF LogIsOpen THEN committed' ELSE logged
      PROVE  UNCHANGED AtomicLog!vars
  <2>1. UNCHANGED <<input, job, log>> /\ logged' = logged
        BY <1>4 DEF LogLost
  <2> QED BY <1>1, <2>1, HistoryStays
<1> QED BY <1>2, <1>3, <1>4, ShutSteps

\* Up to the moment in which the signal handler closes it the log is a serial history of
\* the uploads, for any number of them: each line is a step of AtomicStore, with the
\* answer that was sent and the file that was left.  It is so for uploads among
\* themselves, for a GET holds another lock.
THEOREM ShutdownLogIsSerial ==
  ASSUME \A in \in Input : in.op # "GET"
  PROVE  ShutSpec => SerialLog
<1> DEFINE I == /\ Serving /\ Logging /\ Serial
                /\ \A r \in Request : ~IsGet(r)
<1>1. ShutInit => I
  <2>1. ShutInit => \A r \in Request : ~IsGet(r)
        BY DEF ShutInit, Init, IsGet
  <2> QED BY <2>1, InitServing, InitLogging, InitSerial DEF ShutInit
<1>2. I /\ [ShutNext]_shutVars => I'
  <2>1. Serving' => \A r \in Request : ~IsGet(r)'
        BY DEF Serving, Typing, TypeOK, IsGet
  <2> QED BY <2>1, ShutServing, ShutLogging, ShutSerial DEF IsGet
<1>3. ShutInit => AtomicLog!Init
      BY DEF ShutInit, Init, AtomicLog!Init
<1>4. I /\ [ShutNext]_shutVars => [AtomicLog!Next]_(AtomicLog!vars)
      BY ShutRefines
<1> HIDE DEF I
<1> QED BY <1>1, <1>2, <1>3, <1>4, PTL DEF ShutSpec, SerialLog, AtomicLog!Spec
=============================================================================
