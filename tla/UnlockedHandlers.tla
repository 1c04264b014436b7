-------------------------- MODULE UnlockedHandlers --------------------------
(***************************************************************************)
(* The handlers of asgn3 beside those of asgn4: the same system calls in    *)
(* the same order, without readLock and writeLock.  What GETs and uploads   *)
(* that overlap promise in each.                                            *)
(***************************************************************************)
EXTENDS FileHandlers

VARIABLES
  locked,          \* is this asgn4?
  stalls           \* the requests whose clients may stop to send or to read for ever

allVars == <<vars, locked, stalls>>

-----------------------------------------------------------------------------
(* asgn3.                                                                  *)

\* handle_connection goes on to the processing function at once.
CallProcess(r) ==
  /\ IsGet(r) \/ input[r].contLen > 0 \/ input[r].bodyVal > 0
  /\ Goto(r, "start", IF input[r].op = "PUT" THEN "access" ELSE "open")
  /\ UNCHANGED <<input, readLock, writeLock, files, job, log, committed>>

processGet(r) ==
  GetFails(r) \/ GetOpens(r) \/ Spin(r) \/ GetReturns(r)

\* The calls before the body's first chunk, and the loop that receives the rest.
OpenUpload(r) == Access(r) \/ UploadFails(r) \/ UploadOpens(r)
StoreBody(r) == WriteFirst(r) \/ BodyComplete(r)

processPutFile(r) == input[r].op = "PUT" /\ (OpenUpload(r) \/ StoreBody(r))
processAppendFile(r) == input[r].op = "APPEND" /\ (OpenUpload(r) \/ StoreBody(r))

\* The answer and the line in the log, and the return of handle_connection.
Conclude(r) == SendStored(r) \/ Log(r)

Return(r) ==
  /\ Goto(r, "unlock", "done")
  /\ UNCHANGED <<input, readLock, writeLock, files, job, log, committed>>

UnlockedStep(r) ==
  \/ NothingToStore(r) \/ CallProcess(r)
  \/ processGet(r) \/ processPutFile(r) \/ processAppendFile(r)
  \/ Conclude(r) \/ Return(r)

-----------------------------------------------------------------------------
Step(r) ==
  /\ \/ locked /\ ServerStep(r)
     \/ ~locked /\ UnlockedStep(r)
  /\ UNCHANGED <<locked, stalls>>

\* A send() or recv() with the client at the other end.
WithClient(r) == ClientStep(r) /\ UNCHANGED <<locked, stalls>>

\* Where the run ends; a GET may be in its endless loop.
AllDone == Finished /\ UNCHANGED <<locked, stalls>>

Start == Init /\ locked \in BOOLEAN /\ stalls \in SUBSET Request

Steps == AllDone \/ \E r \in Request : Step(r) \/ WithClient(r)

\* Workers run, and the clients that do not stall go on.
FairHandlers ==
  /\ Start /\ [][Steps]_allVars
  /\ \A r \in Request : WF_allVars(Step(r))
  /\ \A r \in Request : WF_allVars(r \notin stalls /\ WithClient(r))

-----------------------------------------------------------------------------
(* Properties.                                                             *)

Hole == Unit(Disk, 0)
Only(op, f) == \A r \in Request : FileOf(r) = f /\ ~IsGet(r) => input[r].op = op

\* A GET of a file that is only appended to is sound although no lock keeps the APPENDs
\* out: it sends a prefix of the file, never less than the Content-Length of its
\* header, and the file only grows.
GetSendsPrefix ==
  \A r \in Request :
    IsGet(r) /\ job[r].status = RES_OK /\ Only("APPEND", FileOf(r)) =>
      /\ job[r].fileSize <= Len(files[FileOf(r)])
      /\ job[r].sent = SubSeq(files[FileOf(r)], 1, totalGotten(r))
      /\ pc[r] \in {"log", "unlock", "done"} => totalGotten(r) >= job[r].fileSize

\* In a file that is only PUT, and in what a GET sends of it, units of several uploads
\* may mix but each is at its own place: none is skipped, repeated or moved.  Where
\* PUTs truncate each other's file, in asgn3, there may be a hole in place of a unit.
UnitsInPlace ==
  \A f \in File : Only("PUT", f) =>
    LET InPlace(s) == \A i \in 1..Len(s) : s[i][2] = i \/ (~locked /\ s[i] = Hole)
    IN /\ files[f] # Absent => InPlace(files[f])
       /\ \A r \in Request : FileOf(r) = f => InPlace(job[r].sent)

\* APPENDs of the same file may mix, in asgn3, but none loses a unit or its order,
\* since O_APPEND moves to the end in the step that writes.
AppendsKept ==
  \A r \in Request :
    input[r].op = "APPEND" /\ Only("APPEND", FileOf(r)) /\ job[r].stored > 0 =>
      LET c == files[FileOf(r)]
          Own == {i \in 1..Len(c) : c[i][1] = r}
      IN /\ {c[i] : i \in Own} = {Unit(r, n) : n \in 1..job[r].stored}
         /\ \A i, j \in Own : i < j => c[i][2] < c[j][2]

\* A GET whose own client reads ends, with or without locks and even when all other
\* clients stall for ever, unless it is cut: a PUT leaves the file shorter than the
\* header has announced, or an APPEND makes it long enough for the count of what was
\* sent, an int, to overflow.
Cut(r) ==
  /\ pc[r] = "read"
  /\ \/ Len(files[FileOf(r)]) < job[r].fileSize
     \/ totalGotten(r) > INT_MAX

GetsEndUnlessCut ==
  \A r \in Request : IsGet(r) /\ r \notin stalls =>
    <>(pc[r] = "done") \/ <>[]Cut(r)

\* An upload whose own client goes on ends in asgn3, whoever else stalls; in asgn4 it
\* needs the clients of all uploads to go on, for it may have to wait for writeLock, but
\* not those of GETs.
UploadsEndIfSent ==
  \A r \in Request :
    ~IsGet(r) /\ (IF locked THEN \A q \in stalls : IsGet(q) ELSE r \notin stalls)
      ~> pc[r] = "done"
=============================================================================
