---------------------------- MODULE FileHandlers ----------------------------
(***************************************************************************)
(* What a worker does with a parsed request (asgn4/httpserver.c, the end of *)
(* handle_connection with processGet, processPutFile, processAppendFile),   *)
(* and how requests that are handled at the same time meet in the files and *)
(* in the log.  GETs hold readLock for reading, PUTs and APPENDs writeLock  *)
(* for writing: two locks, so that only uploads exclude one another.        *)
(*                                                                         *)
(* A step is one system call and the local computation around it.  Every    *)
(* request has a worker of its own.                                         *)
(***************************************************************************)
EXTENDS Integers, Sequences

CONSTANTS
  Request,         \* the requests, one per connection
  Nobody,          \* the owner of a free lock
  File,            \* the paths
  Denied,          \* the files on which open() fails with EACCES
  Directory,       \* the paths that are directories
  Absent,          \* the content of a path that does not exist
  Disk,            \* the sender of the units stored before the server starts
  InitialSize,     \* how many units a file has that exists from the start
  INT_MAX,
  BUF_SIZE,        \* how many units one read() or recv() returns at most
  Input            \* the requests that clients may send, see InputType

InputType == [op : {"GET", "PUT", "APPEND"}, file : File,
              contLen : Nat,  \* Content-Length
              body : Nat,     \* units of the body that the client sends
              bodyVal : Nat]  \* those that came with the header

\* A unit is known by its sender and its place in the sender's body.
Content == Seq((Request \cup {Disk}) \X Nat)

ASSUME FilesAssumption ==
  /\ Nobody \notin Request /\ Disk \notin Request
  /\ Absent \notin Content
  /\ Denied \subseteq File /\ Directory \subseteq File
  /\ Denied \cap Directory = {}
  /\ InitialSize \in Nat /\ INT_MAX \in Nat /\ BUF_SIZE \in Nat \ {0}
  /\ Input \subseteq {in \in InputType : /\ in.bodyVal <= in.body
                                         /\ in.op = "GET" => in.file \notin Directory}

VARIABLES
  input,           \* what each request asks for
  pc,              \* where the worker of each request is
  readLock,        \* the requests that hold it; nobody ever locks it for writing
  writeLock,       \* the request that holds it for writing
  files,           \* the content of each file
  job,             \* the local variables of each worker and what it has sent
  log,             \* the requests in the order of their lines in the log
  committed        \* history: the files as the logged uploads left them

vars == <<input, pc, readLock, writeLock, files, job, log, committed>>

RES_OK == 200
RES_CREATED == 201
RES_FORBIDDEN == 403
RES_NOT_FOUND == 404
RES_INTERNAL_SE == 500

IsGet(r) == input[r].op = "GET"
FileOf(r) == input[r].file

Unit(r, i) == <<r, i>>
Units(r, from, n) == [i \in 1..n |-> Unit(r, from + i)]

Goto(r, from, to) ==
  /\ pc[r] = from
  /\ pc' = [pc EXCEPT ![r] = to]

\* An answer without a body; returnCode takes its status.
Respond(r, code) == job' = [job EXCEPT ![r].status = code]

-----------------------------------------------------------------------------
(* GET                                                                     *)

\* open() of a path that is not denied may fail for another reason: no descriptor is
\* left, the directory of a new file is missing.
OpenFails(r) ==
  /\ FileOf(r) \notin Denied
  /\ Respond(r, RES_INTERNAL_SE) /\ Goto(r, "open", "log")

LockRead(r) ==
  /\ IsGet(r)
  /\ Goto(r, "start", "open")
  /\ readLock' = readLock \cup {r}
  /\ UNCHANGED <<input, writeLock, files, job, log, committed>>

GetFails(r) ==
  /\ IsGet(r)
  /\ \/ FileOf(r) \in Denied /\ Respond(r, RES_FORBIDDEN) /\ Goto(r, "open", "unlock")
     \/ files[FileOf(r)] = Absent /\ Respond(r, RES_NOT_FOUND) /\ Goto(r, "open", "log")
     \/ OpenFails(r)
  /\ UNCHANGED <<input, readLock, writeLock, files, log, committed>>

GetOpens(r) ==
  /\ IsGet(r)
  /\ FileOf(r) \notin Denied /\ files[FileOf(r)] # Absent
  /\ Goto(r, "open", "stat")
  /\ UNCHANGED <<input, readLock, writeLock, files, job, log, committed>>

\* What an int has of a size or of a count.
ToInt(n) ==
  LET low == n % (2 * (INT_MAX + 1))
  IN IF low <= INT_MAX THEN low ELSE low - 2 * (INT_MAX + 1)

\* fstat(), and the header with the size it gave, cut to an int.  Like SendChunk, it
\* stands for the call that looks at the file; the client may then never read what is
\* sent, which is a behaviour in which this step is not taken.
SendHeader(r) ==
  /\ Goto(r, "stat", "read")
  /\ job' = [job EXCEPT ![r].fileSize = ToInt(Len(files[FileOf(r)])), ![r].status = RES_OK]
  /\ UNCHANGED <<input, readLock, writeLock, files, log, committed>>

\* The descriptor's offset, which the int totalGotten of the code counts.
totalGotten(r) == Len(job[r].sent)

\* Mutant: "<=" in the condition of the loop.
MoreToReadMutant(r) == ToInt(totalGotten(r)) <= job[r].fileSize

MoreToRead(r) == ToInt(totalGotten(r)) < job[r].fileSize

\* Mutant: the offset is one too far after the first read().
ChunkMutant(r) ==
  LET c == files[FileOf(r)]
      from == IF totalGotten(r) = 0 THEN 0 ELSE totalGotten(r) + 1
  IN SubSeq(c, from + 1, IF from + BUF_SIZE < Len(c) THEN from + BUF_SIZE ELSE Len(c))

\* What read() returns at the descriptor's offset, which is totalGotten.
Chunk(r) ==
  LET c == files[FileOf(r)]
      from == totalGotten(r)
  IN SubSeq(c, from + 1, IF from + BUF_SIZE < Len(c) THEN from + BUF_SIZE ELSE Len(c))

\* read() of a chunk, and send() to a client that reads it.
SendChunk(r) ==
  /\ pc[r] = "read"
  /\ MoreToRead(r) /\ Chunk(r) # <<>>
  /\ job' = [job EXCEPT ![r].sent = @ \o Chunk(r)]
  /\ UNCHANGED <<input, pc, readLock, writeLock, files, log, committed>>

\* read() returns 0 at the end of a file that is shorter than it was: the loop has
\* no way out, for totalGotten does not grow.
Spin(r) ==
  /\ pc[r] = "read"
  /\ MoreToRead(r) /\ Chunk(r) = <<>>
  /\ UNCHANGED vars

GetReturns(r) ==
  /\ ~MoreToRead(r)
  /\ Goto(r, "read", "log")
  /\ UNCHANGED <<input, readLock, writeLock, files, job, log, committed>>

-----------------------------------------------------------------------------
(* PUT and APPEND                                                          *)

\* Neither branch of the code is taken: no lock, no answer, no line in the log.
NothingToStore(r) ==
  /\ ~IsGet(r)
  /\ input[r].contLen = 0 /\ input[r].bodyVal = 0
  /\ Goto(r, "start", "done")
  /\ UNCHANGED <<input, readLock, writeLock, files, job, log, committed>>

\* Mutant: no lock is taken, as in asgn3.
MayWriteMutant == TRUE

MayWrite == writeLock = Nobody

LockWrite(r) ==
  /\ ~IsGet(r)
  /\ input[r].contLen > 0 \/ input[r].bodyVal > 0
  /\ MayWrite
  /\ Goto(r, "start", IF input[r].op = "PUT" THEN "access" ELSE "open")
  /\ writeLock' = r
  /\ UNCHANGED <<input, readLock, files, job, log, committed>>

\* Mutant: the file counts as new when it is empty.
MissingMutant(c) == c \in {Absent, <<>>}

Missing(c) == c = Absent

\* access(filePath, F_OK)
Access(r) ==
  /\ Goto(r, "access", "open")
  /\ job' = [job EXCEPT ![r].created = Missing(files[FileOf(r)])]
  /\ UNCHANGED <<input, readLock, writeLock, files, log, committed>>

\* open() fails, of a directory always.
UploadFails(r) ==
  /\ ~IsGet(r)
  /\ \/ FileOf(r) \in Denied /\ Respond(r, RES_FORBIDDEN) /\ Goto(r, "open", "unlock")
     \/ OpenFails(r)
     \/ /\ input[r].op = "APPEND" /\ files[FileOf(r)] = Absent
        /\ Respond(r, RES_NOT_FOUND) /\ Goto(r, "open", "log")
  /\ UNCHANGED <<input, readLock, writeLock, files, log, committed>>

\* Mutant: open() without O_TRUNC.
TruncatedMutant(c) == IF c = Absent THEN <<>> ELSE c

\* What O_CREAT | O_TRUNC leaves of a file.
Truncated(c) == <<>>

UploadOpens(r) ==
  /\ ~IsGet(r)
  /\ FileOf(r) \notin Denied \cup Directory
  /\ \/ /\ input[r].op = "PUT"
        /\ files' = [files EXCEPT ![FileOf(r)] = Truncated(@)]
     \/ /\ input[r].op = "APPEND" /\ files[FileOf(r)] # Absent
        /\ UNCHANGED files
  /\ Goto(r, "open", "first")
  /\ UNCHANGED <<input, readLock, writeLock, job, log, committed>>

\* Mutant: APPEND without O_APPEND.
OffsetMutant(r) == job[r].stored

\* Where write() writes: the descriptor's offset, or the end with O_APPEND.
Offset(r) == IF input[r].op = "PUT" THEN job[r].stored ELSE Len(files[FileOf(r)])

\* write() of s at offset o of content c; a gap before o would read as zeros.
Overwrite(c, o, s) ==
  [i \in 1..(IF o + Len(s) > Len(c) THEN o + Len(s) ELSE Len(c)) |->
     IF i > o /\ i <= o + Len(s) THEN s[i - o]
     ELSE IF i <= Len(c) THEN c[i] ELSE Unit(Disk, 0)]

Write(r, n) ==
  /\ files' = [files EXCEPT ![FileOf(r)] =
                 Overwrite(@, Offset(r), Units(r, job[r].stored, n))]
  /\ job' = [job EXCEPT ![r].stored = @ + n]

\* Mutant: Content-Length bytes are taken from the buffer, received or not.
FirstChunkMutant(r) == input[r].contLen

\* The part of the body that came with the header, more than Content-Length or not.
FirstChunk(r) == input[r].bodyVal

WriteFirst(r) ==
  /\ Goto(r, "first", "recv")
  /\ Write(r, FirstChunk(r))
  /\ UNCHANGED <<input, readLock, writeLock, log, committed>>

MoreToReceive(r) == job[r].stored < input[r].contLen

\* recv() returns what has arrived, at least one unit, and write() stores it.
StoreChunk(r) ==
  /\ pc[r] = "recv" /\ MoreToReceive(r)
  /\ \E n \in 1..BUF_SIZE :
       /\ job[r].stored + n <= input[r].body
       /\ Write(r, n)
  /\ UNCHANGED <<input, pc, readLock, writeLock, log, committed>>

\* Mutant: no "break" when recv() returns 0.
AfterEndMutant == "recv"

AfterEnd == "close"

\* recv() returns 0: the client has sent less than it announced and has closed.
BodyEnds(r) ==
  /\ MoreToReceive(r) /\ job[r].stored = input[r].body
  /\ Goto(r, "recv", AfterEnd)
  /\ UNCHANGED <<input, readLock, writeLock, files, job, log, committed>>

BodyComplete(r) ==
  /\ ~MoreToReceive(r)
  /\ Goto(r, "recv", "close")
  /\ UNCHANGED <<input, readLock, writeLock, files, job, log, committed>>

\* close() of the file, and the answer.
SendStored(r) ==
  /\ Goto(r, "close", "log")
  /\ Respond(r, IF job[r].created THEN RES_CREATED ELSE RES_OK)
  /\ UNCHANGED <<input, readLock, writeLock, files, log, committed>>

-----------------------------------------------------------------------------
IsStored(r) == ~IsGet(r) /\ job[r].status \in {RES_OK, RES_CREATED}

\* LOG and fflush, for all answers but 403.
Log(r) ==
  /\ Goto(r, "log", "unlock")
  /\ log' = Append(log, r)
  /\ committed' = IF IsStored(r)
                  THEN [committed EXCEPT ![FileOf(r)] = files[FileOf(r)]]
                  ELSE committed
  /\ UNCHANGED <<input, readLock, writeLock, files, job>>

Unlock(r) ==
  /\ Goto(r, "unlock", "done")
  /\ IF IsGet(r)
     THEN readLock' = readLock \ {r} /\ UNCHANGED writeLock
     ELSE writeLock' = Nobody /\ UNCHANGED readLock
  /\ UNCHANGED <<input, files, job, log, committed>>

Init ==
  /\ input \in [Request -> Input]
  /\ pc = [r \in Request |-> "start"]
  /\ readLock = {}
  /\ writeLock = Nobody
  /\ \E present \in SUBSET File :
       /\ Denied \cup Directory \subseteq present
       /\ files = [f \in File |-> IF f \in present THEN Units(Disk, 0, InitialSize)
                                  ELSE Absent]
  /\ job = [r \in Request |-> [created |-> FALSE, fileSize |-> 0, stored |-> 0,
                               status |-> 0, sent |-> <<>>]]
  /\ log = <<>>
  /\ committed = files

ServerStep(r) ==
  \/ LockRead(r) \/ GetFails(r) \/ GetOpens(r) \/ Spin(r) \/ GetReturns(r)
  \/ NothingToStore(r) \/ LockWrite(r) \/ Access(r) \/ UploadFails(r)
  \/ UploadOpens(r) \/ WriteFirst(r) \/ BodyComplete(r) \/ SendStored(r)
  \/ Log(r) \/ Unlock(r)

\* Steps that wait for the client: until it reads what is sent, for its bytes, or for
\* the end of them.  An answer without a body fits in the socket's buffer.
ClientStep(r) == SendHeader(r) \/ SendChunk(r) \/ StoreChunk(r) \/ BodyEnds(r)

Finished == (\A r \in Request : pc[r] = "done") /\ UNCHANGED vars

Next ==
  \/ \E r \in Request : ServerStep(r) \/ ClientStep(r)
  \/ Finished

Spec == Init /\ [][Next]_vars

\* Workers that can run do run.  Weak fairness is enough for writeLock: each
\* request takes it once, so that in the end nobody is ahead of who waits.
ServerFairness == \A r \in Request : WF_vars(ServerStep(r))

\* Clients go on reading and sending, and close their side in the end.
ClientFairness == \A r \in Request : WF_vars(ClientStep(r))

FairSpec == Spec /\ ServerFairness /\ ClientFairness

-----------------------------------------------------------------------------
(* Properties.                                                             *)

\* Every variable has its type, and no unit is stored that was not received.
TypeOK ==
  /\ input \in [Request -> Input]
  /\ pc \in [Request -> {"start", "open", "stat", "read", "access", "first", "recv",
                         "close", "log", "unlock", "done"}]
  /\ readLock \subseteq Request
  /\ writeLock \in Request \cup {Nobody}
  /\ files \in [File -> {Absent} \cup Content]
  /\ job \in [Request ->
       [created : BOOLEAN, fileSize : Int, stored : Nat,
        status : {0, RES_OK, RES_CREATED, RES_FORBIDDEN, RES_NOT_FOUND, RES_INTERNAL_SE},
        sent : Content]]
  /\ \A r \in Request : job[r].stored <= input[r].body
  /\ log \in Seq(Request)
  /\ committed \in [File -> {Absent} \cup Content]

\* The uploads that have opened their file and are not in the log yet.
Uploading(f) ==
  {r \in Request : /\ ~IsGet(r) /\ FileOf(r) = f
                   /\ \/ pc[r] \in {"first", "recv", "close"}
                      \/ pc[r] = "log" /\ IsStored(r)}

\* No upload is torn or mixed with another: a file is what the logged uploads left,
\* but for one upload in progress, of which it has what was stored so far, after
\* nothing (PUT) or after all of the old content (APPEND).
NoTornUpload ==
  \A f \in File :
    \/ Uploading(f) = {} /\ files[f] = committed[f]
    \/ \E r \in Uploading(f) :
         /\ Uploading(f) = {r}
         /\ files[f] = (IF input[r].op = "PUT" THEN <<>> ELSE committed[f])
                         \o Units(r, 0, job[r].stored)

\* Of all the requests that find a path missing, one is told that it created it.
OneCreator ==
  \A r, q \in Request :
    /\ job[r].status = RES_CREATED /\ job[q].status = RES_CREATED
    /\ FileOf(r) = FileOf(q)
    => r = q

\* Every GET ends, whatever the uploads that overlap it do to its file.
GetsEnd == \A r \in Request : IsGet(r) => <>(pc[r] = "done")
=============================================================================
