-------------------------- MODULE SequentialServer --------------------------
(***************************************************************************)
(* The servers of asgn1 and asgn2: one process, one connection at a time.   *)
(* asgn2 adds a log, clears its receive buffer for each connection, and     *)
(* answers a refused PUT once.  In both a request is parsed from what a      *)
(* single recv() returned, written over what the buffer had.                *)
(*                                                                         *)
(* A step is one system call of the server, or one function whose calls     *)
(* nobody can interfere with.  A signal may end the process between any     *)
(* two, and it may be started again.  Names ending in 1 or 2 are those in    *)
(* which the two servers differ.                                            *)
(***************************************************************************)
EXTENDS RequestSyntax

CONSTANTS
  Asgn,            \* the servers of the instance, a subset of {1, 2}
  Client,          \* the connections
  Nobody,          \* no connection
  File, Denied, Directory,   \* the paths, those that open() refuses, directories
  Absent,          \* the content of a path that does not exist
  Request,         \* what clients may ask for, see RequestType
  Mixed,           \* what new bytes and the old ones behind them may read as together
  MAXLENGTH,       \* the size of the receive buffer, in parts
  BUF_SIZE,        \* how much of a body one recv() returns at most
  MaxRestarts      \* bound: how often the server is started again

\* What a client sends, the path in its first line, whether it keeps its side of the
\* connection open until it is answered, and whether it reads what it is sent.
RequestType == [parts : Seq(Part), file : File, patient : BOOLEAN, reads : BOOLEAN]

ASSUME ServerAssumption ==
  /\ Asgn \subseteq {1, 2}
  /\ Nobody \notin Client
  /\ Denied \subseteq File /\ Directory \subseteq File /\ Denied \cap Directory = {}
  /\ Request \subseteq RequestType /\ Mixed \subseteq Part
  /\ MAXLENGTH \in Nat \ {0} /\ BUF_SIZE \in Nat \ {0} /\ MaxRestarts \in Nat

VARIABLES
  asgn,            \* which server runs
  request,         \* what each client sends
  waiting,         \* the clients that have not been accepted yet
  pc, conn,        \* where the server is, and its connection
  got,             \* how many of that client's parts it has received
  reqString,       \* the receive buffer
  job,             \* the local variables, from the parsed request on
  files,           \* the content of each path
  answers,         \* the codes sent to each client
  log,             \* the lines of the log
  served,          \* history: the connections accepted since the start
  intact,          \* history: no recv() or write() failed for this connection
  again,           \* history: what was parsed last is not what this connection began with
  restarts         \* how often the server was started again

vars == <<asgn, request, waiting, pc, conn, got, reqString, job, files, answers, log,
          served, intact, again, restarts>>

RES_OK == 200
RES_CREATED == 201
RES_FORBIDDEN == 403
RES_NOT_FOUND == 404
RES_INTERNAL_SE == 500

parts == request[conn].parts
file == job.file

Goto(from, to) == pc = from /\ pc' = to
Answer(codes) == answers' = [answers EXCEPT ![conn] = @ \o codes]

-----------------------------------------------------------------------------
(* A connection and the parsing of its request.                            *)

\* The buffer is not initialized: it has what the connection before left there.
NewBuffer1 == reqString

\* Mutant: the buffer is not cleared, as in asgn1.
NewBuffer2Mutant == reqString

NewBuffer2 == <<>>

\* A failed accept() is tried again.
Accept ==
  /\ Goto("accept", "recv")
  /\ \E c \in waiting :
       /\ conn' = c
       /\ waiting' = waiting \ {c}
       /\ served' = Append(served, c)
  /\ reqString' = IF asgn = 1 THEN NewBuffer1 ELSE NewBuffer2
  /\ UNCHANGED <<asgn, request, got, job, files, answers, log, intact, again, restarts>>

\* A part of which only the beginning has come: no line, a shorter number, or
\* something that no search finds.
Torn(p) ==
  CASE p.kind = "line" -> Line("bad")
    [] p.kind = "id" -> RequestId(p.value \div 2, p.glued)
    [] p.kind \in {"length", "header", "blank"} -> Header
    [] OTHER -> p

\* What may stand at the beginning of the buffer after a recv() of the parts next: they,
\* or all but the end of the last, which old bytes behind it may turn into another.
Received(next, old) ==
  LET cut(p) == [next EXCEPT ![Len(next)] = p]
  IN {next, cut(Torn(next[Len(next)]))}
       \cup (IF old = <<>> THEN {} ELSE {cut(p) : p \in Mixed})

\* Where the segment ends within the old request line: a line that is made of both.
OverOldLine(next, old) ==
  IF First(old, "line") = 0 \/ First(Front(next), "line") # 0 THEN {}
  ELSE {[i \in 1..Len(next) |-> IF i = 1 THEN Line(m) ELSE Header] : m \in Method}

\* What is left of the old bytes behind a segment: nothing, or some parts and the rest of
\* the one before them, which no search finds unless it reads as an empty line.
Rests(old) ==
  LET behind == {SubSeq(old, i, Len(old)) : i \in 2..(Len(old) + 1)}
  IN {<<>>} \cup behind \cup {<<Blank>> \o r : r \in behind}

\* The checks of asgn1 are those of RequestSyntax, without a number for a log.
Checked1(s, n) ==
  LET o == Checked(s, n)
  IN IF o.act \in {"get", "upload"} THEN [o EXCEPT !.id = 0] ELSE o

Checked2(s, n) == Checked(s, n)

\* The path is that of the client's first line where that was received.
Paths(next, line) ==
  IF got = 0 /\ ~line /\ First(next, "line") # 0 THEN {request[conn].file} ELSE File

Parsed(o, f) ==
  IF o.act = "get" THEN [act |-> "get", id |-> o.id, file |-> f]
  ELSE [act |-> "upload", method |-> o.method, id |-> o.id, file |-> f,
        contLen |-> o.contLen, bodyVal |-> o.bodyVal]

\* The answer to a malformed request, or the function that the request is for.  asgn1
\* looks at nothing more of a connection after an upload of length 0.
Dispatch(o, paths) ==
  /\ \/ o.act = "refuse" /\ pc' = "close" /\ Answer(<<o.code>>)
     \/ o.act = "none" /\ pc' = (IF asgn = 1 THEN "swallow" ELSE "recv")
     \/ o.act \in {"get", "upload"} /\ pc' = "open"
     \/ o.act = "crash" /\ pc' = "down"
  /\ IF o.act \in {"get", "upload"} THEN \E f \in paths : job' = Parsed(o, f) ELSE job' = o
  /\ o.act # "refuse" => UNCHANGED answers

\* recv() returns the first segment, or in asgn2 a later one after an upload of
\* length 0; the buffer is parsed as if it held a whole request.
Receive ==
  /\ pc = "recv"
  /\ \E n \in 1..MAXLENGTH :
       LET next == SubSeq(parts, got + 1, got + n)
           overLine == OverOldLine(next, reqString)
       IN /\ got + n <= Len(parts)
          /\ got' = got + n
          /\ \E s \in Received(next, reqString) \cup overLine, r \in Rests(reqString) :
               /\ reqString' = s \o r
               /\ Dispatch(IF asgn = 1 THEN Checked1(s \o r, n) ELSE Checked2(s \o r, n),
                           Paths(next, s \in overLine))
  /\ again' = (got > 0)
  /\ UNCHANGED <<asgn, request, waiting, conn, files, log, served, intact, restarts>>

\* All the GRABBED flags are set: the rest of the connection goes unread.
Swallow ==
  /\ pc = "swallow" /\ got < Len(parts)
  /\ \E n \in 1..(Len(parts) - got) : got' = got + n
  /\ UNCHANGED <<asgn, request, waiting, pc, conn, reqString, job, files, answers, log,
                 served, intact, again, restarts>>

AtEnd == got = Len(parts) /\ ~request[conn].patient

\* recv() returns 0: the connection is closed without an answer.
EndOfStream ==
  /\ pc \in {"recv", "swallow"} /\ AtEnd
  /\ pc' = "close"
  /\ UNCHANGED <<asgn, request, waiting, conn, got, reqString, job, files, answers, log,
                 served, intact, again, restarts>>

OnReset1 == <<RES_INTERNAL_SE>>
OnReset2 == <<>>

\* recv() returns -1.
ReceiveFails ==
  /\ pc \in {"recv", "swallow"}
  /\ pc' = "close"
  /\ intact' = FALSE
  /\ Answer(IF asgn = 1 THEN OnReset1 ELSE OnReset2)
  /\ UNCHANGED <<asgn, request, waiting, conn, got, reqString, job, files, log, served,
                 again, restarts>>

-----------------------------------------------------------------------------
(* GET, and the opening of the file of an upload.                          *)

\* Mutant: the test for 403 covers 404 as well.
LoggedMutant(code) == asgn = 2 /\ code \notin {RES_FORBIDDEN, RES_NOT_FOUND}

\* asgn2 logs all answers of the processing functions but 403.
Logged(code) == asgn = 2 /\ code # RES_FORBIDDEN

Return(code) == pc' = IF Logged(code) THEN "log" ELSE "close"

Finish(codes) ==
  /\ Answer(codes)
  /\ Return(Head(codes))
  /\ UNCHANGED <<asgn, request, waiting, conn, got, reqString, log, served, intact, again,
                 restarts>>

\* What open() fails with where the file is there: it may for other reasons than its
\* mode, as when no descriptor is left.
OpenError == IF file \in Denied THEN RES_FORBIDDEN ELSE RES_INTERNAL_SE

GetFails ==
  /\ pc = "open" /\ job.act = "get"
  /\ \/ Finish(<<OpenError>>)
     \/ files[file] = Absent /\ Finish(<<RES_NOT_FOUND>>)
  /\ UNCHANGED <<job, files>>

\* open(), and the header, which says 200.
GetOpens ==
  /\ pc = "open" /\ job.act = "get"
  /\ file \notin Denied /\ files[file] # Absent
  /\ asgn = 1 \/ file \notin Directory
  /\ pc' = "send"
  /\ Answer(<<RES_OK>>)
  /\ UNCHANGED <<asgn, request, waiting, conn, got, reqString, job, files, log, served,
                 intact, again, restarts>>

\* The loop of asgn2 adds the -1 of each read() of a directory to its count and goes
\* on, behind a header that says 200.
GetSpins2 ==
  /\ asgn = 2 /\ pc = "open" /\ job.act = "get"
  /\ file \in Directory
  /\ pc' = "spin"
  /\ Answer(<<RES_OK>>)
  /\ UNCHANGED <<asgn, request, waiting, conn, got, reqString, job, files, log, served,
                 intact, again, restarts>>

\* The loop of read() and send(), to its end: the client has read all but what the
\* socket's buffer holds.  In asgn1 it ends with the first short read, also with the
\* failing one of a directory.
SendFile ==
  /\ pc = "send"
  /\ Return(RES_OK)
  /\ UNCHANGED <<asgn, request, waiting, conn, got, reqString, job, files, answers, log,
                 served, intact, again, restarts>>

IsPut == job.act = "upload" /\ job.method = "PUT"
IsAppend == job.act = "upload" /\ job.method = "APPEND"

\* "else if (RES_OK)" is always true: a refused PUT is answered once more.
RefusedPut1 == <<OpenError, RES_OK>>

\* Mutant: the condition of asgn1.
RefusedPut2Mutant == <<OpenError, RES_OK>>

RefusedPut2 == <<OpenError>>

PutFails ==
  /\ pc = "open" /\ IsPut
  /\ Finish(IF asgn = 1 THEN RefusedPut1 ELSE RefusedPut2)
  /\ UNCHANGED <<job, files>>

AppendFails ==
  /\ pc = "open" /\ IsAppend
  /\ \/ Finish(<<OpenError>>)
     \/ files[file] = Absent /\ Finish(<<RES_NOT_FOUND>>)
  /\ UNCHANGED <<job, files>>

\* The body begins behind the head, in the same segment; old is history.
OpenedJob(old, code) ==
  [act |-> "stores", method |-> job.method, file |-> job.file, contLen |-> job.contLen,
   bodyVal |-> job.bodyVal, from |-> got - job.bodyVal, total |-> 0, id |-> job.id,
   old |-> old, code |-> code]

PutOpens ==
  /\ pc = "open" /\ IsPut
  /\ file \notin Denied \cup Directory
  /\ pc' = "first"
  /\ job' = OpenedJob(<<>>, IF files[file] = Absent THEN RES_CREATED ELSE RES_OK)
  /\ files' = [files EXCEPT ![file] = <<>>]
  /\ UNCHANGED <<asgn, request, waiting, conn, got, reqString, answers, log, served,
                 intact, again, restarts>>

AppendOpens ==
  /\ pc = "open" /\ IsAppend
  /\ file \notin Denied \cup Directory /\ files[file] # Absent
  /\ pc' = "first"
  /\ job' = OpenedJob(files[file], RES_OK)
  /\ UNCHANGED <<asgn, request, waiting, conn, got, reqString, files, answers, log, served,
                 intact, again, restarts>>

-----------------------------------------------------------------------------
(* The body of an upload.                                                  *)

\* The k parts behind the first n of the client, as they are stored.
Units(n, k) == [i \in 1..k |-> <<conn, n + i>>]

\* write() of k parts, whose result nobody looks at: some or all may be missing.
Write(n, k) ==
  \E stored \in 0..k :
    /\ files' = [files EXCEPT ![file] = @ \o Units(n, stored)]
    /\ intact' = (intact /\ stored = k)

\* Mutant: "> 1" for "> 0" in front of the write().
FirstChunkMutant == IF job.bodyVal > 1 THEN job.bodyVal ELSE 0

FirstChunk == job.bodyVal

WriteFirst ==
  /\ Goto("first", "body")
  /\ Write(job.from, FirstChunk)
  /\ UNCHANGED <<asgn, request, waiting, conn, got, reqString, job, answers, log, served,
                 again, restarts>>

ChunkSize == IF asgn = 1 THEN MAXLENGTH ELSE BUF_SIZE

MoreToReceive == job.total < job.contLen - job.bodyVal

StoreChunk ==
  /\ pc = "body" /\ MoreToReceive
  /\ \E k \in 1..ChunkSize :
       /\ got + k <= Len(parts)
       /\ got' = got + k
       /\ job' = [job EXCEPT !.total = @ + k]
       /\ Write(got, k)
  /\ UNCHANGED <<asgn, request, waiting, pc, conn, reqString, answers, log, served, again,
                 restarts>>

\* Mutant: no "break" when recv() returns 0.
AfterBodyMutant == IF MoreToReceive THEN "body" ELSE "done"

AfterBody == "done"

\* All has come, or recv() returns 0.
BodyEnds ==
  /\ pc = "body" /\ (~MoreToReceive \/ AtEnd)
  /\ pc' = AfterBody
  /\ UNCHANGED <<asgn, request, waiting, conn, got, reqString, job, files, answers, log,
                 served, intact, again, restarts>>

\* recv() fails: write() of -1 bytes stores nothing, and the next recv() returns 0.
BodyFails ==
  /\ pc = "body" /\ MoreToReceive
  /\ pc' = "done"
  /\ intact' = FALSE
  /\ UNCHANGED <<asgn, request, waiting, conn, got, reqString, job, files, answers, log,
                 served, again, restarts>>

SendStored ==
  /\ pc = "done"
  /\ Finish(<<job.code>>)
  /\ UNCHANGED <<job, files>>

-----------------------------------------------------------------------------
(* The end of a connection, and of the server.                             *)

LogLine == [client |-> conn, code |-> Head(answers[conn]), id |-> job.id]

Log ==
  /\ Goto("log", "close")
  /\ log' = Append(log, LogLine)
  /\ UNCHANGED <<asgn, request, waiting, conn, got, reqString, job, files, answers, served,
                 intact, again, restarts>>

\* Mutant: the connection is not closed before the next accept().
CloseMutant ==
  /\ Goto("close", "accept")
  /\ UNCHANGED <<asgn, request, waiting, conn, got, reqString, job, files, answers, log,
                 served, intact, again, restarts>>

\* What the server knows of a connection ends with it.
Forget ==
  conn' = Nobody /\ got' = 0 /\ job' = NoAnswer /\ intact' = TRUE /\ again' = FALSE

Close ==
  /\ Goto("close", "accept")
  /\ Forget
  /\ UNCHANGED <<asgn, request, waiting, reqString, files, answers, log, served, restarts>>

\* SIGTERM or SIGINT: by its handler in asgn2, by default in asgn1.
Kill ==
  /\ pc # "down"
  /\ pc' = "down"
  /\ Forget /\ reqString' = <<>>
  /\ UNCHANGED <<asgn, request, waiting, files, answers, log, served, restarts>>

\* fopen(logfile, "w"): the log starts anew, the files are as they were left.
Restart ==
  /\ restarts < MaxRestarts
  /\ Goto("down", "accept")
  /\ restarts' = restarts + 1
  /\ Forget /\ reqString' = <<>>
  /\ log' = <<>> /\ served' = <<>>
  /\ UNCHANGED <<asgn, request, waiting, files, answers>>

Init ==
  /\ asgn \in Asgn
  /\ request \in [Client -> Request]
  /\ waiting = Client
  /\ pc = "accept" /\ conn = Nobody
  /\ got = 0 /\ reqString = <<>> /\ job = NoAnswer
  /\ files = [f \in File |-> IF f \in Denied \cup Directory THEN <<>> ELSE Absent]
  /\ answers = [c \in Client |-> <<>>]
  /\ log = <<>> /\ served = <<>>
  /\ intact = TRUE /\ again = FALSE
  /\ restarts = 0

ServerStep ==
  \/ Accept \/ Receive \/ Swallow \/ EndOfStream
  \/ GetFails \/ GetOpens \/ GetSpins2
  \/ PutFails \/ AppendFails \/ PutOpens \/ AppendOpens
  \/ WriteFirst \/ StoreChunk \/ BodyEnds \/ SendStored
  \/ Log \/ Close

Next == ServerStep \/ SendFile \/ ReceiveFails \/ BodyFails \/ Kill \/ Restart

Spec == Init /\ [][Next]_vars

\* The server runs, and clients send what they have and read if they do at all; nothing
\* makes a connection fail, a signal arrive or somebody start the server again.
FairSpec ==
  /\ Spec
  /\ WF_vars(ServerStep)
  /\ WF_vars(SendFile /\ request[conn].reads)

-----------------------------------------------------------------------------
(* Properties.                                                             *)

\* Every variable has its type; the server has a connection unless it waits for one.
TypeOK ==
  /\ asgn \in Asgn /\ request \in [Client -> Request]
  /\ waiting \subseteq Client /\ conn \in Client \cup {Nobody}
  /\ pc \in {"accept", "recv", "swallow", "open", "send", "spin", "first", "body",
             "done", "log", "close", "down"}
  /\ pc # "down" => (conn = Nobody <=> pc = "accept")
  /\ conn # Nobody => got \in 0..Len(parts)
  /\ reqString \in Seq(Part)
  /\ job.act \in {"refuse", "get", "upload", "none", "crash", "stores"}
  /\ files \in [File -> {Absent} \cup Seq(Client \X Nat)]
  /\ answers \in [Client -> Seq({RES_OK, RES_CREATED, RES_BAD_REQUEST, RES_FORBIDDEN,
                                 RES_NOT_FOUND, RES_INTERNAL_SE, RES_NOT_IMPL})]
  /\ log \in Seq([client : Client, code : Nat, id : Int])
  /\ served \in Seq(Client) /\ intact \in BOOLEAN /\ again \in BOOLEAN
  /\ restarts \in 0..MaxRestarts

\* What asgn2 does for a connection is what that client asked for, in whatever pieces
\* it came and whoever was served before: method, path, length and the start of the body
\* are its own, the number for the log is its own or the beginning of it, and the server
\* stays up.  All but a client that sends more behind an upload of length 0: what asgn2
\* then makes of its bytes may be anything, and bring the server down.
ServesOwnRequest ==
  asgn = 2 =>
    LET length == First(parts, "length")
        id == First(parts, "id")
    IN /\ job.act = "crash" => again
       /\ again =>
            /\ method(parts) \in {"PUT", "APPEND"}
            /\ length # 0 /\ Atoi(parts[length].value) = 0
       /\ pc \in {"open", "send", "spin", "first", "body", "done"} /\ ~again =>
            /\ file = request[conn].file
            /\ job.id # 0 => id # 0 /\ job.id <= parts[id].value
            /\ IF job.act = "get" THEN method(parts) = "GET"
               ELSE /\ method(parts) = job.method
                    /\ length # 0 /\ job.contLen = Atoi(parts[length].value)
                    /\ job.act = "stores" => job.from = BlankAfter(parts, length)

\* A client is answered at most once, by asgn2 whatever fails, and by asgn1 but for
\* the 200 behind the code of a refused PUT.
AtMostOneAnswer ==
  \A c \in Client :
    \/ Len(answers[c]) <= 1
    \/ asgn = 1 /\ answers[c] \in {<<RES_FORBIDDEN, RES_OK>>, <<RES_INTERNAL_SE, RES_OK>>}

\* The log tells of the connections since the start in the order of service, each with
\* the code that was sent.  No line is missing of an answer 200, 201, 404 or 500, but
\* for that of the last connection when the server is down.  (Whether the others
\* have a line is left open: they should, says the documentation.)
Answered(c) ==
  /\ answers[c] # <<>>
  /\ c = conn => pc \notin {"send", "spin", "log"}

ToBeLogged(c) ==
  /\ Answered(c)
  /\ Head(answers[c]) \in {RES_OK, RES_CREATED, RES_NOT_FOUND, RES_INTERNAL_SE}

LogIsTrue ==
  asgn = 2 =>
    \E place \in [1..Len(log) -> 1..Len(served)] :
      /\ \A i, j \in 1..Len(log) : i < j => place[i] < place[j]
      /\ \A i \in 1..Len(log) :
           /\ log[i].client = served[place[i]]
           /\ Answered(log[i].client) /\ log[i].code = answers[log[i].client][1]
      /\ \A k \in 1..Len(served) : ToBeLogged(served[k]) =>
           \/ \E i \in 1..Len(log) : place[i] = k
           \/ pc = "down" /\ k = Len(served)

\* An upload that is about to be told 200 or 201 is stored whole if nothing failed on
\* the way: behind the old content (APPEND) or alone (PUT), from its first part as far
\* as it was announced and has come, and it has come as far as it was announced or
\* sent.  (Whether bytes beyond Content-Length are stored is left open.)
StoredWhole ==
  pc = "done" /\ intact =>
    /\ got = Len(parts) \/ got - job.from >= job.contLen
    /\ \E n \in 0..(got - job.from) :
         /\ n >= job.contLen \/ n = got - job.from
         /\ files[file] = job.old \o Units(job.from, n)

\* A client that asgn2 waits for as long as it waits for asgn2: it sent nothing, an
\* upload that is shorter than announced, or one of length 0.
WaitsForClient(c) ==
  LET p == request[c].parts
      length == First(p, "length")
  IN /\ request[c].patient
     /\ \/ p = <<>>
        \/ /\ method(p) \in {"PUT", "APPEND"}
           /\ length # 0
           /\ \/ Len(p) - BlankAfter(p, length) < Atoi(p[length].value)
              \/ Atoi(p[length].value) = 0

\* In the end every client has been served and the server waits for the next, or it
\* is down, or held by one client: one that does not read the file it has asked for, one
\* whose bytes the server waits for, or asgn2 by a GET of a directory.  A client whose
\* bytes asgn1 waits for may be any that is patient.
EveryClientServed ==
  <>[](\/ waiting = {} /\ pc = "accept"
       \/ pc \in {"down", "spin"}
       \/ pc = "send" /\ ~request[conn].reads
       \/ /\ pc \in {"recv", "swallow", "body"}
          /\ IF asgn = 1 THEN request[conn].patient ELSE WaitsForClient(conn))

-----------------------------------------------------------------------------
(* What the documentation says and the code does not do.                   *)

\* asgn1/README.md:52-54: "Each response in the event of good requests or bad requests
\* is always given a proper response".
ProperResponse == \A c \in Client : Len(answers[c]) <= 1
=============================================================================
