# A TLA+ model of the course's file servers

The repository holds five assignments of a systems course.  `asgn0` is a small
`split`; `asgn1` to `asgn4` are one HTTP-like file server growing up: single
threaded (1), with a log (2), with a dispatcher and a pool of worker threads (3),
and with "atomic" requests (4).  `asgn4` is modelled in most detail; what the earlier
servers do otherwise has modules of its own.  Line numbers below are those of
`src/asgn4/httpserver.c` unless a file is named.

## 1. The system

| part | state | operations | meets |
| --- | --- | --- | --- |
| dispatcher: `main` 1007-1024 | `connfd`, `myMutex`, `canWork`, `queueFull` | accept, lock, wait while the queue is full, `enqueue`, signal | the workers, through the queue, the mutex and two condition variables |
| worker threads: `threadFunction` 902-932 | `threadConnfd`, `closeConnMutex` | lock, `dequeue` or wait, signal, handle, close | the dispatcher; one another |
| work queue: `threadPool.c` | `head`, `tail`, `size`, nodes on the heap | `enqueue`, `dequeue`, `getQueueSize` | called under `myMutex` |
| request parser: `handle_connection` 516-791 | locals, one 2048-byte buffer | receive until 2048 bytes or end of stream, a cascade of checks, each with its answer | one per worker, no shared state |
| handlers: `processGet`, `processPutFile`, `processAppendFile`, `handle_connection` 687-885 | files, `readLock`, `writeLock`, the log | open, fstat, read and send; access, open, write and recv; log; answer | all workers, through the files, the locks and the log |
| dead code: `processPut`, `processAppend` | | | the branches 820 and 866 that call them ask for `bodyVal > contentLengthInt`, which implies `bodyVal > 0`, which the branch before has taken |
| signal handlers 934-952 | log, locks | close the log, destroy the locks, `exit` | whatever the threads are doing |
| start-up 958-1005 | | options, port, socket, threads | sequential, before the threads exist |
| `asgn3` | as `asgn4`, without file locks | the same functions | the same |
| `asgn1`, `asgn2` | one connection at a time, one `recv` per request; a log in `asgn2` | older versions of the parser and of the handlers | the connections before, through the buffer, the files and the log |
| `asgn0/split.c` | one buffer | read, replace a delimiter, write, per file | |

**What is hard in it.**  Two condition variables around one mutex, with the wait
for room an `if` and the wait for work a `while`; an error path that keeps the
mutex; descriptors that the kernel reuses the moment they are closed; a tail
pointer that must be reset when the list runs empty; uploads that take many
system calls, of files that others read, truncate and extend meanwhile; a size
taken once and used as a loop bound; clients that stop in the middle of a body;
log lines that must agree with the order of effects.  The full list, line by
line, is `hazards` in `PROJECT.json`.

**What makes each part correct.**

* dispatcher and workers: every accepted connection is handled and closed exactly
  once and by one worker; no wake-up is lost; the queue is bounded; the shared
  list is touched under the mutex only.
* queue: a first-in first-out queue, without leaks or dangling pointers.
* handlers: an upload is stored whole or is the only one in progress; the log is a
  serial history; a path is created once; a GET sends what its header announces
  and ends.
* parser: each request gets the answer of its kind however the network cuts it
  up, and the lengths it hands on are sane; every request is parsed in the end.
* shutdown: what is logged is stored, and at most one upload is cut off.
* single-threaded servers: a connection is served by what its own client sent, is
  answered at most once, and cannot stop the server unless the server waits for it, to
  send or to read.
* split: an argument that fails costs the others nothing, the output is the input
  with the delimiter replaced, and the exit status tells of any failure.

## 2. The modules

### Dispatcher, MCDispatcher, Dispatcher_proofs

`Dispatcher` has one action per step of the two loops between points where
another thread can interfere: the lock and unlock calls, both
`pthread_cond_wait`s (releasing the mutex and going to sleep is one step, coming
back with the mutex another), accept, handling and closing.

| variable | code |
| --- | --- |
| `pc` | where each thread is |
| `mutex`, `closeMutex` | owners of `myMutex` and `closeConnMutex` |
| `queue` | the content of the list (see `JobQueue`) |
| `connfd`, `threadConnfd` | the locals of that name |
| `open` | which connection descriptors the kernel holds open (not in the code: `accept` only returns a descriptor that is not open) |
| `spurious` | counts the spurious wake-ups, for the bound |

`pthread_cond_signal` wakes one waiter, any of them, if there is one, and is lost
otherwise; `SpuriousWakeup` is the return without a signal that POSIX allows.
`ContinueAfterError` is the `continue` of line 1012, which leaves the mutex
locked.  `Handle` stands for `handle_connection` and assumes that it returns,
which the code guarantees only if the client closes its sending side or sends
2048 bytes (`RequestsParsed` of `RequestParser`), if it sends its body and reads its file
(`GetsEndUnlessCut` and `UploadsEndIfSent` of `UnlockedHandlers`), and if the request does
not meet the endless loops of section 4.  What follows if it does not is `ServerPool`.

### ServerPool, MCServerPool (proofs in Dispatcher_proofs)

`ServerPool` is `Dispatcher` with the set `lasting` of connections whose handler never
returns, chosen when they are accepted: the client that waits for its answer, or
stops to send or to read, the GET whose file was cut, the GET of a directory (line 198).  The worker that takes one is
lost.  This is how the two halves of the server meet: the reasons are in
`RequestParser`, `FileHandlers` and `SequentialServer`, the consequence for the other
connections is here.  `Blocked` says of each thread that it waits for another one or for a
client; it is written out, not `ENABLED`, so that what it is used for can be proved.

### JobQueue, FifoQueue, MCJobQueue, JobQueue_proofs

`JobQueue` is the linked list with its pointers: `heap` maps the addresses that
`malloc` has returned and `free` has not taken back to nodes; addresses are
reused.  Each function is one step, since `LockDiscipline` of `Dispatcher` says
that one thread at a time is inside.  `FifoQueue` is what it promises, a sequence;
`JobQueue` implements it under the mapping "the values of the nodes in the order
in which they were linked", for which the history variable `chain` records that
order.

### FileHandlers, AtomicStore, MCFileHandlers, FileHandlers_proofs

`FileHandlers` is what follows once a request is parsed: lines 687-699 and
793-885 with the three functions they call, a step per system call.

| variable | code |
| --- | --- |
| `input` | method, path, `contentLengthInt`, what the client sends and how much of it came with the header (`bodyVal`) |
| `pc` | where the worker of each request is |
| `readLock`, `writeLock` | the holders of the two `pthread_rwlock_t`s: `readLock` is only ever locked for reading, `writeLock` only for writing |
| `files` | the content of each path, or `Absent` |
| `job` | `created`, `fileSize`, cut to an `int` (`ToInt`), the status answered, how much of the body is stored, what a GET has sent, which `totalGotten` counts |
| `log` | the requests in the order of their lines |
| `committed` | history: the files as the logged uploads left them |

Content is a sequence of units, each known by its sender and its place in the
sender's body, so that "torn", "mixed", "skipped" and "repeated" can be told
apart.  `contLen` of the processing functions is `totalBodyLeft`, which is
`Content-Length - bodyVal`; the model counts from the start of the body instead.
A PUT of an over-long body stores everything that the last `recv` returned.  The
upload path takes no lock, answers nothing and logs nothing when Content-Length
is 0 and no body came (`NothingToStore`).  403 is not logged (lines 690, 812,
857), although `asgn4/README.md:31-32` says that each request is.  `open` may fail with
EACCES (the paths of `Denied`), with ENOENT where GET and APPEND test for it, and for any
other reason at any time (`OpenFails`).

`ClientStep` has the steps that wait for the client: `recv` of a body, and the `send` of a
file.  A `send` blocks while the client does not read and the socket's buffer is full.
`SendHeader` and `SendChunk` stand for the `fstat` or `read` together with the `send` that
follows; a client that does not read is one for which the step is not taken.  Answers
without a body fit in the buffer.

`AtomicStore` is the promise of `asgn4/README.md`: requests take effect one at a
time, in the order of the log.  `SerialLog` of `Shutdown` states the refinement.

### Shutdown, MCShutdown, Shutdown_proofs

`Shutdown` adds `sigterm_handler` to `FileHandlers`: it interrupts one thread between
any two of its steps (`interrupted`), closes the log, and ends the process, while the
other threads go on until then (`handler` says how far it is).  A line written behind
the closing is lost (`LogLost`).  `logged` is a history variable, the files as the
uploads in the log left them; `SerialLog` states that the log is a run of `AtomicStore`
with `store` mapped to it and the history to the log joined with what each client was
sent.  Without a signal that is the behaviour of `FileHandlers`, so that its own
invariants are checked here, too.

### UnlockedHandlers, MCUnlockedHandlers, UnlockedHandlers_proofs

`asgn3` makes the same system calls as `asgn4` in the same order and takes no lock.
`UnlockedHandlers` uses the actions of `FileHandlers` for both; `locked` says which
server runs, `stalls` which clients may stop to send their body or to read a file (any set
of them).  `CallProcess` and `Return` replace the four actions that lock and unlock;
`WithClient` is a step that waits for the client.  Its properties are what
overlapping requests promise each other: to GETs, which no upload excludes in either
server, and to uploads, which exclude each other in `asgn4` only.

### RequestSyntax, RequestParser, MCRequestParser, RequestParser_proofs

`RequestParser` is what comes before: lines 516-791, from the bytes of a connection to
the call of a processing function; the checks themselves, which are the same in all
four servers, are the operators of `RequestSyntax`.  What a client sends is a
sequence of parts, as many as the checks tell apart: a request line (one of the
methods, another method, or malformed), the two headers with their number and the
forms that the code refuses, any other header, the empty line, a byte of a body.
The method is the first word of the buffer and the rest of the line is looked for
everywhere in it (lines 621-647), so that a request may begin with empty lines
(`Start`), and what stands in front of a line passes for its method if it is as long as
one (`method`).

| variable | code |
| --- | --- |
| `stream`, `sent`, `closed` | the client's side: what it will send, how much of it has arrived, whether it has closed its sending side |
| `patient` | whether it waits for its answer before it closes |
| `reqString` | what is in the buffer |
| `reset` | whether a `recv` has failed; `initialReqRead`, the sum of what `recv` returned, is then one less than what is in the buffer |
| `pc` | in the receive loop, or behind it |
| `outcome` | the answer, or the arguments of the processing function |

`Receive` is one `recv` of the loop, of any size that has arrived and fits;
`Parse` leaves the loop and runs the whole cascade of checks, which share nothing
with anyone.  `Checked` keeps the order of the checks; those that give the same
answer one after the other are one conjunction.  Headers are searched in the whole
buffer, body included, as the code does.  `Atoi` is the conversion of the C
library: saturation at the size of a long, then a cut to an int.

The properties compare `outcome` with a second definition, of the whole stream
instead of the buffer and of its head only (`RequestHead`, and the first header of a kind
by its place in it, `FirstHeader`): segmentation, the end of the buffer and the place of a
header must make no difference.  Of an upload of length 0 without a body in the buffer
they say nothing, since the code answers it with nothing (section 4).  A body that
looks like a header, or a number that an int cannot hold, does make one in this
code; `LengthsAddUp` says what still holds then.

### SequentialServer, MCSequentialServer, SequentialServer_proofs

`SequentialServer` is all of `asgn1` and of `asgn2` behind start-up: accept, one `recv`
and the checks on what it returned, the processing functions a system call at a time,
the log, `close`.  Definitions whose names end in 1 or 2 are those in which the two
servers differ; `asgn` says which one runs.

| variable | code |
| --- | --- |
| `request`, `waiting` | what each client sends, whether it waits for its answer and whether it reads what it is sent; who has not been accepted yet |
| `pc`, `conn`, `got` | where the server is, `connfd`, how much it has received of that client |
| `reqString` | the buffer: what the last `recv` wrote, and behind it what is left of its old content |
| `job` | the locals, from the parsed request on |
| `files`, `answers`, `log` | what is stored, what each client was sent, the lines of the log |
| `served`, `intact`, `again`, `restarts` | history: who was accepted since the start, whether a call failed for this connection, whether what was parsed last is not its beginning, the bound |

A `recv` may return any number of parts, and the last of them torn: a line or an empty
line that is none yet, a number that is shorter (`Torn`).  Both servers parse the buffer,
not what was received, and a `recv` overwrites only the bytes it returns.  The parts of
the model have no length in bytes, so that a segment may end at any byte of the old
content, whatever its own size: behind it are some of the old parts, and in front of
them the rest of one, which at most reads as an empty line (`Rests`); the last new part
and the old bytes behind it may read as one of `Mixed`, or as what the new one is
(`Received`); and a segment that ends within the old request line makes of it another
with any method, or a malformed one, and any path (`OverOldLine`, `Paths`).  In `asgn1`
this is what the connection before left.  In `asgn2`, which clears its buffer for each
connection, it is what the same connection sent before, behind an upload of length 0, the
only request after which `asgn2` goes on to receive; the number of body bytes may then be
negative, and the server goes down (`Crash`).

A GET sends its file in one step (`SendFile`), which waits for the client to read it and
which one that does not read never lets happen; nothing but a signal then changes what
the server does.  How much is sent, and the `int` that counts it, are left to
`FileHandlers`: no code of an answer depends on them, and both loops end for any size.

A `recv` that fails, an `open` that fails where it could succeed, a `write` that
stores less than it was given, and SIGTERM may happen at any point (`ReceiveFails`,
`BodyFails`, `GetFails`, `PutFails`, `AppendFails`, `Write`, `Kill`); a restarted server
finds the files as they were and begins its log anew.  The buffer of `asgn1` is not initialized: the model gives it what
the connection before left in it, as `handle_connection` has the same frame each time.

### Split, MCSplit, Split_proofs

`Split` is `asgn0/split.c`, an action per system call and one for each way in which
it fails.  `written` keeps the output apart by argument, since arguments are written
one after the other; `failed` and `short` are history variables.  `status` is the
exit status, `errno` the C library's variable, which no successful call resets.
`processStdin` and `processFile` differ only in who opens and closes the file; they
are one set of actions, with the standard input a file that is open already, never
rewound and never closed.

## 3. The runs

| run | instance | shows |
| --- | --- | --- |
| `dispatcher_safety` | 3 workers, 5 descriptors, `MAX_QUEUE_SIZE` 1, one spurious wake-up, `accept` may fail | all safety properties |
| `server_pool` | 2 workers, 3 descriptors, `MAX_QUEUE_SIZE` 0, one spurious wake-up, any client may be one that stays | no deadlock; the others are served and the dispatcher comes back to `accept`, unless no worker is left |
| `dispatcher_accept_error_live` | `accept` may fail | **violated**: see section 4 |
| `job_queue` | 4 nodes, 3 connections, every sequence of calls | the list is a leak-free FIFO |
| `shutdown` | 3 requests out of PUTs and APPENDs with complete, truncated, empty and over-long bodies to two plain paths and a denied one; any `open` may fail, a signal come at any step | uploads are serial and untorn, one 201 per path; a signal cuts off at most one upload and one line |
| `gets` | 2 requests out of GETs, PUTs and APPENDs of one path, of 3 units at first, with `INT_MAX` 5, and GETs of a denied one; with and without locks; any client may stop to send or to read for ever | what GETs send, what overlapping uploads keep, who ends |
| `get_spins` | 2 requests | **violated**: see section 4 |
| `request_parser` | a buffer of 5 parts, `INT_MAX` 3, `LONG_MAX` 31; methods, pairs of headers, bodies that fit or do not, heads that fill the buffer, parts in front of the request line; a reset anywhere | each request but an upload of length 0 gets the answer of its kind; lengths are sane; the loop ends |
| `waiting_client` | one GET that fits in the buffer | **violated**: see section 4 |
| `sequential` | 2 clients out of 10 kinds, `asgn1` and `asgn2`, a buffer of 5 parts, `Mixed` one header with a length, one restart | own request, one answer, true log, whole uploads, nobody starves without cause |
| `asgn1_answers` | the same, `asgn1` only, no restart | **violated**: see section 4 |
| `split` | up to three arguments of five kinds, the standard input among them, `BUFFSIZE` 2, any call failing | failures stay with their argument; the exit status tells; the program ends |

Bounds.  The queue must run empty, become full and exceed its maximum while all
workers are busy or asleep: three workers and five descriptors give a queue of up
to three beyond the ones in hand.  In `server_pool` one client can take a worker while
another is in the dispatcher's hand and a third in the queue, and two can take both
workers.  Descriptors and node addresses are reused, so these behaviours are infinite;
the only counter is `spurious`, bounded by `MaxSpurious`.  In `FileHandlers` every
request is served once; three requests are enough for two to conflict while the third
has already been logged, and `BUF_SIZE` 2 with bodies of up to three units makes more
than one chunk necessary.  For GETs, two requests are enough: each property relates a
GET to one upload or two uploads to each other.  With `INT_MAX` 5 an APPEND of three units
makes a file of six, which an `int` does not count.  In `RequestParser` the numbers 4, 10
and 40 are just above `INT_MAX`, cut to a small positive number, and saturated; bodies of
three bytes go beyond the buffer, and a head with two more headers leaves no room for any.
In `SequentialServer` two clients are enough for one to find what the other left in the
buffer and in the files, since nothing else outlives a connection; the buffer takes a head
of three parts and a body longer than announced.  The requests are uploads that are
longer or shorter than announced, with a client that waits or closes; uploads of length 0,
with a byte behind them and without; an upload of a denied path; a GET with a number for
the log, one by a client that does not read, one of a directory; and no request.  `Mixed`
has one part, the length of an upload: each further one multiplies the states.  The proofs
are for any `Mixed`.
In `Split` a file of five bytes takes three reads, and three arguments let a failing
one stand between two good ones.

Workers, and requests of `shutdown`, are interchangeable, so these two runs use symmetry;
the liveness runs do not.  `CHECK_DEADLOCK FALSE` is set where the system really stops:
`dispatcher_safety`, because a failed `accept` blocks everything; `server_pool`, when
every worker is taken and the queue is full; the two runs of `RequestParser`, which ends
with the request or with a waiting client; the two of `SequentialServer`, which stops
when there are no more clients or it is not started again.

Fairness.  Threads that can run do run (weak fairness per thread).  Acquiring a
mutex is strongly fair: the default mutex promises no order, but every unlock
wakes a waiter, and under weak fairness alone a thread could lose every race for
it, which no mutex of the platform does.
Nothing forces a client to connect, so `Accept` has no fairness, nor do failures
and spurious wake-ups.  In `FileHandlers`, weak fairness suffices for `writeLock`:
each request takes it once.  Steps that wait for the client (`ClientStep`: `recv` of a
body, `send` of a file) are fair for the clients that do not stall and for no other
(`FairHandlers` of `UnlockedHandlers`), so that `GetsEndUnlessCut` speaks of a GET whose own
client reads, and `UploadsEndIfSent` of `asgn4` needs all uploading clients to go on.
`get_spins` assumes of all clients that they go on (`ClientFairness`): the GET that it
finds spinning is not one that waits for its client.  In
`ServerPool` a worker that is taken has no step, so fairness asks nothing of it.  In
`SequentialServer` the one process goes on as long as it can, and sends its file if the
client is one that reads (`FairSpec`); no call is forced to
fail, no signal to arrive, no server to be started again.  In `RequestParser` a client sends all it
has, and closes its side unless it is `patient` and waits; the worker runs when it
can.  `Split` is a sequential program on finite files; it goes on, but no call is
forced to fail (`Advance`).

## 4. Where the code and its documentation disagree

* Line 1012: a failed `accept` leaves `myMutex` locked and the dispatcher blocks on
  its own mutex at the next connection; what is queued is never served.
* Line 197: if a PUT shortens the file below the size that a GET has announced,
  `read` returns 0 for ever and the worker never comes back.  It can, because GET locks
  `readLock` and uploads lock `writeLock` (lines 688, 804): a GET reads files that are
  being written, against `asgn4/README.md:94-95`.
* Line 583: the receive loop ends only when the client closes its side or the buffer
  is full.  A client that waits for the answer first, as the `curl` of
  `asgn4/README.md:127` does, and the worker wait for each other for ever.
* `asgn1/httpserver.c:758`: `else if (RES_OK)` is always true, so that a PUT which was
  refused with 403 or 500 is answered with 200 as well.

Four more have no violated run of their own.  A passing property leaves the case open,
says of every other case what the documentation says, and would fail if it covered this
one:

* Line 795: an upload of `Content-Length: 0` without a body, and no other request, is
  closed without an answer, a log line or a file, and so is one with a body if the head
  alone fills the buffer (the second case came to light in the proof, which could not be
  completed for a property that did not know it), against `asgn4/README.md:12-13` and
  `asgn1/README.md:52-54` (`AnswerFollowsRequest`).
* `asgn2/httpserver.c:609`: what is answered with 403, 400 or 501 is not logged, with a
  Request-Id or without, against `asgn2/README.md:29-30` and `asgn4/README.md:31-32`
  (`LogIsTrue` asks for the lines of 200, 201, 404 and 500, and of the others that a line,
  if there is one, is true).
* `asgn2/httpserver.c:737`: bytes of a body beyond its Content-Length are stored.  The
  branch that is to leave them out, as its comment says, cannot be reached (`StoredWhole`
  asks for the announced bytes, and for no others).
* `asgn2/httpserver.c:684`: behind an upload of length 0 a short segment of the same client
  leaves the old line and headers in the buffer, the number of body bytes becomes negative
  and the server goes down, against `asgn2/README.md:20-22` (`ServesOwnRequest` says that it
  stays up for any other client, and `again` what came before).

Seen while modelling and covered by passing properties instead: the queue exceeds
`MAX_QUEUE_SIZE` by one because line 1015 compares with `>`, and by one more per
spurious wake-up because it does not test again (`QueueBound`); a Content-Length is accepted
modulo 2^32 and may stand in the body (`LengthsAddUp`); `split` loses what a short
`write` leaves over, and exits with 0 all the same (`OthersAreWhole` excludes such
arguments, `ExitTellsFailure` shows the 0); a connection that is reset right behind the head of
an upload ends the server, since -1 is added to the count and the body gets a negative
size (`LengthsAddUp`, which says that nothing else does); a GET of a directory never
ends in `asgn2` and later (`EveryClientServed`); a file whose size an `int` does not hold is
announced with another, and one that grows beyond it while it is sent may not end
(`GetsEndUnlessCut`); a client that does not read its GET holds its worker in `asgn3` and
`asgn4` and the whole server in `asgn1` and `asgn2` (`GetsEndUnlessCut`,
`EveryClientServed`); lines that are logged behind the
handler's `fclose` are lost, and the clients had their answer (`AtMostOneUnlogged`).
`asgn2/README.md:21-24` says that no assumption is made on when a header is received;
`asgn2` parses what its first `recv` returned, so that a request that the network cuts
is refused, or logged with a number cut short (`ServesOwnRequest` says what holds all
the same).  In `asgn1` such a request may be completed with what the connection before
left in the buffer, which is why that property is stated of `asgn2` alone.

## 5. What is proved

TLAPS checks these for every number of threads, descriptors, nodes and for every
queue size, under the `ASSUME`s of the modules (finite, non-empty `Worker`,
distinct markers, `MAX_QUEUE_SIZE` a natural number, `NULL` not an address, a head of a
request that fits in the parser's buffer, a `long` with more bits than an `int`).

`Dispatcher_proofs`: all seven safety properties of `dispatcher_safety`.
`TypeOK` is inductive.  `LockDiscipline` is, given `TypeOK`.  The others are not:

* `QueueBound` and `NoLostRoom` need `RoomKept`: while the dispatcher is about to
  enqueue, or has been woken but not yet run, the queue is not longer than
  `MAX_QUEUE_SIZE` plus the number of spurious wake-ups.  It uses the lock
  discipline, for only the dispatcher makes the queue longer.
* `NoConnectionLost` and `NoConnectionShared` need each other (`Owned`): a close
  removes a descriptor from `open`, which keeps the first true only because no one
  else is responsible for it; an accept returns a descriptor that is not open,
  which keeps the second true only because what is not open is in nobody's hands.
* `NoIdleWorker` needs the cardinality of `OnTheWay` through every step: a signal
  moves one worker from asleep to on its way as it adds one connection, a worker
  that goes to sleep found the queue empty, and one that leaves took a connection.

`JobQueue_proofs`: `TypeOK`, `WellLinked`, `NoLeak`, and `JobQueue` implements
`FifoQueue` (initial states map to initial states, each step to a step).  The
invariant says that `chain` lists the allocated nodes without repetition, that
`head` and `tail` are its ends, `size` its length, and that each node points to the
next; each call changes `chain` at one end.

`FileHandlers_proofs`: `TypeOK`, `OneCreator` and `NoTornUpload`, for any number of
requests and files, any bodies and any `BUF_SIZE`.  None is inductive alone:

* `Exclusive`: a request between `LockWrite` and `Unlock` of an upload is
  `writeLock`.  With it two uploads are never both past the lock.
* `OneCreator` needs `Creation`: what `access()` said is still true when `open()`
  runs, since only the owner of the lock changes files, and no step removes a
  file, so that a path which was created is never missing again.
* `NoTornUpload` needs `Whole`, which says of each request past `UploadOpens` what
  its file holds (nothing or the committed content, then the units stored so far),
  and of each file that nobody writes that it is the committed one.  `UnitsConcat`
  and `OverwriteEnd` are the lemmas on what a chunk adds.

`Split_proofs`: all three invariants, for any command line, contents and
`BUFFSIZE`.  `TypeOK` is inductive.  `ExitTellsFailure` needs that `errno` is 0 as
long as no call has failed, from the start on (`Sticky`).  `OthersAreWhole` needs
`Stored`: what is written of the argument in hand, what is in the buffer and what is
still unread make up the whole, an argument passed is complete and one to come is
untouched; the standard input is whole until the first argument that asks for it.
Its lemmas say that replacing chunk by chunk is replacing in the whole.

`Dispatcher_proofs` also has `ServerPool`.  Its steps are steps of `Dispatcher`
(`PoolIsDispatcher`), so that a client that takes a worker for good costs the connections
nothing of the above.  `RestsWhenDone`, that there is no deadlock, joins five invariants.
`PoolLocks`, the converse of `LockDiscipline`, says that who has a mutex is between its lock
and its unlock and so is not blocked; a failed `accept` would break it, which is the
finding of line 1012.  Hence, when all are blocked, both mutexes are free, and every worker
is asleep or taken.  If one is asleep, `NoIdleWorker` says that the queue is empty,
`RoomKept` that the dispatcher does not sleep, and `Owned` that nothing else is open.

`Shutdown_proofs`: all six properties of `shutdown`, for any number of requests and files
and a signal anywhere.  `Serving` is the invariants of `FileHandlers_proofs` together; a
step with the signal is one of `FileHandlers`, a log line that is lost, or leaves the
requests alone.

* `AtMostOneTorn` follows from `Whole`: a file that is not as the logged uploads left it
  has a request that is `Writing`, and by `Exclusive` there is one of these at a time.
* `AtMostOneUnlogged` needs `Logging`: a request in the log is past its log line, and one
  that has an answer and has left the upload behind is in the log as long as it is open.
* `SerialLog` needs `Serial`, which says of each upload on its way what `AtomicStore` asks
  for at its log line: that it created the path if and only if it is not among the
  committed ones, that its answer fits, and that what it has stored is what may be stored of
  it (`Halfway`: the loop stops at the announced length or at most one chunk beyond).
  `Log` then is the step of `AtomicStore` and every other step is a stutter.  It is proved
  for uploads, which is also what the run has; a GET locks the other lock, and
  `get_spins` shows what comes of that.

`RequestParser_proofs`: all three invariants, for all streams, buffer sizes and widths of
`int` and `long`.  `Parsing` says that the outcome is that of the checks on the buffer,
which is the beginning of the stream.  `AnswerFollowsRequest` also needs `Enough`: the loop
ends with the whole stream or a full buffer, unless the connection is reset.  The rest is
not about steps but about the checks: what is found first in the beginning of a sequence is
found first in the whole of it, so that the checks on the buffer and the reference
definition on the stream agree (`HeaderInBuffer`, `IdInBuffer`, `LengthInBuffer`,
`LineInBuffer`, and `CheckedCases` for the cascade).

`SequentialServer_proofs`: all five invariants, for any clients, requests, paths and
buffer sizes, any failing calls and any number of restarts.

* `Typing` adds `Working`: what the job holds at each step of a request.
* `AtMostOneAnswer` needs `Answering`: no client is answered before it is accepted or while
  its request is in work, but for the header of a GET that is being sent.
* `StoredWhole` needs `Storing`, the loop invariant of the body: the file is what it was
  before, and then everything received so far, unless a call failed.
* `LogIsTrue` needs `InService`, that nobody is served twice, and `Logging`: there is an
  increasing map from the lines to the connections served (`Placed`), and every answer that
  is to be logged has its line or the server is about to write it.
* `ServesOwnRequest` needs `Serving`: the buffer is empty before the first `recv` of
  `asgn2`, so that what is parsed is the beginning of the stream but for a torn last part
  (`FirstSegment`); what is then in hand is the client's own (`OwnRequest`); and there is a
  second `recv` only behind an upload of length 0 (`SentEmptyUpload`).  That a torn part
  never completes a request is a matter of the order of the checks: a torn line is
  refused, so is an upload whose length or empty line is torn, and a torn number for the
  log is what the property allows.

`UnlockedHandlers_proofs`: all three invariants, with locks and without, for any number of
requests.  With locks they rest on `Exclusive`; without them on nothing but what each
`write` does.

* `UnitsInPlace` needs `Reached`, with locks: the file is not shorter than the writer's
  position in it, so that there are no holes.
* `GetSendsPrefix` needs `Sending`: what a GET has sent is the beginning of the file, which
  appends leave as it is, and it does not stop before the size that it announced.
* `AppendsKept` needs `Kept`: the units of a request in a file are just those that it has
  stored, each once and in order.

Three properties are stated so that a first-order prover can use them: `LogIsTrue` and
`AppendsKept` by places that increase, and the headers of `RequestParser` by the least of
their places, each instead of a recursive selection from a sequence.  That a set of natural
numbers has a least element is the library's well-foundedness of the natural numbers
(`LeastNumber`); no induction is used.

Every safety invariant of every passing run is thus the statement of a theorem, and so are
the two refinements (`ImplementsFifo`, and `SerialLog` for uploads).  Only model-checked:
all liveness (`OthersAreServed`, `AcceptsAgain`, `GetsEndUnlessCut`, `UploadsEndIfSent`,
`RequestsParsed`, `EveryClientServed`, `Terminates`), which is out of the prover's reach, and
the properties that the code violates.

## 6. Not modelled

* In `asgn3` and `asgn4`: failing or short `write` and failing `recv` while a body is
  stored (the loops are those of `asgn2`, where they are modelled); failing `send`;
  `malloc` returning NULL.
* Which characters make a request line malformed, and a header that does not fit in
  the buffer.  The bytes of a body are ASCII characters and not blank, and the first word
  of a header has the length of a method, as in `Accept:` or `Host:`; with a longer or a
  shorter one in front of the line the request is malformed instead of not implemented.  A full buffer has no terminating 0 and `strstr` reads on behind it;
  the searches of `RequestSyntax` end with the buffer.
* What a signal handler may not call: `fclose` and `exit` are not async-signal-safe, and
  may wait for ever for a lock that the interrupted thread holds; nor a second signal
  while the first is handled, which would close the log twice.
* The signal handlers of `asgn3`, which only close the log and exit.
* The size of a file and the counts of `processGet` in `asgn1` and `asgn2` (see section 2).
* Texts of responses and log lines; `printf` and `warn` output.
* Start-up: it is sequential and ends before the threads run.
* The dead functions `processPut` and `processAppend` (of all four servers).

## 7. Plan

Done, in this order: `Dispatcher` (the server's concurrency core), its proofs;
`JobQueue` against `FifoQueue`, with proofs; `FileHandlers`, with proofs of its
invariants; `RequestParser`; `Split`, with proofs; `SequentialServer` for the first two
servers; `UnlockedHandlers` for the third beside the fourth; `Shutdown`, against
`AtomicStore`; `ServerPool`, in which a handler need not return.

Proofs, done: all safety invariants of all components, the two refinements, and that
the pool of workers has no deadlock.

Next:

1. Of each loop that ends, a measure that every turn makes smaller, as an action
   property: the part of `GetsEndUnlessCut`, `UploadsEndIfSent` and `Terminates` that is
   not about fairness.
2. `SerialLog` with GETs that overlap no upload of their path.
3. For `RequestParser` what is done with a request beyond the buffer's end: that
   `LengthsAddUp` with `StoredWhole` gives the length of the file that a client asked for.
