--------------------------- MODULE RequestParser ---------------------------
(***************************************************************************)
(* From the bytes of a connection to a request: the receive loop of         *)
(* handle_connection in asgn4 (asgn3 has the same) and the checks of        *)
(* RequestSyntax.  The network delivers a client's bytes in segments of any *)
(* size, and the connection may be reset.                                   *)
(***************************************************************************)
EXTENDS RequestSyntax

CONSTANTS
  Stream,          \* what clients may send: a set of sequences of parts
  Waiting,         \* may a client keep its side open until it is answered?
  MAXLENGTH        \* the size of the receive buffer, in parts

\* The empty line that ends the head of a request, 0 if there is none.
HeadEnd(s) == BlankAfter(s, Start(s))

ASSUME ParserAssumption ==
  /\ MAXLENGTH \in Nat \ {0}
  /\ Waiting \in BOOLEAN
  /\ Stream \subseteq Seq(Part)
  \* The header fits in the buffer.
  /\ \A s \in Stream : (IF HeadEnd(s) = 0 THEN Len(s) ELSE HeadEnd(s)) <= MAXLENGTH

VARIABLES
  stream,          \* what the client sends
  patient,         \* does it wait for the answer before it closes its side?
  sent,            \* how many parts it has sent
  closed,          \* has it closed its sending side?
  reset,           \* has a recv() failed, because the connection was reset?
  pc,              \* where the worker is
  reqString,       \* what the worker has received
  outcome          \* what it does with the request

vars == <<stream, patient, sent, closed, reset, pc, reqString, outcome>>

-----------------------------------------------------------------------------
ClientSends ==
  /\ \E n \in (sent + 1)..Len(stream) : sent' = n
  /\ UNCHANGED <<stream, patient, closed, reset, pc, reqString, outcome>>

\* shutdown() or close() of the client's side, by a patient client when it has
\* seen the worker's answer or the end of the connection.
ClientCloses ==
  /\ ~closed /\ sent = Len(stream)
  /\ patient => pc = "done"
  /\ closed' = TRUE
  /\ UNCHANGED <<stream, patient, sent, reset, pc, reqString, outcome>>

\* Mutant: each recv() writes at the start of the buffer, as in asgn1 and asgn2.
ReceivedMutant(old, chunk) == chunk

Received(old, chunk) == old \o chunk

\* The sum of what recv() returned, its -1 included: nothing tests for it.
initialReqRead == Len(reqString) - (IF reset THEN 1 ELSE 0)

RoomLeft == initialReqRead < MAXLENGTH

\* recv() returns some of what has arrived, at most what the buffer can take.
Receive ==
  /\ pc = "recv" /\ RoomLeft /\ ~reset
  /\ \E n \in (Len(reqString) + 1)..sent :
       /\ n <= MAXLENGTH
       /\ reqString' = Received(reqString, SubSeq(stream, Len(reqString) + 1, n))
  /\ UNCHANGED <<stream, patient, sent, closed, reset, pc, outcome>>

\* The connection is reset: recv() returns -1 once, and 0 from then on.
ReceiveFails ==
  /\ pc = "recv" /\ RoomLeft /\ ~reset /\ ~closed
  /\ reset' = TRUE
  /\ UNCHANGED <<stream, patient, sent, closed, pc, reqString, outcome>>

\* Mutant: the end of the stream does not leave the loop.
EndsLoopMutant == ~RoomLeft

\* recv() returns 0, or the buffer is full.
EndsLoop == ~RoomLeft \/ reset \/ (closed /\ Len(reqString) = sent)

\* The loop is left, and the request is checked and answered or handed on.
Parse ==
  /\ pc = "recv" /\ EndsLoop
  /\ pc' = "done"
  /\ outcome' = Checked(reqString, initialReqRead)
  /\ UNCHANGED <<stream, patient, sent, closed, reset, reqString>>

Init ==
  /\ stream \in Stream
  /\ patient \in {FALSE, Waiting}
  /\ sent = 0
  /\ closed = FALSE
  /\ reset = FALSE
  /\ pc = "recv"
  /\ reqString = <<>>
  /\ outcome = NoAnswer

Next == ClientSends \/ ClientCloses \/ Receive \/ ReceiveFails \/ Parse

Spec == Init /\ [][Next]_vars

\* The worker runs when it can; the client sends all it has, and closes in the end
\* unless it is waiting for the answer.
FairSpec ==
  /\ Spec
  /\ WF_vars(Receive \/ Parse)
  /\ WF_vars(ClientSends) /\ WF_vars(ClientCloses)

-----------------------------------------------------------------------------
(* Properties.                                                             *)

\* Types; the buffer holds what was sent, in order and no more than fits.
TypeOK ==
  /\ stream \in Stream
  /\ patient \in BOOLEAN /\ closed \in BOOLEAN /\ reset \in BOOLEAN
  /\ sent \in 0..Len(stream)
  /\ pc \in {"recv", "done"}
  /\ Len(reqString) <= MAXLENGTH /\ Len(reqString) <= sent
  /\ reqString = SubSeq(stream, 1, Len(reqString))

\* The head of a request, and its body.
RequestHead ==
  IF HeadEnd(stream) = 0 THEN stream ELSE SubSeq(stream, 1, HeadEnd(stream) - 1)
RequestBody == SubSeq(stream, Len(RequestHead) + 2, Len(stream))
PlainBody == \A i \in 1..Len(RequestBody) : RequestBody[i] = Byte

\* The places of the headers of a kind in the head, and the first of these headers.
HeaderPlaces(kind) == {i \in 1..Len(RequestHead) : RequestHead[i].kind = kind}
FirstHeader(kind) == RequestHead[Min(HeaderPlaces(kind))]

\* The reference: what the READMEs say of each kind of request, from the whole
\* stream and not from what one recv() returned.  400 for a malformed one, 501 for a
\* method that is none of the three, otherwise the request with its first
\* Request-Id, or 0, and its first Content-Length.
Empty == Start(stream) = 0
RequestLine == stream[Start(stream)]
Asks(m) == ~Empty /\ RequestLine = Line(m)

IsUpload == Asks("PUT") \/ Asks("APPEND")

\* A well-formed Content-Length, and an end of the head.
Announced ==
  /\ IsUpload
  /\ Len(RequestHead) < Len(stream)
  /\ HeaderPlaces("length") # {}
  /\ FirstHeader("length").form = "plain"

\* None of the body is in the buffer, which is full with the head or has all there is.
BodyUnseen == RequestBody = <<>> \/ Len(RequestHead) + 1 = MAXLENGTH

ExpectedId ==
  IF HeaderPlaces("id") = {} \/ FirstHeader("id").glued THEN 0
  ELSE FirstHeader("id").value

\* Each request gets the answer of its kind however the network cuts it into
\* segments, provided that the connection lives, that its body does not look like a
\* header and that its numbers fit.  Nothing is said of an upload of length 0 of whose
\* body the buffer has no byte: it should be answered as well, and is not.
AnswerFollowsRequest ==
  pc = "done" /\ PlainBody /\ ~reset =>
    /\ Empty \/ Asks("bad") \/ (IsUpload /\ ~Announced) =>
         outcome = Refuse(RES_BAD_REQUEST)
    /\ ~Empty /\ RequestLine.kind # "line" => outcome.act = "refuse"
    /\ Asks("other") => outcome = Refuse(RES_NOT_IMPL)
    /\ Asks("GET") =>
         outcome.act = "get" /\ (ExpectedId <= INT_MAX => outcome.id = ExpectedId)
    /\ Announced /\ FirstHeader("length").value \in
                     (IF BodyUnseen THEN 1..INT_MAX ELSE 0..INT_MAX) =>
         /\ outcome.act = "upload"
         /\ outcome.method = RequestLine.method
         /\ outcome.contLen = FirstHeader("length").value
         /\ ExpectedId <= INT_MAX => outcome.id = ExpectedId

\* The lengths handed to the processing functions are sane for whatever was sent:
\* the announced length is the header's, modulo the size of an int, and not negative;
\* the body's bytes are those in the buffer and those still to come, but for the one
\* that a reset connection costs.  The server goes down only for an upload of which
\* a reset left the head and not a byte of its body.
LengthsAddUp ==
  LET announced == stream[First(stream, "length")].value
      body == BlankAfter(stream, First(stream, "length"))
      unread == Len(stream) - Len(reqString)
      lost == IF reset THEN 1 ELSE 0
  IN /\ outcome.act = "upload" =>
          /\ outcome.contLen \in 0..INT_MAX
          /\ (announced - outcome.contLen) % (2 * (INT_MAX + 1)) = 0
          /\ announced <= INT_MAX => outcome.contLen = announced
          /\ outcome.bodyVal \in 0..MAXLENGTH
          /\ outcome.bodyVal + lost + unread = Len(stream) - body
          /\ outcome.contLen > 0 \/ outcome.bodyVal > 0
     /\ outcome.act = "crash" => reset /\ Len(reqString) = body

\* A request is parsed in the end if the client closes its side or fills the buffer,
\* wherever the connection is reset.
RequestsParsed == ~patient \/ Len(stream) >= MAXLENGTH ~> pc = "done"

-----------------------------------------------------------------------------
(* What the documentation says and the code does not do.                   *)

\* asgn4/README.md:12-13: "Each thread parses the request and transmits a response
\* to the client"; curl, which waits for it, is among the test commands of line 127.
EveryRequestParsed == <>(pc = "done")
=============================================================================
