------------------------ MODULE SequentialServer_proofs ------------------------
(***************************************************************************)
(* Proofs about SequentialServer: for all clients, requests, paths and      *)
(* buffer sizes, and any number of restarts.                                *)
(***************************************************************************)
EXTENDS SequentialServer, TLAPS, SequenceTheorems, WellFoundedInduction

-----------------------------------------------------------------------------
(* The first part of a kind.                                               *)

LEMMA MinimalElement ==
  ASSUME NEW T, T \subseteq Nat, T # {}, NEW R, IsWellFoundedOn(R, Nat)
  PROVE  \E x \in T : \A y \in T : <<y, x>> \notin R
<1>1. ASSUME NEW U
      PROVE  T \subseteq U /\ IsWellFoundedOn(R, U) => \E x \in T : \A y \in T : <<y, x>> \notin R
      BY WFMin
<1> QED BY <1>1

LEMMA MinimalIsLeast ==
  ASSUME NEW T, T \subseteq Nat, T # {}, NEW R, IsWellFoundedOn(R, Nat),
         \A x, y \in Nat : x < y => <<x, y>> \in R
  PROVE  \E x \in T : \A y \in T : x <= y
<1>1. PICK x \in T : \A y \in T : <<y, x>> \notin R
      BY MinimalElement
<1>2. \A y \in T : ~(y < x)
      BY <1>1
<1> QED BY <1>2

\* Every set of natural numbers has a least element.
LEMMA LeastNumber ==
  ASSUME NEW T, T \subseteq Nat, T # {}
  PROVE  Min(T) \in T /\ \A y \in T : Min(T) <= y
<1>1. \A x, y \in Nat : x < y => <<x, y>> \in OpToRel(<, Nat)
      BY DEF OpToRel
<1>2. \E x \in T : \A y \in T : x <= y
      BY <1>1, MinimalIsLeast, NatLessThanWellFounded, Zenon
<1> QED BY <1>2 DEF Min

\* strstr() for a header.
LEMMA FirstFacts ==
  ASSUME NEW s, Len(s) \in Nat, NEW kind
  PROVE  /\ First(s, kind) \in 0..Len(s)
         /\ First(s, kind) = 0 => \A i \in 1..Len(s) : s[i].kind # kind
         /\ First(s, kind) # 0 =>
              /\ s[First(s, kind)].kind = kind
              /\ \A i \in 1..Len(s) : s[i].kind = kind => First(s, kind) <= i
<1> DEFINE I == {i \in 1..Len(s) : s[i].kind = kind}
<1>1. First(s, kind) = IF I # {} THEN Min(I) ELSE 0
      BY DEF First, SelectInSeq
<1>2. CASE I # {}
  <2>1. I \subseteq Nat
        OBVIOUS
  <2>2. Min(I) \in I /\ \A y \in I : Min(I) <= y
    <3> HIDE DEF I
    <3> QED BY <1>2, <2>1, LeastNumber
  <2> QED BY <1>1, <1>2, <2>2
<1>3. CASE I = {}
      BY <1>1, <1>3
<1> QED BY <1>2, <1>3

\* Where the first word is.
LEMMA StartFacts ==
  ASSUME NEW s, Len(s) \in Nat
  PROVE  /\ Start(s) \in 0..Len(s)
         /\ Start(s) = 0 => \A i \in 1..Len(s) : s[i].kind = "blank"
         /\ Start(s) # 0 =>
              /\ s[Start(s)].kind # "blank"
              /\ \A i \in 1..Len(s) : s[i].kind # "blank" => Start(s) <= i
<1> DEFINE I == {i \in 1..Len(s) : s[i].kind # "blank"}
<1>1. Start(s) = IF I # {} THEN Min(I) ELSE 0
      BY DEF Start, SelectInSeq
<1>2. CASE I # {}
  <2>1. I \subseteq Nat
        OBVIOUS
  <2>2. Min(I) \in I /\ \A y \in I : Min(I) <= y
    <3> HIDE DEF I
    <3> QED BY <1>2, <2>1, LeastNumber
  <2> QED BY <1>1, <1>2, <2>2
<1>3. CASE I = {}
      BY <1>1, <1>3
<1> QED BY <1>2, <1>3

\* strstr() for the empty line behind it.
LEMMA BlankAfterFacts ==
  ASSUME NEW s, Len(s) \in Nat, NEW k \in Nat
  PROVE  /\ BlankAfter(s, k) \in {0} \cup ((k + 1)..Len(s))
         /\ BlankAfter(s, k) = 0 => \A i \in (k + 1)..Len(s) : s[i].kind # "blank"
         /\ BlankAfter(s, k) # 0 =>
              /\ s[BlankAfter(s, k)].kind = "blank"
              /\ \A i \in (k + 1)..Len(s) : s[i].kind = "blank" => BlankAfter(s, k) <= i
<1> DEFINE I == {i \in (k + 1)..Len(s) : s[i].kind = "blank"}
<1>1. BlankAfter(s, k) = IF I # {} THEN Min(I) ELSE 0
      BY DEF BlankAfter, SelectInSubSeq
<1>2. CASE I # {}
  <2>1. I \subseteq Nat
        OBVIOUS
  <2>2. Min(I) \in I /\ \A y \in I : Min(I) <= y
    <3> HIDE DEF I
    <3> QED BY <1>2, <2>1, LeastNumber
  <2> QED BY <1>1, <1>2, <2>2
<1> QED BY <1>1, <1>2

LEMMA AtoiInt ==
  ASSUME NEW n \in Nat
  PROVE  Atoi(n) \in Int /\ Atoi(n) <= n
<1> DEFINE M == 2 * (INT_MAX + 1)
           long == IF n <= LONG_MAX THEN n ELSE LONG_MAX
<1>1. INT_MAX \in Nat /\ LONG_MAX \in Nat /\ M \in Nat \ {0} /\ long \in Nat /\ long <= n
      BY NumbersAssumption
<1>2. Atoi(n) = IF long % M <= INT_MAX THEN long % M ELSE (long % M) - M
      BY DEF Atoi
<1> HIDE DEF M, long
<1>3. long % M \in 0..(M - 1) /\ long % M <= long
      BY <1>1
<1> QED BY <1>1, <1>2, <1>3

LEMMA RequestIdInt ==
  ASSUME NEW s \in Seq(Part)
  PROVE  requestIdNum(s) \in Int
<1> DEFINE i == First(s, "id")
<1>1. Len(s) \in Nat
      BY LenProperties
<1>2. CASE i = 0
      BY <1>2 DEF requestIdNum
<1>3. CASE i # 0
  <2>1. i \in 1..Len(s) /\ s[i].kind = "id"
        BY <1>1, <1>3, FirstFacts
  <2>2. s[i] \in Part
        BY <2>1, ElementOfSeq
  <2>3. s[i].value \in Nat
        BY <2>1, <2>2 DEF Part
  <2> QED BY <2>3, AtoiInt DEF requestIdNum
<1> QED BY <1>2, <1>3

-----------------------------------------------------------------------------
(* What the checks give.                                                   *)

Refusal == [act : {"refuse"}, code : {RES_BAD_REQUEST, RES_NOT_IMPL}]

UploadJob ==
  [act : {"upload"}, method : {"PUT", "APPEND"}, id : Int, contLen : Nat, bodyVal : Nat,
   totalBodyLeft : Int]

\* The ways to leave the checks, and what is known of the buffer in each.
LEMMA CheckedFacts ==
  ASSUME NEW s \in Seq(Part), NEW n \in Nat, NEW o, o = Checked(s, n)
  PROVE  \/ o \in Refusal
         \/ o.act = "get" /\ o = [act |-> "get", id |-> requestIdNum(s)] /\ method(s) = "GET"
         \/ /\ o = NoAnswer /\ contentLengthInt(s) = 0
            /\ method(s) \in {"PUT", "APPEND"} /\ GoodLength(s)
         \/ o = Crash /\ n < beforeBody(s) /\ beforeBody(s) <= Len(s) /\ GoodLength(s)
         \/ /\ o.act = "upload" /\ o = Upload(s, n) /\ o \in UploadJob
            /\ o.bodyVal = n - beforeBody(s) /\ o.bodyVal < n
            /\ method(s) = o.method /\ GoodLength(s)
<1>1. Len(s) \in Nat /\ requestIdNum(s) \in Int
      BY LenProperties, RequestIdInt
<1>2. CASE ~GoodLine(s)
      BY <1>2 DEF Checked, Refuse, Refusal, GoodLine
<1>3. CASE GoodLine(s) /\ ~Implemented(s)
      BY <1>3 DEF Checked, Refuse, Refusal, Implemented
<1>4. CASE method(s) = "GET"
      BY <1>4 DEF Checked, Get, Implemented, GoodLine
<1>5. CASE GoodLine(s) /\ Implemented(s) /\ method(s) # "GET"
  <2>1. o = IF ~GoodLength(s) THEN Refuse(RES_BAD_REQUEST)
            ELSE IF bodyVal(s, n) < 0 THEN Crash
            ELSE IF contentLengthInt(s) = 0 /\ bodyVal(s, n) = 0 THEN NoAnswer
            ELSE Upload(s, n)
        BY <1>5 DEF Checked
  <2>2. CASE ~GoodLength(s)
        BY <2>1, <2>2 DEF Refuse, Refusal
  <2>3. CASE GoodLength(s)
    <3> DEFINE i == First(s, "length")
    <3>1. i \in 1..Len(s) /\ s[i].kind = "length" /\ Atoi(s[i].value) >= 0
          BY <1>1, <2>3, FirstFacts DEF GoodLength
    <3>2. s[i] \in Part
          BY <3>1, ElementOfSeq
    <3>3. s[i].value \in Nat
          BY <3>1, <3>2 DEF Part
    <3>4. contentLengthInt(s) \in Nat
          BY <3>1, <3>3, AtoiInt DEF contentLengthInt
    <3>5. beforeBody(s) \in 1..Len(s)
          BY <1>1, <2>3, <3>1, BlankAfterFacts DEF beforeBody, GoodLength
    <3>6. bodyVal(s, n) = n - beforeBody(s) /\ bodyVal(s, n) \in Int /\ bodyVal(s, n) < n
          BY <3>5 DEF bodyVal
    <3>7. method(s) \in {"PUT", "APPEND"}
          BY <1>5 DEF Implemented
    <3>8. CASE bodyVal(s, n) < 0
          BY <2>1, <2>3, <3>5, <3>6, <3>8
    <3>9. CASE bodyVal(s, n) >= 0 /\ contentLengthInt(s) = 0 /\ bodyVal(s, n) = 0
          BY <2>1, <2>3, <3>7, <3>9
    <3>10. CASE bodyVal(s, n) >= 0 /\ ~(contentLengthInt(s) = 0 /\ bodyVal(s, n) = 0)
      <4>1. o = Upload(s, n)
            BY <2>1, <2>3, <3>6, <3>10
      <4>2. /\ o.act = "upload" /\ o.bodyVal = bodyVal(s, n) /\ o.method = method(s)
            /\ o \in UploadJob
            BY <1>1, <3>4, <3>6, <3>7, <3>10, <4>1 DEF Upload, UploadJob
      <4> QED BY <2>3, <3>6, <4>1, <4>2
    <3> QED BY <3>6, <3>8, <3>9, <3>10
  <2> QED BY <2>2, <2>3
<1> QED BY <1>2, <1>3, <1>4, <1>5

-----------------------------------------------------------------------------
(* What one recv() returns, and what is in the buffer then.                *)

LEMMA TornFacts ==
  ASSUME NEW p \in Part
  PROVE  /\ Torn(p) \in Part
         /\ p.kind = "line" => Torn(p) = Line("bad")
         /\ p.kind = "id" => Torn(p) = RequestId(p.value \div 2, p.glued)
         /\ p.kind \in {"length", "header", "blank"} => Torn(p) = Header
         /\ p.kind = "byte" => Torn(p) = p
         /\ p.kind \in {"line", "id", "length", "header", "blank", "byte"}
<1>1. p.kind \in {"line", "id", "length", "header", "blank", "byte"}
      BY DEF Part
<1>2. CASE p.kind = "line"
      BY <1>2 DEF Torn, Line, Part, Method
<1>3. CASE p.kind = "id"
  <2>1. p.value \in Nat /\ p.glued \in BOOLEAN
        BY <1>3 DEF Part
  <2>2. p.value \div 2 \in Nat
        BY <2>1
  <2>3. Torn(p) = RequestId(p.value \div 2, p.glued)
        BY <1>3 DEF Torn
  <2>4. RequestId(p.value \div 2, p.glued) \in Part
        BY <2>1, <2>2 DEF RequestId, Part
  <2> QED BY <1>3, <2>3, <2>4
<1>4. CASE p.kind \in {"length", "header", "blank"}
      BY <1>4 DEF Torn, Header, Part
<1>5. CASE p.kind = "byte"
      BY <1>5 DEF Torn
<1> QED BY <1>1, <1>2, <1>3, <1>4, <1>5

Segment(n) == SubSeq(parts, got + 1, got + n)

\* One recv(): n parts, s is what stands for them in the buffer and r what is left of
\* the old ones.
Arrived(n, s, r) ==
  /\ n \in 1..MAXLENGTH /\ got + n <= Len(parts)
  /\ s \in Received(Segment(n), reqString) \cup OverOldLine(Segment(n), reqString)
  /\ r \in Rests(reqString)

LEMMA SegmentFacts ==
  ASSUME parts \in Seq(Part), got \in 0..Len(parts), NEW n \in 1..MAXLENGTH,
         got + n <= Len(parts)
  PROVE  /\ n \in Nat /\ n \in 1..(Len(parts) - got)
         /\ Segment(n) \in Seq(Part) /\ Len(Segment(n)) = n
         /\ \A i \in 1..n : Segment(n)[i] = parts[got + i] /\ parts[got + i] \in Part
<1>1. Len(parts) \in Nat /\ got \in Nat /\ MAXLENGTH \in Nat /\ n \in Nat /\ n >= 1
      BY LenProperties, ServerAssumption
<1>2. \A i \in (got + 1)..(got + n) : parts[i] \in Part
  <2>1. \A i \in (got + 1)..(got + n) : i \in 1..Len(parts)
        BY <1>1
  <2> QED BY <2>1, ElementOfSeq
<1>3. got + 1 \in Int /\ got + n \in Int /\ (got + n) - (got + 1) + 1 = n
      BY <1>1
<1>4. /\ Len(Segment(n)) = n /\ Segment(n) \in Seq(Part)
      /\ \A i \in 1..n : Segment(n)[i] = parts[(got + 1) + i - 1]
      BY <1>1, <1>2, <1>3, SubSeqProperties DEF Segment
<1>5. \A i \in 1..n : (got + 1) + i - 1 = got + i /\ got + i \in (got + 1)..(got + n)
      BY <1>1
<1> QED BY <1>1, <1>2, <1>4, <1>5

\* Only the last part may be another than what came.
LEMMA ReceivedFacts ==
  ASSUME NEW next \in Seq(Part), next # <<>>, NEW old, NEW s \in Received(next, old)
  PROVE  /\ s \in Seq(Part) /\ Len(s) = Len(next)
         /\ \A i \in 1..Len(next) : i # Len(next) => s[i] = next[i]
         /\ old = <<>> => s[Len(next)] \in {next[Len(next)], Torn(next[Len(next)])}
<1>1. Len(next) \in Nat /\ Len(next) \in 1..Len(next)
  <2>1. Len(next) \in Nat /\ Len(next) # 0
        BY LenProperties, EmptySeq
  <2> QED BY <2>1
<1>2. next[Len(next)] \in Part
      BY <1>1, ElementOfSeq
<1>3. Torn(next[Len(next)]) \in Part
      BY <1>2, TornFacts
<1>4. ASSUME NEW p \in Part
      PROVE  /\ [next EXCEPT ![Len(next)] = p] \in Seq(Part)
             /\ Len([next EXCEPT ![Len(next)] = p]) = Len(next)
             /\ [next EXCEPT ![Len(next)] = p][Len(next)] = p
             /\ \A i \in 1..Len(next) : i # Len(next) =>
                  [next EXCEPT ![Len(next)] = p][i] = next[i]
      BY <1>1, ExceptSeq
<1>5. CASE s = next
      BY <1>5
<1>6. CASE s = [next EXCEPT ![Len(next)] = Torn(next[Len(next)])]
      BY <1>3, <1>4, <1>6
<1>7. CASE old # <<>> /\ \E p \in Mixed : s = [next EXCEPT ![Len(next)] = p]
  <2>1. PICK p \in Mixed : s = [next EXCEPT ![Len(next)] = p]
        BY <1>7
  <2>2. p \in Part
        BY ServerAssumption
  <2> QED BY <1>4, <1>7, <2>1, <2>2
<1> QED BY <1>5, <1>6, <1>7 DEF Received

LEMMA OverOldLineFacts ==
  ASSUME NEW next \in Seq(Part), next # <<>>, NEW old, NEW s \in OverOldLine(next, old)
  PROVE  s \in Seq(Part) /\ Len(s) = Len(next)
<1>1. PICK m \in Method : s = [i \in 1..Len(next) |-> IF i = 1 THEN Line(m) ELSE Header]
      BY DEF OverOldLine
<1>2. Len(next) \in Nat
      BY LenProperties
<1>3. Line(m) \in Part /\ Header \in Part
      BY DEF Line, Header, Part
<1>4. \A i \in 1..Len(next) : (IF i = 1 THEN Line(m) ELSE Header) \in Part
      BY <1>3
<1> QED BY <1>1, <1>2, <1>4

LEMMA RestsFacts ==
  ASSUME NEW old \in Seq(Part), NEW r \in Rests(old)
  PROVE  r \in Seq(Part) /\ (old = <<>> => r = <<>>)
<1>1. Len(old) \in Nat
      BY LenProperties
<1>2. \A i \in 2..(Len(old) + 1) : SubSeq(old, i, Len(old)) \in Seq(Part)
  <2> TAKE i \in 2..(Len(old) + 1)
  <2>1. i \in Int /\ \A j \in i..Len(old) : old[j] \in Part
    <3>1. \A j \in i..Len(old) : j \in 1..Len(old)
          BY <1>1
    <3> QED BY <3>1, ElementOfSeq
  <2> QED BY <1>1, <2>1, SubSeqProperties
<1>3. ASSUME NEW t \in Seq(Part) PROVE <<Blank>> \o t \in Seq(Part)
  <2>1. <<Blank>> \in Seq(Part)
        BY DEF Blank, Part
  <2> QED BY <2>1, ConcatProperties
<1>4. CASE r = <<>>
      BY <1>4
<1>5. CASE \E i \in 2..(Len(old) + 1) :
             r = SubSeq(old, i, Len(old)) \/ r = <<Blank>> \o SubSeq(old, i, Len(old))
  <2>1. PICK i \in 2..(Len(old) + 1) :
             r = SubSeq(old, i, Len(old)) \/ r = <<Blank>> \o SubSeq(old, i, Len(old))
        BY <1>5
  <2>2. SubSeq(old, i, Len(old)) \in Seq(Part) /\ old # <<>>
        BY <1>1, <1>2
  <2> QED BY <1>3, <2>1, <2>2
<1> QED BY <1>4, <1>5 DEF Rests

-----------------------------------------------------------------------------
(* Types, and what the local variables are where.                          *)

Codes == {RES_OK, RES_CREATED, RES_BAD_REQUEST, RES_FORBIDDEN, RES_NOT_FOUND,
          RES_INTERNAL_SE, RES_NOT_IMPL}

Stored == Seq(Client \X Nat)

GetJob == [act : {"get"}, id : Int, file : File]

OpenJob ==
  [act : {"upload"}, method : {"PUT", "APPEND"}, id : Int, file : File, contLen : Nat,
   bodyVal : Nat]

StoreJob ==
  [act : {"stores"}, method : {"PUT", "APPEND"}, file : File, contLen : Nat, bodyVal : Nat,
   from : Nat, total : Nat, id : Int, old : Stored, code : {RES_OK, RES_CREATED}]

\* The parsed request; the upload, whose file is there, and what was received of it;
\* the number for the log.
Working ==
  /\ pc = "accept" => got = 0 /\ ~again
  /\ pc = "open" =>
       \/ job \in GetJob
       \/ job \in OpenJob /\ job.bodyVal <= got
  /\ pc \in {"send", "spin"} => job \in GetJob
  /\ pc = "send" => answers[conn] # <<>>
  /\ pc \in {"first", "body", "done"} =>
       /\ job \in StoreJob /\ job.from + job.bodyVal + job.total = got
       /\ files[file] \in Stored
  /\ pc = "log" => job.id \in Int /\ answers[conn] # <<>>

Typing == TypeOK /\ Working

\* The server has a connection.
LEMMA Connected ==
  ASSUME Typing, pc \notin {"accept", "down"}
  PROVE  /\ conn \in Client /\ request[conn] \in RequestType
         /\ parts \in Seq(Part) /\ Len(parts) \in Nat /\ got \in 0..Len(parts)
         /\ pc \in {"open", "send", "spin", "first", "body", "done"} =>
              file \in File /\ files[file] \in {Absent} \cup Stored
         /\ answers[conn] \in Seq(Codes)
<1>1. conn \in Client
      BY DEF Typing, TypeOK
<1>2. request[conn] \in RequestType
      BY <1>1, ServerAssumption DEF Typing, TypeOK
<1>3. parts \in Seq(Part)
      BY <1>2 DEF RequestType, parts
<1>4. conn # Nobody
      BY <1>1, ServerAssumption
<1>5. pc \in {"open", "send", "spin", "first", "body", "done"} => file \in File
      BY DEF Typing, Working, file, GetJob, OpenJob, StoreJob
<1> QED BY <1>1, <1>2, <1>3, <1>4, <1>5, LenProperties DEF Typing, TypeOK, Stored, Codes

LEMMA AnswerTypes ==
  ASSUME Typing, pc \notin {"accept", "down"}, NEW codes \in Seq(Codes), Answer(codes)
  PROVE  /\ answers' \in [Client -> Seq(Codes)]
         /\ answers'[conn] = answers[conn] \o codes
         /\ \A c \in Client : c # conn => answers'[c] = answers[c]
<1>1. conn \in Client /\ answers[conn] \in Seq(Codes)
      BY Connected
<1>2. answers[conn] \o codes \in Seq(Codes)
      BY <1>1, ConcatProperties
<1> QED BY <1>1, <1>2 DEF Answer, Typing, TypeOK, Codes

LEMMA CodesTypes ==
  /\ <<>> \in Seq(Codes)
  /\ \A c \in Codes : <<c>> \in Seq(Codes) /\ Head(<<c>>) = c /\ Len(<<c>>) = 1
  /\ \A c, d \in Codes : <<c, d>> \in Seq(Codes) /\ Head(<<c, d>>) = c /\ Len(<<c, d>>) = 2
OBVIOUS

LEMMA InitTyping == Init => Typing
<1> SUFFICES ASSUME Init PROVE Typing
    OBVIOUS
<1>1. Nobody \notin Client /\ MaxRestarts \in Nat /\ Asgn \subseteq {1, 2}
      BY ServerAssumption
<1>2. files \in [File -> {Absent} \cup Seq(Client \X Nat)]
      BY DEF Init
<1>3. intact \in BOOLEAN /\ again \in BOOLEAN /\ ~again
      BY Zenon DEF Init
<1>4. job.act \in {"refuse", "get", "upload", "none", "crash", "stores"}
      BY DEF Init, NoAnswer
<1> QED BY <1>1, <1>2, <1>3, <1>4 DEF Init, Typing, TypeOK, Working, Codes

-----------------------------------------------------------------------------
(* Each step keeps the types.                                              *)

LEMMA AcceptTypes == Typing /\ Accept => Typing'
<1> SUFFICES ASSUME Typing, Accept PROVE Typing'
    OBVIOUS
<1>1. PICK c \in waiting :
        conn' = c /\ waiting' = waiting \ {c} /\ served' = Append(served, c)
      BY DEF Accept
<1>2. c \in Client /\ c # Nobody
      BY <1>1, ServerAssumption DEF Typing, TypeOK
<1>3. request[c] \in RequestType
      BY <1>2, ServerAssumption DEF Typing, TypeOK
<1>4. Len(request[c].parts) \in Nat
      BY <1>3, LenProperties DEF RequestType
<1>5. served' \in Seq(Client)
      BY <1>1, <1>2, AppendProperties DEF Typing, TypeOK
<1>6. reqString' \in Seq(Part)
      BY DEF Accept, NewBuffer1, NewBuffer2, Typing, TypeOK
<1>7. got = 0
      BY DEF Accept, Goto, Typing, Working
<1>8. pc' = "recv" /\ got' = 0
      /\ UNCHANGED <<asgn, request, job, files, answers, log, intact, again, restarts>>
      BY <1>7 DEF Accept, Goto
<1>9. got' \in 0..Len(parts')
      BY <1>1, <1>4, <1>8 DEF parts
<1> QED BY <1>1, <1>2, <1>5, <1>6, <1>7, <1>8, <1>9 DEF Typing, TypeOK, Working

LEMMA ReceiveStep ==
  ASSUME Typing, Receive
  PROVE  \E n, s, r, paths :
           /\ Arrived(n, s, r)
           /\ got' = got + n /\ reqString' = s \o r
           /\ Dispatch(IF asgn = 1 THEN Checked1(s \o r, n) ELSE Checked2(s \o r, n), paths)
           /\ paths = Paths(Segment(n), s \in OverOldLine(Segment(n), reqString))
           /\ paths \subseteq File
<1>1. PICK n, s, r :
        /\ Arrived(n, s, r) /\ got' = got + n /\ reqString' = s \o r
        /\ Dispatch(IF asgn = 1 THEN Checked1(s \o r, n) ELSE Checked2(s \o r, n),
                    Paths(Segment(n), s \in OverOldLine(Segment(n), reqString)))
      BY DEF Receive, Arrived, Segment
<1>2. pc = "recv" /\ request[conn].file \in File
      BY Connected DEF Receive, RequestType
<1>3. Paths(Segment(n), s \in OverOldLine(Segment(n), reqString)) \subseteq File
      BY <1>2 DEF Paths
<1> QED BY <1>1, <1>3

\* What is in the buffer, and what the checks make of it.
LEMMA ArrivedFacts ==
  ASSUME Typing, pc = "recv", NEW n, NEW s, NEW r, Arrived(n, s, r),
         NEW o, o = IF asgn = 1 THEN Checked1(s \o r, n) ELSE Checked2(s \o r, n)
  PROVE  /\ n \in Nat /\ n \in 1..(Len(parts) - got)
         /\ s \o r \in Seq(Part)
         /\ \/ o \in Refusal
            \/ o = [act |-> "get", id |-> o.id] /\ o.id \in Int
            \/ o = NoAnswer
            \/ o = Crash
            \/ o \in UploadJob /\ o.bodyVal < n
<1>1. /\ n \in Nat /\ n \in 1..(Len(parts) - got)
      /\ Segment(n) \in Seq(Part) /\ Len(Segment(n)) = n
      BY Connected, SegmentFacts DEF Arrived
<1>2. Segment(n) # <<>>
      BY <1>1
<1>3. reqString \in Seq(Part)
      BY DEF Typing, TypeOK
<1>4. s \in Seq(Part) /\ r \in Seq(Part)
      BY <1>1, <1>2, <1>3, ReceivedFacts, OverOldLineFacts, RestsFacts DEF Arrived
<1>5. s \o r \in Seq(Part)
      BY <1>4, ConcatProperties
<1> DEFINE b == s \o r
           u == Checked(b, n)
<1> HIDE DEF b
<1>6. requestIdNum(b) \in Int
      BY <1>5, RequestIdInt DEF b
<1>7. \/ u \in Refusal
      \/ u = [act |-> "get", id |-> requestIdNum(b)]
      \/ u = NoAnswer
      \/ u = Crash
      \/ u \in UploadJob /\ u.bodyVal < n
      BY <1>1, <1>5, CheckedFacts DEF b
<1>8. o = u \/ (u.act \in {"get", "upload"} /\ o = [u EXCEPT !.id = 0])
      BY DEF Checked1, Checked2, b
<1> HIDE DEF u
<1>9. CASE o = u
      BY <1>1, <1>5, <1>6, <1>7, <1>9
<1>10. CASE u.act \in {"get", "upload"} /\ o = [u EXCEPT !.id = 0]
  <2>1. CASE u = [act |-> "get", id |-> requestIdNum(b)]
        BY <1>1, <1>5, <1>10, <2>1
  <2>2. CASE u \in UploadJob /\ u.bodyVal < n
    <3>1. o \in UploadJob /\ o.bodyVal = u.bodyVal
          BY <1>10, <2>2 DEF UploadJob
    <3> QED BY <1>1, <1>5, <2>2, <3>1
  <2> QED BY <1>7, <1>10, <2>1, <2>2 DEF Refusal, NoAnswer, Crash
<1> QED BY <1>8, <1>9, <1>10

\* Where the parsed request leads.
LEMMA DispatchFacts ==
  ASSUME Typing, pc = "recv", NEW n, NEW s, NEW r, Arrived(n, s, r),
         NEW o, o = IF asgn = 1 THEN Checked1(s \o r, n) ELSE Checked2(s \o r, n),
         NEW paths \in SUBSET File, Dispatch(o, paths)
  PROVE  \/ /\ o \in Refusal /\ job' = o /\ pc' = "close" /\ Answer(<<o.code>>)
            /\ <<o.code>> \in Seq(Codes) /\ Len(<<o.code>>) = 1
         \/ o = NoAnswer /\ job' = o /\ pc' = (IF asgn = 1 THEN "swallow" ELSE "recv")
            /\ UNCHANGED answers
         \/ o = Crash /\ job' = o /\ pc' = "down" /\ UNCHANGED answers
         \/ /\ o.act \in {"get", "upload"} /\ pc' = "open" /\ UNCHANGED answers
            /\ \E f \in paths : f \in File /\ job' = Parsed(o, f)
            /\ job' \in GetJob \/ (job' \in OpenJob /\ job'.bodyVal < n)
<1>1. \/ o \in Refusal
      \/ o = [act |-> "get", id |-> o.id] /\ o.id \in Int
      \/ o = NoAnswer
      \/ o = Crash
      \/ o \in UploadJob /\ o.bodyVal < n
      BY ArrivedFacts
<1>2. CASE o \in Refusal
  <2>1. o.act = "refuse" /\ o.code \in {RES_BAD_REQUEST, RES_NOT_IMPL}
        BY <1>2 DEF Refusal
  <2>2. <<o.code>> \in Seq(Codes) /\ Len(<<o.code>>) = 1
        BY <2>1 DEF Codes
  <2> QED BY <1>2, <2>1, <2>2 DEF Dispatch
<1>3. CASE o = NoAnswer \/ o = Crash
      BY <1>3 DEF Dispatch, NoAnswer, Crash
<1>4. CASE (o = [act |-> "get", id |-> o.id] /\ o.id \in Int) \/ (o \in UploadJob /\ o.bodyVal < n)
  <2>1. o.act \in {"get", "upload"}
        BY <1>4 DEF UploadJob
  <2>2. pc' = "open" /\ UNCHANGED answers /\ \E f \in paths : job' = Parsed(o, f)
        BY <2>1 DEF Dispatch
  <2>3. PICK f \in paths : f \in File /\ job' = Parsed(o, f)
        BY <2>2
  <2>4. job' \in GetJob \/ (job' \in OpenJob /\ job'.bodyVal < n)
        BY <1>4, <2>3 DEF Parsed, GetJob, OpenJob, UploadJob
  <2> QED BY <2>1, <2>2, <2>3, <2>4
<1> QED BY <1>1, <1>2, <1>3, <1>4

LEMMA ReceiveTypes == Typing /\ Receive => Typing'
<1> SUFFICES ASSUME Typing, Receive PROVE Typing'
    OBVIOUS
<1>1. /\ pc = "recv"
      /\ UNCHANGED <<asgn, request, waiting, conn, files, log, served, intact, restarts>>
      BY DEF Receive
<1>2. again' \in BOOLEAN
  <2>1. again' = (got > 0)
        BY DEF Receive
  <2>2. CASE got > 0
        BY <2>1, <2>2
  <2>3. CASE ~(got > 0)
        BY <2>1, <2>3
  <2> QED BY <2>2, <2>3, Zenon
<1>3. PICK n, s, r, paths :
        /\ Arrived(n, s, r) /\ got' = got + n /\ reqString' = s \o r
        /\ Dispatch(IF asgn = 1 THEN Checked1(s \o r, n) ELSE Checked2(s \o r, n), paths)
        /\ paths \subseteq File
      BY ReceiveStep
<1> DEFINE o == IF asgn = 1 THEN Checked1(s \o r, n) ELSE Checked2(s \o r, n)
<1>4. /\ conn \in Client /\ conn # Nobody /\ Len(parts) \in Nat /\ got \in 0..Len(parts)
      BY <1>1, Connected, ServerAssumption
<1>5. n \in Nat /\ n \in 1..(Len(parts) - got) /\ s \o r \in Seq(Part)
      BY <1>1, <1>3, ArrivedFacts
<1>6. got' \in 0..Len(parts) /\ parts' = parts /\ n <= got'
      BY <1>1, <1>3, <1>4, <1>5 DEF parts
<1>7. \/ o \in Refusal /\ job' = o /\ pc' = "close" /\ answers' \in [Client -> Seq(Codes)]
      \/ o = NoAnswer /\ job' = o /\ pc' \in {"swallow", "recv"} /\ UNCHANGED answers
      \/ o = Crash /\ job' = o /\ pc' = "down" /\ UNCHANGED answers
      \/ /\ pc' = "open" /\ UNCHANGED answers
         /\ job' \in GetJob \/ (job' \in OpenJob /\ job'.bodyVal < n)
      BY <1>1, <1>3, DispatchFacts, AnswerTypes
<1> HIDE DEF o
<1>8. job'.act \in {"refuse", "get", "upload", "none", "crash", "stores"}
      BY <1>7 DEF Refusal, NoAnswer, Crash, GetJob, OpenJob
<1>9. TypeOK'
      BY <1>1, <1>2, <1>3, <1>4, <1>5, <1>6, <1>7, <1>8 DEF Typing, TypeOK, Codes
<1>10. Working'
      BY <1>4, <1>5, <1>6, <1>7 DEF Working, OpenJob
<1> QED BY <1>9, <1>10 DEF Typing

LEMMA FinishTypes ==
  ASSUME Typing, pc \notin {"accept", "down"}, job.id \in Int,
         NEW codes \in Seq(Codes), codes # <<>>, Finish(codes), UNCHANGED <<job, files>>
  PROVE  /\ Typing'
         /\ answers'[conn] = answers[conn] \o codes
         /\ \A c \in Client : c # conn => answers'[c] = answers[c]
<1>1. /\ answers' \in [Client -> Seq(Codes)]
      /\ answers'[conn] = answers[conn] \o codes
      /\ \A c \in Client : c # conn => answers'[c] = answers[c]
      BY AnswerTypes DEF Finish
<1>2. conn \in Client /\ conn # Nobody /\ answers[conn] \in Seq(Codes)
      BY Connected, ServerAssumption
<1>3. answers'[conn] # <<>>
      BY <1>1, <1>2, ConcatEqualIffEmpty
<1>4. /\ UNCHANGED <<asgn, request, waiting, conn, got, reqString, log, served, intact,
                     again, restarts, job, files>>
      /\ pc' \in {"log", "close"}
      BY DEF Finish, Return
<1>5. TypeOK'
      BY <1>1, <1>2, <1>4 DEF Typing, TypeOK, parts, Codes
<1>6. Working'
      BY <1>2, <1>3, <1>4 DEF Working
<1> QED BY <1>1, <1>5, <1>6 DEF Typing

LEMMA UnitsTypes ==
  ASSUME conn \in Client, NEW n \in Nat, NEW k \in Nat
  PROVE  /\ Units(n, k) \in Stored /\ Len(Units(n, k)) = k
         /\ \A i \in 1..k : Units(n, k)[i] = <<conn, n + i>>
<1>1. \A i \in 1..k : <<conn, n + i>> \in Client \X Nat
      OBVIOUS
<1> QED BY <1>1 DEF Units, Stored

\* The units of two pieces that follow each other are those of both.
LEMMA UnitsConcat ==
  ASSUME conn \in Client, NEW n \in Nat, NEW k \in Nat, NEW l \in Nat
  PROVE  Units(n, k) \o Units(n + k, l) = Units(n, k + l)
<1> DEFINE a == Units(n, k)
           b == Units(n + k, l)
           t == Units(n, k + l)
<1>1. n + k \in Nat /\ k + l \in Nat
      OBVIOUS
<1>2. /\ a \in Stored /\ Len(a) = k /\ \A i \in 1..k : a[i] = <<conn, n + i>>
      /\ b \in Stored /\ Len(b) = l /\ \A i \in 1..l : b[i] = <<conn, n + k + i>>
      /\ t \in Stored /\ Len(t) = k + l /\ \A i \in 1..(k + l) : t[i] = <<conn, n + i>>
      BY <1>1, UnitsTypes
<1> HIDE DEF a, b, t
<1>3. /\ a \o b \in Stored /\ Len(a \o b) = k + l
      /\ \A i \in 1..(k + l) : (a \o b)[i] = IF i <= k THEN a[i] ELSE b[i - k]
  <2>1. a \in Seq(Client \X Nat) /\ b \in Seq(Client \X Nat)
        BY <1>2 DEF Stored
  <2>2. /\ a \o b \in Seq(Client \X Nat)
        /\ Len(a \o b) = Len(a) + Len(b)
        /\ \A i \in 1..(Len(a) + Len(b)) : (a \o b)[i] = IF i <= Len(a) THEN a[i] ELSE b[i - Len(a)]
        BY <2>1, ConcatProperties, Zenon
  <2> QED BY <1>2, <2>2, Zenon DEF Stored
<1>4. ASSUME NEW i \in 1..(k + l) PROVE (a \o b)[i] = t[i]
  <2>1. CASE i <= k
    <3>1. i \in 1..k
          BY <2>1
    <3> QED BY <1>2, <1>3, <2>1, <3>1
  <2>2. CASE ~(i <= k)
    <3>1. i - k \in 1..l /\ n + k + (i - k) = n + i
          BY <2>2
    <3>2. (a \o b)[i] = <<conn, n + k + (i - k)>>
          BY <1>2, <1>3, <2>2, <3>1
    <3> QED BY <1>2, <3>1, <3>2
  <2> QED BY <2>1, <2>2
<1>5. a \o b = t
      BY <1>2, <1>3, <1>4, SeqEqual DEF Stored
<1> QED BY <1>5 DEF a, b, t

LEMMA StoredAssociative ==
  ASSUME NEW a \in Stored, NEW b \in Stored, NEW c \in Stored
  PROVE  (a \o b) \o c = a \o (b \o c)
<1> DEFINE S == Client \X Nat
<1>1. a \in Seq(S) /\ b \in Seq(S) /\ c \in Seq(S)
      BY DEF Stored
<1> HIDE DEF S
<1> QED BY <1>1, ConcatAssociative

LEMMA WriteTypes ==
  ASSUME Typing, pc \in {"first", "body"}, files[file] \in Stored,
         NEW n \in Nat, NEW k \in Nat, Write(n, k)
  PROVE  /\ files' \in [File -> {Absent} \cup Stored]
         /\ files'[file] \in Stored
         /\ intact' \in BOOLEAN /\ (intact' => intact)
         /\ intact' => files'[file] = files[file] \o Units(n, k)
<1>1. PICK stored \in 0..k :
        /\ files' = [files EXCEPT ![file] = @ \o Units(n, stored)]
        /\ intact' = (intact /\ stored = k)
      BY DEF Write
<1>2. conn \in Client /\ file \in File
      BY Connected
<1>3. stored \in Nat
      BY <1>1
<1>4. files[file] \o Units(n, stored) \in Stored
      BY <1>2, <1>3, UnitsTypes, ConcatProperties DEF Stored
<1>5. intact' \in BOOLEAN /\ (intact' => intact /\ stored = k)
      BY <1>1, Zenon
<1>6. files \in [File -> {Absent} \cup Stored]
      BY DEF Typing, TypeOK, Stored
<1>7. /\ files' \in [File -> {Absent} \cup Stored]
      /\ files'[file] = files[file] \o Units(n, stored)
      BY <1>1, <1>2, <1>4, <1>6
<1> QED BY <1>4, <1>5, <1>7

\* The steps from one chunk of a body to the next.
LEMMA StoringTypes ==
  ASSUME Typing, pc \in {"first", "body"}, pc' = "body",
         UNCHANGED <<asgn, request, waiting, conn, reqString, answers, log, served, again,
                     restarts>>,
         got' \in got..Len(parts), file' = file,
         files' \in [File -> {Absent} \cup Stored], files'[file] \in Stored,
         intact' \in BOOLEAN,
         job' \in StoreJob, job'.from + job'.bodyVal + job'.total = got'
  PROVE  Typing'
<1>1. conn \in Client /\ conn # Nobody /\ Len(parts) \in Nat /\ got \in 0..Len(parts)
      BY Connected, ServerAssumption
<1>2. parts' = parts
      BY DEF parts
<1>3. job'.act = "stores"
      BY DEF StoreJob
<1>4. got' \in 0..Len(parts')
      BY <1>1, <1>2
<1>5. TypeOK'
      BY <1>1, <1>3, <1>4 DEF Typing, TypeOK, Stored
<1> QED BY <1>2, <1>5 DEF Typing, Working

LEMMA WriteFirstTypes == Typing /\ WriteFirst => Typing'
<1> SUFFICES ASSUME Typing, WriteFirst PROVE Typing'
    OBVIOUS
<1>1. /\ pc = "first" /\ pc' = "body" /\ Write(job.from, job.bodyVal)
      /\ UNCHANGED <<asgn, request, waiting, conn, got, reqString, job, answers, log, served,
                     again, restarts>>
      BY DEF WriteFirst, Goto, FirstChunk
<1>2. /\ job \in StoreJob /\ job.from + job.bodyVal + job.total = got
      /\ files[file] \in Stored
      BY <1>1 DEF Typing, Working
<1>3. job.from \in Nat /\ job.bodyVal \in Nat
      BY <1>2 DEF StoreJob
<1>4. /\ files' \in [File -> {Absent} \cup Stored] /\ files'[file] \in Stored
      /\ intact' \in BOOLEAN
      BY <1>1, <1>2, <1>3, WriteTypes
<1>5. got' \in got..Len(parts) /\ file' = file
      BY <1>1, Connected DEF file
<1> QED BY <1>1, <1>2, <1>4, <1>5, StoringTypes

LEMMA StoreChunkTypes ==
  ASSUME Typing, StoreChunk
  PROVE  /\ Typing'
         /\ \E k \in 1..ChunkSize :
              /\ got' = got + k /\ job' = [job EXCEPT !.total = job.total + k]
              /\ Write(got, k)
<1>1. /\ pc = "body" /\ pc' = "body"
      /\ UNCHANGED <<asgn, request, waiting, conn, reqString, answers, log, served, again,
                     restarts>>
      BY DEF StoreChunk
<1>2. PICK k \in 1..ChunkSize :
        /\ got + k <= Len(parts) /\ got' = got + k
        /\ job' = [job EXCEPT !.total = job.total + k] /\ Write(got, k)
      BY DEF StoreChunk
<1>3. /\ job \in StoreJob /\ job.from + job.bodyVal + job.total = got
      /\ files[file] \in Stored /\ Len(parts) \in Nat /\ got \in Nat
      BY <1>1, Connected DEF Typing, Working
<1>4. k \in Nat
      BY <1>2, ServerAssumption DEF ChunkSize
<1>5. job' \in StoreJob /\ job'.from + job'.bodyVal + job'.total = got' /\ file' = file
  <2>1. job.total \in Nat /\ job.from \in Nat /\ job.bodyVal \in Nat
        BY <1>3 DEF StoreJob
  <2>2. \A x \in Nat, j \in StoreJob :
          /\ [j EXCEPT !.total = x] \in StoreJob /\ [j EXCEPT !.total = x].total = x
          /\ [j EXCEPT !.total = x].from = j.from /\ [j EXCEPT !.total = x].bodyVal = j.bodyVal
          /\ [j EXCEPT !.total = x].file = j.file
        BY DEF StoreJob
  <2>3. job.total + k \in Nat
        BY <1>4, <2>1
  <2>4. /\ job' \in StoreJob /\ job'.total = job.total + k
        /\ job'.from = job.from /\ job'.bodyVal = job.bodyVal /\ job'.file = job.file
        BY <1>2, <1>3, <2>2, <2>3
  <2> QED BY <1>2, <1>3, <1>4, <2>1, <2>4 DEF file
<1>6. /\ files' \in [File -> {Absent} \cup Stored] /\ files'[file] \in Stored
      /\ intact' \in BOOLEAN
      BY <1>1, <1>2, <1>3, <1>4, WriteTypes
<1>7. got' \in got..Len(parts)
      BY <1>2, <1>3, <1>4
<1> QED BY <1>1, <1>2, <1>5, <1>6, <1>7, StoringTypes

LEMMA PutOpensTypes == Typing /\ PutOpens => Typing'
<1> SUFFICES ASSUME Typing, PutOpens PROVE Typing'
    OBVIOUS
<1>1. /\ pc = "open" /\ pc' = "first" /\ IsPut
      /\ job' = OpenedJob(<<>>, IF files[file] = Absent THEN RES_CREATED ELSE RES_OK)
      /\ files' = [files EXCEPT ![file] = <<>>]
      /\ UNCHANGED <<asgn, request, waiting, conn, got, reqString, answers, log, served,
                     intact, again, restarts>>
      BY DEF PutOpens
<1>2. /\ conn \in Client /\ conn # Nobody /\ file \in File /\ got \in Nat
      BY <1>1, Connected, ServerAssumption
<1>3. job \in OpenJob /\ job.bodyVal <= got
      BY <1>1 DEF Typing, Working, IsPut, GetJob
<1>4. <<>> \in Stored
      BY DEF Stored
<1>5. files' \in [File -> {Absent} \cup Stored] /\ files'[file] = <<>>
      BY <1>1, <1>2, <1>4 DEF Typing, TypeOK, Stored
<1>6. job' \in StoreJob /\ job'.from + job'.bodyVal + job'.total = got
      BY <1>1, <1>2, <1>3, <1>4 DEF OpenedJob, StoreJob, OpenJob
<1>7. file' = file /\ parts' = parts
      BY <1>1 DEF file, parts, OpenedJob
<1>8. TypeOK'
      BY <1>1, <1>2, <1>5, <1>6, <1>7 DEF Typing, TypeOK, Stored, StoreJob
<1> QED BY <1>1, <1>4, <1>5, <1>6, <1>7, <1>8 DEF Typing, Working

LEMMA AppendOpensTypes == Typing /\ AppendOpens => Typing'
<1> SUFFICES ASSUME Typing, AppendOpens PROVE Typing'
    OBVIOUS
<1>1. /\ pc = "open" /\ pc' = "first" /\ IsAppend /\ files[file] # Absent
      /\ job' = OpenedJob(files[file], RES_OK)
      /\ UNCHANGED <<asgn, request, waiting, conn, got, reqString, files, answers, log,
                     served, intact, again, restarts>>
      BY DEF AppendOpens
<1>2. /\ conn \in Client /\ conn # Nobody /\ file \in File /\ got \in Nat
      /\ files[file] \in Stored
      BY <1>1, Connected, ServerAssumption
<1>3. job \in OpenJob /\ job.bodyVal <= got
      BY <1>1 DEF Typing, Working, IsAppend, GetJob
<1>4. job' \in StoreJob /\ job'.from + job'.bodyVal + job'.total = got
      BY <1>1, <1>2, <1>3 DEF OpenedJob, StoreJob, OpenJob
<1>5. file' = file /\ parts' = parts
      BY <1>1 DEF file, parts, OpenedJob
<1>6. TypeOK'
      BY <1>1, <1>2, <1>4, <1>5 DEF Typing, TypeOK, StoreJob
<1> QED BY <1>1, <1>2, <1>4, <1>5, <1>6 DEF Typing, Working

\* The codes of the processing functions.
Sent == {RES_OK, RES_CREATED, RES_FORBIDDEN, RES_NOT_FOUND, RES_INTERNAL_SE}

\* What is sent when a request ends: to a refused GET or upload, a stored one.
LEMMA FinishingSteps ==
  ASSUME Typing, GetFails \/ PutFails \/ AppendFails \/ SendStored
  PROVE  /\ pc \in {"open", "done"} /\ job.id \in Int /\ UNCHANGED <<job, files>>
         /\ \E codes \in Seq(Codes) :
              /\ Finish(codes)
              /\ Head(codes) \in Sent
              /\ \/ Len(codes) = 1
                 \/ /\ asgn = 1
                    /\ codes \in {<<RES_FORBIDDEN, RES_OK>>, <<RES_INTERNAL_SE, RES_OK>>}
<1>0. /\ {RES_OK, RES_CREATED, RES_FORBIDDEN, RES_NOT_FOUND, RES_INTERNAL_SE} \subseteq Codes
      /\ Sent \subseteq Codes
      BY DEF Codes, Sent
<1> USE CodesTypes
<1>1. CASE GetFails
  <2>1. pc = "open" /\ job.act = "get" /\ UNCHANGED <<job, files>>
        BY <1>1 DEF GetFails
  <2>2. job.id \in Int
        BY <2>1 DEF Typing, Working, GetJob, OpenJob
  <2>3. \E c \in {RES_INTERNAL_SE, RES_FORBIDDEN, RES_NOT_FOUND} : Finish(<<c>>)
        BY <1>1 DEF GetFails, OpenError
  <2> QED BY <1>0, <2>1, <2>2, <2>3 DEF Sent
<1>2. CASE PutFails
  <2>1. /\ pc = "open" /\ IsPut /\ UNCHANGED <<job, files>>
        /\ Finish(IF asgn = 1 THEN RefusedPut1 ELSE RefusedPut2)
        BY <1>2 DEF PutFails
  <2>2. job.id \in Int
        BY <2>1 DEF Typing, Working, GetJob, OpenJob, IsPut
  <2>3. OpenError \in {RES_FORBIDDEN, RES_INTERNAL_SE}
        BY DEF OpenError
  <2>4. CASE asgn = 1
    <3>1. Finish(<<OpenError, RES_OK>>)
          BY <2>1, <2>4 DEF RefusedPut1
    <3>2. <<OpenError, RES_OK>> \in Seq(Codes) /\ Head(<<OpenError, RES_OK>>) \in Sent
          BY <1>0, <2>3 DEF Sent
    <3> QED BY <2>1, <2>2, <2>3, <2>4, <3>1, <3>2
  <2>5. CASE asgn # 1
        BY <1>0, <2>1, <2>2, <2>3, <2>5 DEF RefusedPut2, Sent
  <2> QED BY <2>4, <2>5
<1>3. CASE AppendFails
  <2>1. pc = "open" /\ IsAppend /\ UNCHANGED <<job, files>>
        BY <1>3 DEF AppendFails
  <2>2. job.id \in Int
        BY <2>1 DEF Typing, Working, GetJob, OpenJob, IsAppend
  <2>3. \E c \in {RES_FORBIDDEN, RES_INTERNAL_SE, RES_NOT_FOUND} : Finish(<<c>>)
        BY <1>3 DEF AppendFails, OpenError
  <2> QED BY <1>0, <2>1, <2>2, <2>3 DEF Sent
<1>4. CASE SendStored
  <2>1. pc = "done" /\ UNCHANGED <<job, files>> /\ Finish(<<job.code>>)
        BY <1>4 DEF SendStored
  <2>2. job.id \in Int /\ job.code \in Sent
        BY <2>1 DEF Typing, Working, StoreJob, Sent
  <2> QED BY <1>0, <2>1, <2>2
<1> QED BY <1>1, <1>2, <1>3, <1>4

LEMMA NextTyping == Typing /\ [Next]_vars => Typing'
<1> SUFFICES ASSUME Typing, [Next]_vars PROVE Typing'
    OBVIOUS
<1> USE DEF Codes, Stored
<1>1. CASE UNCHANGED vars
      BY <1>1 DEF vars, Typing, TypeOK, Working, parts, file
<1>2. CASE Accept
      BY <1>2, AcceptTypes
<1>3. CASE Receive
      BY <1>3, ReceiveTypes
<1>4. CASE Swallow
  <2>1. /\ pc = "swallow"
        /\ UNCHANGED <<asgn, request, waiting, pc, conn, reqString, job, files, answers, log,
                       served, intact, again, restarts>>
        BY <1>4 DEF Swallow
  <2>2. Len(parts) \in Nat /\ got \in Nat /\ got' \in 0..Len(parts)
        BY <1>4, <2>1, Connected DEF Swallow
  <2> QED BY <2>1, <2>2 DEF Typing, TypeOK, Working, parts, file
<1>5. CASE EndOfStream
      BY <1>5 DEF EndOfStream, Typing, TypeOK, Working, parts
<1>6. CASE GetFails \/ PutFails \/ AppendFails \/ SendStored
  <2>1. PICK codes \in Seq(Codes) :
          /\ Finish(codes)
          /\ \/ Len(codes) = 1
             \/ codes \in {<<RES_FORBIDDEN, RES_OK>>, <<RES_INTERNAL_SE, RES_OK>>}
        BY <1>6, FinishingSteps
  <2>2. pc \notin {"accept", "down"} /\ job.id \in Int /\ UNCHANGED <<job, files>>
        BY <1>6, FinishingSteps
  <2>3. codes # <<>>
    <3>1. Len(codes) = 1 \/ Len(codes) = 2
      <4>1. CASE Len(codes) = 1
            BY <4>1
      <4>2. CASE codes = <<RES_FORBIDDEN, RES_OK>>
            BY <4>2
      <4>3. CASE codes = <<RES_INTERNAL_SE, RES_OK>>
            BY <4>3
      <4> QED BY <2>1, <4>1, <4>2, <4>3
    <3> QED BY <3>1, EmptySeq
  <2> QED BY <2>1, <2>2, <2>3, FinishTypes
<1>7. CASE GetOpens \/ GetSpins2
  <2>1. /\ pc = "open" /\ pc' \in {"send", "spin"} /\ Answer(<<RES_OK>>) /\ job.act = "get"
        /\ UNCHANGED <<asgn, request, waiting, conn, got, reqString, job, files, log, served,
                       intact, again, restarts>>
        BY <1>7 DEF GetOpens, GetSpins2
  <2>2. <<RES_OK>> \in Seq(Codes)
        OBVIOUS
  <2>3. /\ answers' \in [Client -> Seq(Codes)]
        /\ answers'[conn] = answers[conn] \o <<RES_OK>> /\ answers[conn] \in Seq(Codes)
        BY <2>1, <2>2, AnswerTypes, Connected
  <2>4. answers'[conn] # <<>>
        BY <2>2, <2>3, ConcatEqualIffEmpty
  <2>5. job \in GetJob
        BY <2>1 DEF Typing, Working, OpenJob
  <2> QED BY <2>1, <2>3, <2>4, <2>5 DEF Typing, TypeOK, Working, parts
<1>8. CASE PutOpens
      BY <1>8, PutOpensTypes
<1>9. CASE AppendOpens
      BY <1>9, AppendOpensTypes
<1>10. CASE WriteFirst
      BY <1>10, WriteFirstTypes
<1>11. CASE StoreChunk
      BY <1>11, StoreChunkTypes
<1>12. CASE BodyEnds
      BY <1>12 DEF BodyEnds, AfterBody, Typing, TypeOK, Working, parts, file
<1>13. CASE Log
  <2>1. /\ pc = "log" /\ pc' = "close" /\ log' = Append(log, LogLine)
        /\ UNCHANGED <<asgn, request, waiting, conn, got, reqString, job, files, answers,
                       served, intact, again, restarts>>
        BY <1>13 DEF Log, Goto
  <2>2. /\ conn \in Client /\ answers[conn] \in Seq(Codes) /\ answers[conn] # <<>>
        /\ job.id \in Int
        BY <2>1, Connected DEF Typing, Working
  <2>3. Head(answers[conn]) \in Nat
        BY <2>2, HeadTailProperties DEF RES_OK, RES_CREATED, RES_BAD_REQUEST, RES_FORBIDDEN,
                RES_NOT_FOUND, RES_INTERNAL_SE, RES_NOT_IMPL
  <2>4. LogLine \in [client : Client, code : Nat, id : Int]
        BY <2>2, <2>3 DEF LogLine
  <2>5. log' \in Seq([client : Client, code : Nat, id : Int])
        BY <2>1, <2>4, AppendProperties DEF Typing, TypeOK
  <2> QED BY <2>1, <2>5 DEF Typing, TypeOK, Working, parts
<1>14. CASE Close
  <2>1. Nobody \notin Client
        BY ServerAssumption
  <2>2. intact' \in BOOLEAN /\ again' \in BOOLEAN /\ ~again'
        BY <1>14, Zenon DEF Close, Forget
  <2>3. job'.act \in {"refuse", "get", "upload", "none", "crash", "stores"}
        BY <1>14 DEF Close, Forget, NoAnswer
  <2> QED BY <1>14, <2>1, <2>2, <2>3 DEF Close, Forget, Goto, Typing, TypeOK, Working
<1>15. CASE ReceiveFails
  <2>1. /\ pc \in {"recv", "swallow"} /\ pc' = "close" /\ intact' = FALSE
        /\ Answer(IF asgn = 1 THEN <<RES_INTERNAL_SE>> ELSE <<>>)
        /\ UNCHANGED <<asgn, request, waiting, conn, got, reqString, job, files, log, served,
                       again, restarts>>
        BY <1>15 DEF ReceiveFails, OnReset1, OnReset2
  <2>2. (IF asgn = 1 THEN <<RES_INTERNAL_SE>> ELSE <<>>) \in Seq(Codes)
        BY CodesTypes
  <2>3. answers' \in [Client -> Seq(Codes)]
        BY <2>1, <2>2, AnswerTypes
  <2>4. intact' \in BOOLEAN
        BY <2>1, Zenon
  <2> QED BY <2>1, <2>3, <2>4 DEF Typing, TypeOK, Working, parts
<1>16. CASE BodyFails
  <2>1. intact' \in BOOLEAN
        BY <1>16, Zenon DEF BodyFails
  <2> QED BY <1>16, <2>1 DEF BodyFails, Typing, TypeOK, Working, parts, file
<1>17. CASE Kill
  <2>1. intact' \in BOOLEAN /\ again' \in BOOLEAN
        BY <1>17, Zenon DEF Kill, Forget
  <2>2. job'.act \in {"refuse", "get", "upload", "none", "crash", "stores"}
        BY <1>17 DEF Kill, Forget, NoAnswer
  <2> QED BY <1>17, <2>1, <2>2 DEF Kill, Forget, Typing, TypeOK, Working
<1>18. CASE Restart
  <2>1. job'.act \in {"refuse", "get", "upload", "none", "crash", "stores"}
        BY <1>18 DEF Restart, Forget, NoAnswer
  <2>2. /\ pc' = "accept" /\ conn' = Nobody /\ got' = 0 /\ reqString' = <<>> /\ log' = <<>>
        /\ served' = <<>> /\ UNCHANGED <<asgn, request, waiting, files, answers>>
        BY <1>18 DEF Restart, Forget, Goto
  <2>4. intact' \in BOOLEAN /\ again' \in BOOLEAN /\ ~again'
        BY <1>18, Zenon DEF Restart, Forget
  <2>3. restarts' \in 0..MaxRestarts
        BY <1>18, ServerAssumption DEF Restart, Typing, TypeOK
  <2> QED BY <2>1, <2>2, <2>3, <2>4 DEF Typing, TypeOK, Working
<1>19. CASE SendFile
  <2>1. /\ pc = "send" /\ pc' \in {"log", "close"}
        /\ UNCHANGED <<asgn, request, waiting, conn, got, reqString, job, files, answers, log,
                       served, intact, again, restarts>>
        BY <1>19 DEF SendFile, Return
  <2>2. job.id \in Int
        BY <2>1 DEF Typing, Working, GetJob
  <2> QED BY <2>1, <2>2 DEF Typing, TypeOK, Working, parts
<1> QED BY <1>1, <1>2, <1>3, <1>4, <1>5, <1>6, <1>7, <1>8, <1>9, <1>10, <1>11, <1>12, <1>13,
           <1>14, <1>15, <1>16, <1>17, <1>18, <1>19 DEF Next, ServerStep

\* The variables keep their types, and the server has a connection whenever it does not
\* wait for one.
THEOREM ServerTypeCorrect == Spec => []TypeOK
<1>1. Typing => TypeOK
      BY DEF Typing
<1> QED BY <1>1, InitTyping, NextTyping, PTL DEF Spec

-----------------------------------------------------------------------------
(* Answers.                                                                *)

\* A client has no answer before its request is finished.
Answering ==
  /\ conn \notin waiting
  /\ \A c \in waiting : answers[c] = <<>>
  /\ pc \in {"recv", "swallow", "open", "first", "body", "done"} => answers[conn] = <<>>
  /\ AtMostOneAnswer

LEMMA InitAnswering == Init => Answering
BY ServerAssumption DEF Init, Answering, AtMostOneAnswer

\* The connection gets its first answer.
LEMMA AnswerOnce ==
  ASSUME Typing, Answering, pc \in {"recv", "swallow", "open", "first", "body", "done"},
         NEW codes \in Seq(Codes), Answer(codes),
         \/ Len(codes) <= 1
         \/ /\ asgn = 1
            /\ codes \in {<<RES_FORBIDDEN, RES_OK>>, <<RES_INTERNAL_SE, RES_OK>>},
         UNCHANGED <<asgn, waiting, conn>>,
         pc' \in {"send", "log", "close", "spin"}
  PROVE  Answering'
<1>1. /\ conn \in Client /\ answers'[conn] = answers[conn] \o codes
      /\ \A c \in Client : c # conn => answers'[c] = answers[c]
      BY AnswerTypes, Connected
<1>2. answers'[conn] = codes
      BY <1>1, ConcatEmptySeq DEF Answering
<1>3. AtMostOneAnswer'
      BY <1>1, <1>2 DEF Answering, AtMostOneAnswer
<1>4. \A c \in waiting : c \in Client /\ c # conn
      BY DEF Answering, Typing, TypeOK
<1> QED BY <1>1, <1>3, <1>4 DEF Answering

LEMMA NextAnswering == Typing /\ Answering /\ [Next]_vars => Answering'
<1> SUFFICES ASSUME Typing, Answering, [Next]_vars PROVE Answering'
    OBVIOUS
<1>1. CASE UNCHANGED vars
      BY <1>1 DEF vars, Answering, AtMostOneAnswer
<1>2. CASE Accept
  <2>1. PICK c \in waiting : conn' = c /\ waiting' = waiting \ {c}
        BY <1>2 DEF Accept
  <2>2. pc' = "recv" /\ UNCHANGED <<asgn, answers>>
        BY <1>2 DEF Accept, Goto
  <2> QED BY <2>1, <2>2 DEF Answering, AtMostOneAnswer
<1>3. CASE Receive
  <2>1. pc = "recv" /\ UNCHANGED <<asgn, waiting, conn>>
        BY <1>3 DEF Receive
  <2>2. PICK n, s, r, paths :
          /\ Arrived(n, s, r) /\ paths \subseteq File
          /\ Dispatch(IF asgn = 1 THEN Checked1(s \o r, n) ELSE Checked2(s \o r, n), paths)
        BY <1>3, ReceiveStep
  <2>3. \/ \E codes \in Seq(Codes) : Answer(codes) /\ Len(codes) = 1 /\ pc' = "close"
        \/ UNCHANGED answers /\ pc' \in {"swallow", "recv", "down", "open"}
        BY <2>1, <2>2, DispatchFacts
  <2>4. CASE \E codes \in Seq(Codes) : Answer(codes) /\ Len(codes) = 1 /\ pc' = "close"
    <3>1. PICK codes \in Seq(Codes) : Answer(codes) /\ Len(codes) = 1 /\ pc' = "close"
          BY <2>4
    <3> QED BY <2>1, <3>1, AnswerOnce
  <2>5. CASE UNCHANGED answers /\ pc' \in {"swallow", "recv", "down", "open"}
        BY <2>1, <2>5 DEF Answering, AtMostOneAnswer
  <2> QED BY <2>3, <2>4, <2>5
<1>4. CASE GetFails \/ PutFails \/ AppendFails \/ SendStored
  <2>1. PICK codes \in Seq(Codes) :
          /\ Finish(codes)
          /\ \/ Len(codes) = 1
             \/ /\ asgn = 1
                /\ codes \in {<<RES_FORBIDDEN, RES_OK>>, <<RES_INTERNAL_SE, RES_OK>>}
        BY <1>4, FinishingSteps
  <2>2. pc \in {"open", "done"}
        BY <1>4, FinishingSteps
  <2>3. /\ Answer(codes) /\ pc' \in {"log", "close"} /\ UNCHANGED <<asgn, waiting, conn>>
        BY <2>1 DEF Finish, Return
  <2>4. \/ Len(codes) <= 1
        \/ /\ asgn = 1
           /\ codes \in {<<RES_FORBIDDEN, RES_OK>>, <<RES_INTERNAL_SE, RES_OK>>}
    <3>1. CASE Len(codes) = 1
          BY <3>1
    <3> QED BY <2>1, <3>1, Zenon
  <2> QED BY <2>2, <2>3, <2>4, AnswerOnce
<1>5. CASE GetOpens \/ GetSpins2
  <2>1. /\ pc = "open" /\ pc' \in {"send", "spin"} /\ Answer(<<RES_OK>>)
        /\ UNCHANGED <<asgn, waiting, conn>>
        BY <1>5 DEF GetOpens, GetSpins2
  <2>2. <<RES_OK>> \in Seq(Codes) /\ Len(<<RES_OK>>) <= 1
    <3>1. RES_OK \in Codes
          BY DEF Codes
    <3> QED BY <3>1, CodesTypes
  <2> QED BY <2>1, <2>2, AnswerOnce
<1>6. CASE ReceiveFails
  <2> DEFINE codes == IF asgn = 1 THEN <<RES_INTERNAL_SE>> ELSE <<>>
  <2>1. codes \in Seq(Codes) /\ Len(codes) <= 1
    <3>1. RES_INTERNAL_SE \in Codes
          BY DEF Codes
    <3> QED BY <3>1, CodesTypes, EmptySeq
  <2>2. /\ pc \in {"recv", "swallow"} /\ pc' = "close" /\ Answer(codes)
        /\ UNCHANGED <<asgn, waiting, conn>>
        BY <1>6 DEF ReceiveFails, OnReset1, OnReset2
  <2> HIDE DEF codes
  <2> QED BY <2>1, <2>2, AnswerOnce
<1>7. CASE Close \/ Kill \/ Restart
  <2>1. Nobody \notin waiting
        BY ServerAssumption DEF Typing, TypeOK
  <2> QED BY <1>7, <2>1 DEF Close, Kill, Restart, Forget, Goto, Answering, AtMostOneAnswer
<1>8. CASE Swallow \/ EndOfStream \/ SendFile \/ BodyEnds \/ BodyFails \/ Log
      BY <1>8 DEF Swallow, EndOfStream, SendFile, Return, BodyEnds, AfterBody, BodyFails, Log,
              Goto, Answering, AtMostOneAnswer
<1>9. CASE PutOpens \/ AppendOpens \/ WriteFirst \/ StoreChunk
      BY <1>9 DEF PutOpens, AppendOpens, WriteFirst, StoreChunk, Goto,
              Answering, AtMostOneAnswer
<1> QED BY <1>1, <1>2, <1>3, <1>4, <1>5, <1>6, <1>7, <1>8, <1>9 DEF Next, ServerStep

\* Nobody is answered twice, whatever fails and however often the server is started
\* again, but by asgn1 with 403 or 500 and then 200.
THEOREM ServerAnswersOnce == Spec => []AtMostOneAnswer
<1>1. Init => Typing /\ Answering
      BY InitTyping, InitAnswering
<1>2. Typing /\ Answering /\ [Next]_vars => (Typing /\ Answering)'
      BY NextTyping, NextAnswering
<1>3. Typing /\ Answering => AtMostOneAnswer
      BY DEF Answering
<1> QED BY <1>1, <1>2, <1>3, PTL DEF Spec

-----------------------------------------------------------------------------
(* Uploads.                                                                *)

\* What is stored of an upload in progress.
Storing ==
  /\ pc = "first" => files[file] = job.old /\ job.total = 0
  /\ pc = "body" /\ intact => files[file] = job.old \o Units(job.from, got - job.from)
  /\ StoredWhole

\* The units of client c, and those of the connection.
UnitsOf(c, n, k) == [i \in 1..k |-> <<c, n + i>>]

LEMMA UnitsOfConn ==
  ASSUME NEW n, NEW k
  PROVE  Units(n, k) = UnitsOf(conn, n, k)
BY DEF Units, UnitsOf

LEMMA InitStoring == Init => Storing
BY DEF Init, Storing, StoredWhole

\* The steps outside the storing of a body, and the failures on the way.
LEMMA NotStoring ==
  ASSUME pc' \notin {"first", "body", "done"} \/ (pc' = "done" /\ intact' = FALSE)
  PROVE  Storing'
BY DEF Storing, StoredWhole

LEMMA NextStoring == Typing /\ Storing /\ [Next]_vars => Storing'
<1> SUFFICES ASSUME Typing, Storing, [Next]_vars PROVE Storing'
    OBVIOUS
<1>1. CASE UNCHANGED vars
      BY <1>1 DEF vars, Storing, StoredWhole, file, parts, Units
<1>2. CASE PutOpens
  <2>1. /\ pc = "open" /\ pc' = "first" /\ files' = [files EXCEPT ![file] = <<>>]
        /\ job'.old = <<>> /\ job'.total = 0 /\ job'.file = job.file
        BY <1>2 DEF PutOpens, OpenedJob
  <2>2. file \in File /\ file' = file
        BY <2>1, Connected DEF file
  <2>3. files'[file'] = <<>>
        BY <2>1, <2>2 DEF Typing, TypeOK
  <2> QED BY <2>1, <2>3 DEF Storing, StoredWhole
<1>3. CASE AppendOpens
  <2>1. /\ pc = "open" /\ pc' = "first" /\ job'.old = files[file] /\ job'.total = 0
        /\ job'.file = job.file /\ UNCHANGED files
        BY <1>3 DEF AppendOpens, OpenedJob
  <2>2. file' = file
        BY <2>1 DEF file
  <2> QED BY <2>1, <2>2 DEF Storing, StoredWhole
<1>4. CASE WriteFirst
  <2>1. /\ pc = "first" /\ pc' = "body" /\ Write(job.from, job.bodyVal)
        /\ UNCHANGED <<asgn, request, conn, got, job>>
        BY <1>4 DEF WriteFirst, Goto, FirstChunk
  <2>2. /\ job \in StoreJob /\ job.from + job.bodyVal + job.total = got
        /\ files[file] \in Stored /\ files[file] = job.old /\ job.total = 0
        BY <2>1 DEF Typing, Working, Storing
  <2>3. job.from \in Nat /\ job.bodyVal \in Nat /\ got \in Nat
        BY <2>1, <2>2, Connected DEF StoreJob
  <2>4. intact' => files'[file] = files[file] \o Units(job.from, job.bodyVal)
        BY <2>1, <2>2, <2>3, WriteTypes
  <2>5. got - job.from = job.bodyVal
        BY <2>2, <2>3
  <2>6. file' = file
        BY <2>1 DEF file
  <2>7. intact' => files'[file'] = job'.old \o UnitsOf(conn', job'.from, got' - job'.from)
        BY <2>1, <2>2, <2>4, <2>5, <2>6, UnitsOfConn
  <2> QED BY <2>1, <2>2, <2>7 DEF Storing, StoredWhole, Units, UnitsOf
<1>5. CASE StoreChunk
  <2>1. /\ pc = "body" /\ pc' = "body" /\ job.total < job.contLen - job.bodyVal
        /\ UNCHANGED <<asgn, request, conn>>
        BY <1>5 DEF StoreChunk, MoreToReceive
  <2>2. PICK k \in 1..ChunkSize :
          /\ got' = got + k /\ job' = [job EXCEPT !.total = job.total + k] /\ Write(got, k)
        BY <1>5, StoreChunkTypes
  <2>3. /\ conn \in Client /\ job \in StoreJob /\ job.from + job.bodyVal + job.total = got
        /\ files[file] \in Stored /\ got \in Nat
        BY <2>1, Connected DEF Typing, Working
  <2>4. /\ job.from \in Nat /\ job.bodyVal \in Nat /\ job.total \in Nat /\ job.contLen \in Nat
        /\ job.old \in Stored
        BY <2>3 DEF StoreJob
  <2>5. k \in Nat
        BY <2>2, ServerAssumption DEF ChunkSize
  <2>6. job'.from = job.from /\ job'.old = job.old /\ job'.file = job.file
        BY <2>2, <2>3 DEF StoreJob
  <2>7. ASSUME intact'
        PROVE  files'[file'] = job'.old \o UnitsOf(conn', job'.from, got' - job'.from)
    <3> DEFINE m == got - job.from
    <3>1. m \in Nat /\ job.from + m = got /\ got' - job'.from = m + k
          BY <2>2, <2>3, <2>4, <2>5, <2>6
    <3>2. intact /\ files'[file] = files[file] \o Units(got, k)
          BY <2>1, <2>2, <2>3, <2>5, <2>7, WriteTypes
    <3>3. files[file] = job.old \o Units(job.from, m)
          BY <2>1, <3>2 DEF Storing
    <3>4. files'[file] = (job.old \o Units(job.from, m)) \o Units(job.from + m, k)
          BY <3>1, <3>2, <3>3
    <3> HIDE DEF m
    <3>5. /\ Units(job.from, m) \in Stored /\ Units(job.from + m, k) \in Stored
          /\ Units(job.from, m) \o Units(job.from + m, k) = Units(job.from, m + k)
      <4>1. job.from + m \in Nat /\ m \in Nat /\ k \in Nat /\ job.from \in Nat
            BY <2>4, <2>5, <3>1
      <4>2. Units(job.from, m) \in Stored /\ Units(job.from + m, k) \in Stored
            BY <2>3, <4>1, UnitsTypes
      <4>3. Units(job.from, m) \o Units(job.from + m, k) = Units(job.from, m + k)
        <5>1. \A a, b, c \in Nat : Units(a, b) \o Units(a + b, c) = Units(a, b + c)
              BY <2>3, UnitsConcat, Zenon
        <5> QED BY <4>1, <5>1, Zenon
      <4> QED BY <4>2, <4>3
    <3>6. files'[file] = job.old \o Units(job.from, m + k)
      <4>1. (job.old \o Units(job.from, m)) \o Units(job.from + m, k)
              = job.old \o (Units(job.from, m) \o Units(job.from + m, k))
            BY <2>4, <3>5, StoredAssociative
      <4> QED BY <3>4, <3>5, <4>1
    <3>7. file' = file
          BY <2>6 DEF file
    <3> QED BY <2>1, <2>6, <3>1, <3>6, <3>7, UnitsOfConn
  <2> QED BY <2>1, <2>7 DEF Storing, StoredWhole, Units, UnitsOf
<1>6. CASE BodyEnds
  <2>1. /\ pc = "body" /\ pc' = "done"
        /\ ~MoreToReceive \/ got = Len(parts)
        /\ UNCHANGED <<asgn, request, conn, got, job, files, intact>>
        BY <1>6 DEF BodyEnds, AfterBody, AtEnd
  <2>2. /\ job \in StoreJob /\ job.from + job.bodyVal + job.total = got /\ got \in Nat
        BY <2>1, Connected DEF Typing, Working
  <2>3. /\ job.from \in Nat /\ job.bodyVal \in Nat /\ job.total \in Nat /\ job.contLen \in Nat
        BY <2>2 DEF StoreJob
  <2>4. got - job.from \in Nat /\ got - job.from \in 0..(got - job.from)
        BY <2>2, <2>3
  <2>5. got = Len(parts) \/ got - job.from >= job.contLen
    <3>1. got - job.from = job.bodyVal + job.total
          BY <2>2, <2>3
    <3>2. ~MoreToReceive => job.bodyVal + job.total >= job.contLen
          BY <2>3 DEF MoreToReceive
    <3> QED BY <2>1, <3>1, <3>2
  <2>6. file' = file /\ parts' = parts
        BY <2>1 DEF file, parts
  <2>7. intact => files[file] = job.old \o UnitsOf(conn, job.from, got - job.from)
        BY <2>1, UnitsOfConn DEF Storing
  <2>8. intact' => files'[file'] = job'.old \o UnitsOf(conn', job'.from, got' - job'.from)
        BY <2>1, <2>6, <2>7, Zenon
  <2>9. StoredWhole'
    <3> SUFFICES ASSUME intact'
                 PROVE  /\ got' = Len(parts') \/ got' - job'.from >= job'.contLen
                        /\ \E n \in 0..(got' - job'.from) :
                             /\ n >= job'.contLen \/ n = got' - job'.from
                             /\ files'[file'] = job'.old \o UnitsOf(conn', job'.from, n)
        BY DEF StoredWhole, Units, UnitsOf
    <3> QED BY <2>1, <2>4, <2>5, <2>6, <2>8
  <2> QED BY <2>1, <2>9 DEF Storing
<1>7. CASE BodyFails
      BY <1>7, NotStoring DEF BodyFails
<1>8. CASE Accept \/ Swallow \/ EndOfStream \/ ReceiveFails \/ GetOpens \/ GetSpins2
             \/ SendFile \/ Log \/ Close \/ Kill \/ Restart
      BY <1>8, NotStoring DEF Accept, Swallow, EndOfStream, ReceiveFails, GetOpens, GetSpins2,
              SendFile, Return, Log, Close, Kill, Restart, Goto
<1>9. CASE Receive
  <2>1. pc' \in {"close", "swallow", "recv", "open", "down"}
    <3>1. \E o, paths : Dispatch(o, paths)
          BY <1>9 DEF Receive
    <3> QED BY <3>1 DEF Dispatch
  <2> QED BY <2>1, NotStoring
<1>10. CASE GetFails \/ PutFails \/ AppendFails \/ SendStored
  <2>1. pc' \in {"log", "close"}
        BY <1>10, FinishingSteps DEF Finish, Return
  <2> QED BY <2>1, NotStoring
<1> QED BY <1>1, <1>2, <1>3, <1>4, <1>5, <1>6, <1>7, <1>8, <1>9, <1>10 DEF Next, ServerStep

\* An upload that is acknowledged is stored as far as it was announced and has come, and
\* nothing else is, if nothing failed on the way.
THEOREM ServerStoresWhole == Spec => []StoredWhole
<1>1. Init => Typing /\ Storing
      BY InitTyping, InitStoring
<1>2. Typing /\ Storing /\ [Next]_vars => (Typing /\ Storing)'
      BY NextTyping, NextStoring
<1>3. Typing /\ Storing => StoredWhole
      BY DEF Storing
<1> QED BY <1>1, <1>2, <1>3, PTL DEF Spec

-----------------------------------------------------------------------------
(* The log of asgn2.                                                       *)

\* The connections that were accepted are different, and the last is the server's.
InService ==
  /\ conn # Nobody => served # <<>> /\ served[Len(served)] = conn
  /\ \A i, j \in 1..Len(served) : i # j => served[i] # served[j]
  /\ \A i \in 1..Len(served) : served[i] \notin waiting

LEMMA InitInService == Init => InService
BY DEF Init, InService

LEMMA NextInService == Typing /\ InService /\ [Next]_vars => InService'
<1> SUFFICES ASSUME Typing, InService, [Next]_vars PROVE InService'
    OBVIOUS
<1>1. CASE Accept
  <2>1. PICK c \in waiting :
          conn' = c /\ waiting' = waiting \ {c} /\ served' = Append(served, c)
        BY <1>1 DEF Accept
  <2>2. c \in Client /\ served \in Seq(Client)
        BY <2>1 DEF Typing, TypeOK
  <2>3. /\ served' # <<>> /\ Len(served') = Len(served) + 1 /\ Len(served) \in Nat
        /\ \A i \in 1..Len(served) : served'[i] = served[i]
        /\ served'[Len(served) + 1] = c
        BY <2>1, <2>2, AppendProperties, LenProperties
  <2>4. \A i \in 1..Len(served') : i \in 1..Len(served) \/ i = Len(served) + 1
        BY <2>3
  <2> QED BY <2>1, <2>3, <2>4 DEF InService
<1>2. CASE Close \/ Kill
      BY <1>2 DEF Close, Kill, Forget, InService
<1>3. CASE Restart
  <2>1. served' = <<>> /\ conn' = Nobody /\ Len(<<>>) = 0
        BY <1>3 DEF Restart, Forget
  <2> QED BY <2>1 DEF InService
<1>4. CASE GetFails \/ PutFails \/ AppendFails \/ SendStored
      BY <1>4, FinishingSteps DEF Finish, InService
<1>5. CASE \/ UNCHANGED vars \/ Receive \/ Swallow \/ EndOfStream \/ GetOpens \/ GetSpins2
           \/ SendFile \/ PutOpens \/ AppendOpens \/ WriteFirst \/ StoreChunk \/ BodyEnds
           \/ Log \/ ReceiveFails \/ BodyFails
  <2>1. UNCHANGED <<conn, served, waiting>>
        BY <1>5 DEF vars, Receive, Swallow, EndOfStream, GetOpens, GetSpins2, SendFile,
                PutOpens, AppendOpens, WriteFirst, StoreChunk, BodyEnds, Log, ReceiveFails,
                BodyFails
  <2> QED BY <2>1 DEF InService
<1> QED BY <1>1, <1>2, <1>3, <1>4, <1>5 DEF Next, ServerStep

\* The connection is the last that was accepted.
LEMMA LastServed ==
  ASSUME Typing, InService, conn \in Client
  PROVE  /\ served \in Seq(Client) /\ Len(served) \in Nat /\ Len(served) \in 1..Len(served)
         /\ served[Len(served)] = conn
         /\ \A k \in 1..Len(served) : served[k] \in Client
         /\ \A k \in 1..Len(served) : k # Len(served) => served[k] # conn
<1>1. served \in Seq(Client)
      BY DEF Typing, TypeOK
<1>2. conn # Nobody
      BY ServerAssumption
<1>3. served # <<>> /\ served[Len(served)] = conn
      BY <1>2 DEF InService
<1>4. Len(served) \in Nat \ {0}
      BY <1>1, <1>3, EmptySeq
<1>5. \A k \in 1..Len(served) : served[k] \in Client
      BY <1>1, ElementOfSeq
<1>6. Len(served) \in 1..Len(served)
      BY <1>4
<1>7. \A k \in 1..Len(served) : k # Len(served) => served[k] # conn
      BY <1>3, <1>6 DEF InService
<1> QED BY <1>1, <1>3, <1>4, <1>5, <1>6, <1>7

InTheLog == {RES_OK, RES_CREATED, RES_NOT_FOUND, RES_INTERNAL_SE}

\* Does what a client is told belong in the log?
Counts(told) == told # <<>> /\ Head(told) \in InTheLog

\* The server is between accept() and the line of its connection.
Unlogged == conn # Nobody /\ pc \notin {"close", "down"}

\* Each line has its place in the order of service.
Placed(place) ==
  /\ place \in [1..Len(log) -> 1..Len(served)]
  /\ \A i, j \in 1..Len(log) : i < j => place[i] < place[j]
  /\ \A i \in 1..Len(log) :
       /\ log[i].client = served[place[i]]
       /\ Counts(answers[log[i].client]) /\ log[i].code = Head(answers[log[i].client])
       /\ Unlogged => place[i] # Len(served)
  /\ \A k \in 1..Len(served) : Counts(answers[served[k]]) =>
       \/ \E i \in 1..Len(log) : place[i] = k
       \/ pc \in {"send", "spin", "log", "down"} /\ k = Len(served)

Logging ==
  asgn = 2 =>
    /\ pc = "log" => Counts(answers[conn])
    /\ pc = "send" => answers[conn] # <<>> /\ Head(answers[conn]) = RES_OK
    /\ \E place : Placed(place)

LEMMA InitLogging == Init => Logging
<1> SUFFICES ASSUME Init PROVE Logging
    OBVIOUS
<1>1. log = <<>> /\ served = <<>> /\ pc = "accept" /\ Len(<<>>) = 0
      BY DEF Init
<1>2. Placed([i \in 1..0 |-> 0])
      BY <1>1 DEF Placed
<1> QED BY <1>1, <1>2 DEF Logging

\* The log, the answers and the connections stay.
LEMMA LoggingStays ==
  ASSUME Logging, UNCHANGED <<asgn, log, served, answers>>,
         Unlogged' => Unlogged, pc' = "log" => pc \in {"send", "log"} /\ UNCHANGED conn,
         pc' = "send" => pc = "send" /\ UNCHANGED conn,
         \/ pc \notin {"send", "spin", "log", "down"}
         \/ pc' \in {"send", "spin", "log", "down"}
  PROVE  Logging'
<1> SUFFICES ASSUME asgn = 2 PROVE Logging'
    BY DEF Logging
<1>1. PICK place : Placed(place)
      BY DEF Logging
<1>2. Placed(place)'
  <2>1. Unlogged' => Unlogged
        OBVIOUS
  <2> QED BY <1>1, <2>1 DEF Placed
<1>3. /\ pc' = "log" => Counts(answers'[conn'])
      /\ pc' = "send" => answers'[conn'] # <<>> /\ Head(answers'[conn']) = RES_OK
      BY DEF Logging, Counts, InTheLog
<1> QED BY <1>2, <1>3 DEF Logging

\* The connection is answered; what belongs in the log is logged next, unless the
\* server spins.
LEMMA LoggingAnswers ==
  ASSUME Typing, Answering, InService, Logging, asgn = 2,
         pc \in {"recv", "swallow", "open", "first", "body", "done"},
         NEW codes \in Seq(Codes), codes # <<>>, Answer(codes),
         UNCHANGED <<asgn, log, served, conn>>,
         pc' \in {"log", "close", "send", "spin"},
         pc' = "send" => Head(codes) = RES_OK,
         pc' = "log" => Head(codes) \in InTheLog,
         pc' = "close" => Head(codes) \notin InTheLog
  PROVE  Logging'
<1>1. /\ conn \in Client /\ conn # Nobody /\ answers'[conn] = answers[conn] \o codes
      /\ \A c \in Client : c # conn => answers'[c] = answers[c]
      BY AnswerTypes, Connected, ServerAssumption
<1>2. answers'[conn] = codes
      BY <1>1, ConcatEmptySeq DEF Answering
<1>3. Unlogged
      BY <1>1 DEF Unlogged
<1>4. PICK place : Placed(place)
      BY DEF Logging
<1>5. /\ served \in Seq(Client) /\ Len(served) \in Nat /\ Len(served) \in 1..Len(served)
      /\ served[Len(served)] = conn
      /\ \A k \in 1..Len(served) : served[k] \in Client
      /\ \A k \in 1..Len(served) : k # Len(served) => served[k] # conn
      BY <1>1, LastServed
<1>6. \A i \in 1..Len(log) :
        /\ place[i] \in 1..Len(served) /\ place[i] # Len(served)
        /\ log[i].client = served[place[i]]
        /\ Counts(answers[log[i].client]) /\ log[i].code = Head(answers[log[i].client])
      BY <1>3, <1>4 DEF Placed
<1>7. \A i \in 1..Len(log) : log[i].client \in Client /\ log[i].client # conn
      BY <1>5, <1>6
<1>8. \A c \in Client : c # conn => (Counts(answers'[c]) <=> Counts(answers[c]))
      BY <1>1 DEF Counts
<1>9. Placed(place)'
  <2>1. place \in [1..Len(log') -> 1..Len(served')]
        BY <1>4 DEF Placed
  <2>2. \A i, j \in 1..Len(log') : i < j => place[i] < place[j]
        BY <1>4 DEF Placed
  <2>3. \A i \in 1..Len(log') :
          /\ log'[i].client = served'[place[i]]
          /\ Counts(answers'[log'[i].client]) /\ log'[i].code = Head(answers'[log[i].client])
          /\ place[i] # Len(served')
        BY <1>1, <1>6, <1>7, <1>8
  <2>4. ASSUME NEW k \in 1..Len(served), Counts(answers'[served'[k]])
        PROVE  \/ \E i \in 1..Len(log) : place[i] = k
               \/ pc' \in {"send", "spin", "log", "down"} /\ k = Len(served)
    <3>1. CASE k = Len(served)
      <4>1. Head(codes) \in InTheLog
            BY <1>2, <1>5, <2>4, <3>1 DEF Counts
      <4> QED BY <3>1, <4>1
    <3>2. CASE k # Len(served)
      <4>1. Counts(answers[served[k]])
            BY <1>5, <1>8, <2>4, <3>2
      <4> QED BY <1>4, <3>2, <4>1 DEF Placed
    <3> QED BY <3>1, <3>2
  <2> QED BY <2>1, <2>2, <2>3, <2>4 DEF Placed, Counts
<1>10. /\ pc' = "log" => Counts(answers'[conn'])
       /\ pc' = "send" => answers'[conn'] # <<>> /\ Head(answers'[conn']) = RES_OK
       BY <1>2 DEF Counts
<1> QED BY <1>9, <1>10 DEF Logging

\* A new connection has no answer and no line.
LEMMA AcceptLogging ==
  ASSUME Typing, Answering, InService, Logging, Accept
  PROVE  Logging'
<1> SUFFICES ASSUME asgn' = 2 PROVE Logging'
    BY DEF Logging
<1>1. PICK c \in waiting :
        conn' = c /\ waiting' = waiting \ {c} /\ served' = Append(served, c)
      BY DEF Accept
<1>2. /\ pc = "accept" /\ pc' = "recv" /\ UNCHANGED <<asgn, log, answers>>
      BY DEF Accept, Goto
<1>3. c \in Client /\ served \in Seq(Client) /\ answers[c] = <<>>
      BY <1>1 DEF Typing, TypeOK, Answering
<1>4. /\ Len(served') = Len(served) + 1 /\ Len(served) \in Nat
      /\ \A k \in 1..Len(served) : served'[k] = served[k]
      /\ served'[Len(served) + 1] = c
      BY <1>1, <1>3, AppendProperties, LenProperties
<1>5. PICK place : Placed(place)
      BY <1>2 DEF Logging
<1>6. Placed(place)'
  <2>1. place \in [1..Len(log) -> 1..Len(served)]
        BY <1>5 DEF Placed
  <2>2. \A i \in 1..Len(log) : place[i] \in 1..Len(served) /\ place[i] \in 1..Len(served')
        BY <1>4, <2>1
  <2>3. place \in [1..Len(log') -> 1..Len(served')]
        BY <1>2, <1>4, <2>1, <2>2
  <2>4. \A i, j \in 1..Len(log') : i < j => place[i] < place[j]
        BY <1>2, <1>5 DEF Placed
  <2>5. \A d : Counts(answers'[d]) <=> Counts(answers[d])
        BY <1>2 DEF Counts
  <2>6. \A i \in 1..Len(log') :
          /\ log'[i].client = served'[place[i]]
          /\ Counts(answers'[log'[i].client]) /\ log'[i].code = Head(answers'[log'[i].client])
          /\ place[i] # Len(served')
    <3> TAKE i \in 1..Len(log')
    <3>1. /\ log[i].client = served[place[i]] /\ Counts(answers[log[i].client])
          /\ log[i].code = Head(answers[log[i].client])
          BY <1>2, <1>5 DEF Placed
    <3>2. served'[place[i]] = served[place[i]] /\ place[i] # Len(served')
          BY <1>2, <1>4, <2>2
    <3> QED BY <1>2, <2>5, <3>1, <3>2
  <2>7. ASSUME NEW k \in 1..Len(served'), Counts(answers'[served'[k]])
        PROVE  \E i \in 1..Len(log') : place[i] = k
    <3>1. k # Len(served) + 1
          BY <1>2, <1>3, <1>4, <2>7 DEF Counts
    <3>2. k \in 1..Len(served) /\ served'[k] = served[k]
          BY <1>4, <3>1
    <3>3. Counts(answers[served[k]])
          BY <2>5, <2>7, <3>2
    <3> QED BY <1>2, <1>5, <3>2, <3>3 DEF Placed
  <2> QED BY <2>3, <2>4, <2>6, <2>7 DEF Placed, Counts
<1> QED BY <1>2, <1>6 DEF Logging

\* The line of the connection comes behind those of all that were served before it.
LEMMA LogLogging ==
  ASSUME Typing, InService, Logging, Log
  PROVE  Logging'
<1> SUFFICES ASSUME asgn' = 2 PROVE Logging'
    BY DEF Logging
<1>1. /\ pc = "log" /\ pc' = "close" /\ log' = Append(log, LogLine)
      /\ UNCHANGED <<asgn, conn, answers, served>>
      BY DEF Log, Goto
<1>2. conn \in Client /\ conn # Nobody /\ job.id \in Int
      BY <1>1, Connected, ServerAssumption DEF Typing, Working
<1> DEFINE Line0 == [client : Client, code : Nat, id : Int]
<1>3. log \in Seq(Line0) /\ Counts(answers[conn])
      BY <1>1 DEF Logging, Typing, TypeOK
<1>4. LogLine.client = conn /\ LogLine.code = Head(answers[conn]) /\ LogLine \in Line0
      BY <1>2, <1>3 DEF LogLine, Counts, InTheLog, RES_OK, RES_CREATED, RES_NOT_FOUND,
              RES_INTERNAL_SE
<1> HIDE DEF Line0
<1>5. /\ Len(log') = Len(log) + 1 /\ Len(log) \in Nat
      /\ \A i \in 1..Len(log) : log'[i] = log[i]
      /\ log'[Len(log) + 1] = LogLine
      BY <1>1, <1>3, <1>4, AppendProperties, LenProperties
<1>6. /\ Len(served) \in Nat /\ Len(served) \in 1..Len(served)
      /\ served[Len(served)] = conn
      /\ \A k \in 1..Len(served) : k # Len(served) => served[k] # conn
      BY <1>2, LastServed
<1>7. PICK place : Placed(place)
      BY <1>1 DEF Logging
<1>8. PICK next :
        next = [i \in 1..Len(log') |-> IF i <= Len(log) THEN place[i] ELSE Len(served)]
      OBVIOUS
<1>9. \A i \in 1..Len(log') : i \in 1..Len(log) \/ (i = Len(log) + 1 /\ ~(i <= Len(log)))
      BY <1>5
<1>10. /\ \A i \in 1..Len(log) : next[i] = place[i] /\ i \in 1..Len(log')
      /\ next[Len(log) + 1] = Len(served)
      BY <1>5, <1>8
<1>11. \A i \in 1..Len(log) :
         /\ place[i] \in 1..Len(served) /\ place[i] # Len(served)
         /\ log[i].client = served[place[i]]
         /\ Counts(answers[log[i].client]) /\ log[i].code = Head(answers[log[i].client])
       BY <1>1, <1>2, <1>7 DEF Placed, Unlogged
<1>12. \A c : Counts(answers'[c]) <=> Counts(answers[c])
       BY <1>1 DEF Counts
<1>13. Placed(next)'
  <2>1. next \in [1..Len(log') -> 1..Len(served')]
        BY <1>1, <1>6, <1>8, <1>9, <1>11
  <2>2. ASSUME NEW i \in 1..Len(log'), NEW j \in 1..Len(log'), i < j
        PROVE  next[i] < next[j]
    <3>1. i \in 1..Len(log)
          BY <1>5, <2>2
    <3>2. CASE j \in 1..Len(log)
          BY <1>7, <1>10, <2>2, <3>1, <3>2 DEF Placed
    <3>3. CASE j = Len(log) + 1
          BY <1>6, <1>10, <1>11, <3>1, <3>3
    <3> QED BY <1>9, <3>2, <3>3
  <2>3. ASSUME NEW i \in 1..Len(log')
        PROVE  /\ log'[i].client = served'[next[i]]
               /\ Counts(answers'[log'[i].client]) /\ log'[i].code = Head(answers'[log'[i].client])
    <3>1. CASE i \in 1..Len(log)
          BY <1>1, <1>5, <1>10, <1>11, <1>12, <3>1
    <3>2. CASE i = Len(log) + 1
          BY <1>1, <1>3, <1>4, <1>5, <1>6, <1>10, <1>12, <3>2
    <3> QED BY <1>9, <3>1, <3>2
  <2>4. ASSUME NEW k \in 1..Len(served'), Counts(answers'[served'[k]])
        PROVE  \E i \in 1..Len(log') : next[i] = k
    <3>1. CASE k = Len(served)
      <4>1. Len(log) + 1 \in 1..Len(log')
            BY <1>5
      <4> QED BY <1>10, <3>1, <4>1
    <3>2. CASE k # Len(served)
      <4>1. Counts(answers[served[k]]) /\ k \in 1..Len(served)
            BY <1>1, <1>12, <2>4, <3>2
      <4>2. \E i \in 1..Len(log) : place[i] = k
            BY <1>7, <3>2, <4>1 DEF Placed
      <4> QED BY <1>10, <4>2
    <3> QED BY <3>1, <3>2
  <2>5. ~Unlogged'
        BY <1>1 DEF Unlogged
  <2> QED BY <2>1, <2>2, <2>3, <2>4, <2>5 DEF Placed, Counts
<1> QED BY <1>1, <1>13 DEF Logging

LEMMA NextLogging ==
  Typing /\ Answering /\ InService /\ Logging /\ [Next]_vars => Logging'
<1> SUFFICES ASSUME Typing, Answering, InService, Logging, [Next]_vars PROVE Logging'
    OBVIOUS
<1>1. CASE UNCHANGED vars
      BY <1>1, LoggingStays DEF vars, Unlogged
<1>2. CASE Accept
      BY <1>2, AcceptLogging
<1>3. CASE Log
      BY <1>3, LogLogging
<1>4. CASE Receive
  <2>1. pc = "recv" /\ UNCHANGED <<asgn, conn, log, served>>
        BY <1>4 DEF Receive
  <2>2. PICK n, s, r, paths :
          /\ Arrived(n, s, r) /\ paths \subseteq File
          /\ Dispatch(IF asgn = 1 THEN Checked1(s \o r, n) ELSE Checked2(s \o r, n), paths)
        BY <1>4, ReceiveStep
  <2> DEFINE o == IF asgn = 1 THEN Checked1(s \o r, n) ELSE Checked2(s \o r, n)
  <2>3. \/ o \in Refusal /\ pc' = "close" /\ Answer(<<o.code>>)
        \/ UNCHANGED answers /\ pc' \in {"swallow", "recv", "open", "down"}
        BY <2>1, <2>2, DispatchFacts
  <2> HIDE DEF o
  <2>6. CASE o \in Refusal /\ pc' = "close" /\ Answer(<<o.code>>)
    <3>1. o.code \in {RES_BAD_REQUEST, RES_NOT_IMPL}
          BY <2>6 DEF Refusal
    <3>2. /\ <<o.code>> \in Seq(Codes) /\ <<o.code>> # <<>>
          /\ Head(<<o.code>>) \notin InTheLog
          BY <3>1 DEF Codes, InTheLog, RES_OK, RES_CREATED, RES_NOT_FOUND, RES_INTERNAL_SE,
                  RES_BAD_REQUEST, RES_NOT_IMPL
    <3>3. CASE asgn = 2
          BY <2>1, <2>6, <3>2, <3>3, LoggingAnswers
    <3> QED BY <2>1, <3>3 DEF Logging
  <2>7. CASE UNCHANGED answers /\ pc' \in {"swallow", "recv", "open", "down"}
        BY <2>1, <2>7, LoggingStays DEF Unlogged
  <2> QED BY <2>3, <2>6, <2>7
<1>5. CASE GetFails \/ PutFails \/ AppendFails \/ SendStored
  <2> SUFFICES ASSUME asgn = 2 PROVE Logging'
      BY <1>5, FinishingSteps DEF Finish, Logging
  <2>1. PICK codes \in Seq(Codes) :
          Finish(codes) /\ Head(codes) \in Sent /\ (Len(codes) = 1 \/ asgn = 1)
        BY <1>5, FinishingSteps
  <2>2. pc \in {"open", "done"}
        BY <1>5, FinishingSteps
  <2>3. codes # <<>>
    <3>1. Len(codes) = 1
          BY <2>1
    <3> QED BY <3>1, EmptySeq
  <2>4. /\ Answer(codes) /\ UNCHANGED <<asgn, conn, log, served>>
        /\ pc' = IF Logged(Head(codes)) THEN "log" ELSE "close"
        BY <2>1 DEF Finish, Return
  <2>5. Head(codes) \in InTheLog <=> Logged(Head(codes))
        BY <2>1 DEF Sent, InTheLog, Logged, RES_OK, RES_CREATED, RES_FORBIDDEN, RES_NOT_FOUND,
                RES_INTERNAL_SE
  <2> QED BY <2>2, <2>3, <2>4, <2>5, LoggingAnswers
<1>6. CASE GetOpens \/ GetSpins2
  <2> SUFFICES ASSUME asgn = 2 PROVE Logging'
      BY <1>6 DEF GetOpens, GetSpins2, Logging
  <2>1. /\ pc = "open" /\ pc' \in {"send", "spin"} /\ Answer(<<RES_OK>>)
        /\ UNCHANGED <<asgn, conn, log, served>>
        BY <1>6 DEF GetOpens, GetSpins2
  <2>2. <<RES_OK>> \in Seq(Codes) /\ <<RES_OK>> # <<>> /\ Head(<<RES_OK>>) = RES_OK
        BY DEF Codes
  <2> QED BY <2>1, <2>2, LoggingAnswers
<1>7. CASE ReceiveFails
  <2> SUFFICES ASSUME asgn = 2 PROVE Logging'
      BY <1>7 DEF ReceiveFails, Logging
  <2>1. /\ pc \in {"recv", "swallow"} /\ pc' = "close" /\ Answer(<<>>)
        /\ UNCHANGED <<asgn, conn, log, served>>
        BY <1>7 DEF ReceiveFails, OnReset2
  <2>2. conn \in Client /\ answers[conn] \in Seq(Codes)
        BY <2>1, Connected
  <2>3. answers[conn] \o <<>> = answers[conn]
        BY <2>2, ConcatEmptySeq
  <2>4. answers' = answers
        BY <2>1, <2>2, <2>3 DEF Answer, Typing, TypeOK
  <2> QED BY <2>1, <2>4, LoggingStays DEF Unlogged
<1>8. CASE Close
  <2>1. pc = "close" /\ pc' = "accept" /\ conn' = Nobody /\ UNCHANGED <<asgn, log, served, answers>>
        BY <1>8 DEF Close, Forget, Goto
  <2> QED BY <2>1, LoggingStays DEF Unlogged
<1>9. CASE Kill
  <2>1. pc' = "down" /\ UNCHANGED <<asgn, log, served, answers>>
        BY <1>9 DEF Kill
  <2> QED BY <2>1, LoggingStays DEF Unlogged
<1>10. CASE Restart
  <2>1. pc' = "accept" /\ log' = <<>> /\ served' = <<>> /\ Len(<<>>) = 0
        BY <1>10 DEF Restart, Goto
  <2>2. Placed([i \in 1..0 |-> 0])'
        BY <2>1 DEF Placed
  <2> QED BY <2>1, <2>2 DEF Logging
<1>11. CASE Swallow \/ EndOfStream \/ PutOpens \/ AppendOpens \/ WriteFirst \/ StoreChunk
              \/ BodyEnds \/ BodyFails
  <2>1. /\ pc \in {"recv", "swallow", "open", "first", "body"}
        /\ pc' \in {"swallow", "first", "body", "done", "close"}
        /\ UNCHANGED <<asgn, conn, log, served, answers>>
        BY <1>11 DEF Swallow, EndOfStream, PutOpens, AppendOpens, WriteFirst, StoreChunk,
                BodyEnds, AfterBody, BodyFails, Goto
  <2> QED BY <2>1, LoggingStays DEF Unlogged
<1>12. CASE SendFile
  <2> SUFFICES ASSUME asgn = 2 PROVE Logging'
      BY <1>12 DEF SendFile, Logging
  <2>1. /\ pc = "send" /\ UNCHANGED <<asgn, conn, log, served, answers>>
        /\ pc' = IF Logged(RES_OK) THEN "log" ELSE "close"
        BY <1>12 DEF SendFile, Return
  <2>2. pc' = "log"
        BY <2>1 DEF Logged, RES_OK, RES_FORBIDDEN
  <2> QED BY <2>1, <2>2, LoggingStays DEF Unlogged
<1> QED BY <1>1, <1>2, <1>3, <1>4, <1>5, <1>6, <1>7, <1>8, <1>9, <1>10, <1>11, <1>12
        DEF Next, ServerStep

\* The log of asgn2 is true: its lines tell of connections that were answered, in the
\* order of service, with the code that was sent, and no line of an answer 200, 201, 404
\* or 500 is missing but the last, when the server was ended.
THEOREM ServerLogIsTrue == Spec => []LogIsTrue
<1>1. Init => Typing /\ Answering /\ InService /\ Logging
      BY InitTyping, InitAnswering, InitInService, InitLogging
<1>2. Typing /\ Answering /\ InService /\ Logging /\ [Next]_vars
        => (Typing /\ Answering /\ InService /\ Logging)'
      BY NextTyping, NextAnswering, NextInService, NextLogging
<1>3. Typing /\ Answering /\ InService /\ Logging => LogIsTrue
  <2> SUFFICES ASSUME Typing, InService, Logging, asgn = 2 PROVE LogIsTrue
      BY DEF LogIsTrue
  <2>1. PICK place : Placed(place)
        BY DEF Logging
  <2>2. \A c \in Client :
          /\ Counts(answers[c]) /\ (c = conn => pc \notin {"send", "spin", "log"}) => Answered(c)
          /\ ToBeLogged(c) =>
               Counts(answers[c]) /\ (c = conn => pc \notin {"send", "spin", "log"})
        BY DEF Counts, Answered, ToBeLogged, InTheLog
  <2>3. served \in Seq(Client) /\ \A k \in 1..Len(served) : served[k] \in Client
        BY ElementOfSeq DEF Typing, TypeOK
  <2>4. conn \in Client \/ conn = Nobody
        BY DEF Typing, TypeOK
  <2>5. conn \in Client => \A k \in 1..Len(served) : served[k] = conn <=> k = Len(served)
        BY LastServed
  <2>6. place \in [1..Len(log) -> 1..Len(served)]
        BY <2>1 DEF Placed
  <2>7. ASSUME NEW i \in 1..Len(log)
        PROVE  /\ log[i].client = served[place[i]]
               /\ Answered(log[i].client) /\ log[i].code = answers[log[i].client][1]
    <3>1. /\ log[i].client = served[place[i]] /\ place[i] \in 1..Len(served)
          /\ Counts(answers[log[i].client]) /\ log[i].code = Head(answers[log[i].client])
          /\ Unlogged => place[i] # Len(served)
          BY <2>1, <2>6 DEF Placed
    <3>2. log[i].client \in Client
          BY <2>3, <3>1
    <3>3. log[i].client = conn => pc \notin {"send", "spin", "log"}
      <4> SUFFICES ASSUME log[i].client = conn, pc \in {"send", "spin", "log"} PROVE FALSE
          OBVIOUS
      <4>1. conn \in Client /\ Unlogged
            BY <3>2, ServerAssumption DEF Unlogged
      <4> QED BY <2>5, <3>1, <4>1
    <3>4. answers[log[i].client][1] = Head(answers[log[i].client])
          OBVIOUS
    <3> QED BY <2>2, <3>1, <3>2, <3>3, <3>4
  <2>8. ASSUME NEW k \in 1..Len(served), ToBeLogged(served[k])
        PROVE  \/ \E i \in 1..Len(log) : place[i] = k
               \/ pc = "down" /\ k = Len(served)
    <3>1. served[k] \in Client /\ Counts(answers[served[k]])
          BY <2>2, <2>3, <2>8
    <3>2. k = Len(served) /\ pc \in {"send", "spin", "log"} => served[k] = conn
      <4>1. pc \in {"send", "spin", "log"} => conn \in Client
            BY Connected
      <4> QED BY <2>5, <4>1
    <3>3. k = Len(served) => pc \notin {"send", "spin", "log"}
          BY <2>2, <2>8, <3>1, <3>2
    <3> QED BY <2>1, <3>1, <3>3 DEF Placed
  <2>9. \A i, j \in 1..Len(log) : i < j => place[i] < place[j]
        BY <2>1 DEF Placed
  <2> QED BY <2>6, <2>7, <2>8, <2>9 DEF LogIsTrue
<1> QED BY <1>1, <1>2, <1>3, PTL DEF Spec

-----------------------------------------------------------------------------
(* The request that asgn2 serves.                                          *)

\* What is found in a segment is found in what the client sends, and is not torn, but
\* for a number for the log of which the end has not come.
LEMMA FoundInSegment ==
  ASSUME NEW s \in Seq(Part), NEW t \in Seq(Part), Len(t) <= Len(s),
         \A i \in 1..Len(t) : t[i] = s[i] \/ (i = Len(t) /\ t[i] = Torn(s[i]))
  PROVE  /\ \A kind \in {"id", "length", "line"} : First(t, kind) # 0 =>
              /\ First(s, kind) = First(t, kind) /\ First(t, kind) \in 1..Len(t)
              /\ kind = "length" => t[First(t, kind)] = s[First(t, kind)]
              /\ kind = "id" =>
                   /\ t[First(t, kind)].value \in Nat /\ s[First(t, kind)].value \in Nat
                   /\ t[First(t, kind)].value <= s[First(t, kind)].value
         /\ \A k \in Nat : BlankAfter(t, k) # 0 =>
              BlankAfter(s, k) = BlankAfter(t, k) /\ BlankAfter(t, k) \in 1..Len(t)
         /\ \A k \in 1..Len(t) : t[k].kind = "line" /\ t[k].method # "bad" => t[k] = s[k]
<1>1. Len(s) \in Nat /\ Len(t) \in Nat
      BY LenProperties
<1>2. \A i \in 1..Len(t) : i \in 1..Len(s) /\ s[i] \in Part /\ t[i] \in Part
  <2>1. \A i \in 1..Len(t) : i \in 1..Len(s)
        BY <1>1
  <2> QED BY <2>1, ElementOfSeq
<1>3. ASSUME NEW i \in 1..Len(t)
      PROVE  /\ t[i].kind \in {"length", "blank"} => t[i] = s[i]
             /\ t[i].kind = "id" => /\ s[i].kind = "id"
                                    /\ t[i].value \in Nat /\ s[i].value \in Nat
                                    /\ t[i].value <= s[i].value
             /\ t[i].kind = "line" => s[i].kind = "line"
             /\ t[i].kind = "line" /\ t[i].method # "bad" => t[i] = s[i]
  <2>1. CASE t[i] = s[i]
    <3>1. t[i].kind = "id" => t[i].value \in Nat
          BY <1>2 DEF Part
    <3> QED BY <2>1, <3>1
  <2>2. CASE t[i] = Torn(s[i])
    <3>1. CASE s[i].kind = "id"
      <4>1. s[i].value \in Nat
            BY <1>2, <3>1 DEF Part
      <4>2. s[i].value \div 2 \in Nat /\ s[i].value \div 2 <= s[i].value
            BY <4>1
      <4>3. t[i] = RequestId(s[i].value \div 2, s[i].glued)
            BY <1>2, <2>2, <3>1, TornFacts
      <4> QED BY <3>1, <4>1, <4>2, <4>3 DEF RequestId
    <3>2. CASE s[i].kind # "id"
          BY <1>2, <2>2, <3>2, TornFacts DEF Line, Header
    <3> QED BY <3>1, <3>2
  <2> QED BY <2>1, <2>2
<1>4. ASSUME NEW kind \in {"id", "length", "line"}, First(t, kind) # 0
      PROVE  First(s, kind) = First(t, kind) /\ First(t, kind) \in 1..Len(t)
             /\ t[First(t, kind)].kind = kind
  <2> DEFINE f == First(t, kind)
             g == First(s, kind)
  <2>1. /\ f \in 1..Len(t) /\ t[f].kind = kind
        /\ \A i \in 1..Len(t) : t[i].kind = kind => f <= i
        BY <1>1, <1>4, FirstFacts
  <2>2. f \in 1..Len(s) /\ s[f].kind = kind
        BY <1>2, <1>3, <2>1
  <2>3. /\ g \in 1..Len(s) /\ s[g].kind = kind /\ g <= f
        BY <1>1, <2>2, FirstFacts
  <2>4. CASE g = f
        BY <2>1, <2>4
  <2>5. CASE g < f
    <3>1. g \in 1..Len(t) /\ g # Len(t)
          BY <1>1, <2>1, <2>3, <2>5
    <3>2. t[g] = s[g]
          BY <3>1
    <3> QED BY <2>1, <2>3, <2>5, <3>1, <3>2
  <2> QED BY <2>1, <2>3, <2>4, <2>5
<1>5. ASSUME NEW k \in Nat, BlankAfter(t, k) # 0
      PROVE  BlankAfter(s, k) = BlankAfter(t, k) /\ BlankAfter(t, k) \in 1..Len(t)
  <2> DEFINE f == BlankAfter(t, k)
             g == BlankAfter(s, k)
  <2>1. /\ f \in (k + 1)..Len(t) /\ t[f].kind = "blank"
        /\ \A i \in (k + 1)..Len(t) : t[i].kind = "blank" => f <= i
        BY <1>1, <1>5, BlankAfterFacts
  <2>2. f \in 1..Len(t) /\ f \in (k + 1)..Len(s)
        BY <1>1, <2>1
  <2>3. s[f].kind = "blank"
        BY <1>3, <2>1, <2>2
  <2>4. /\ g \in (k + 1)..Len(s) /\ s[g].kind = "blank" /\ g <= f
        BY <1>1, <2>2, <2>3, BlankAfterFacts
  <2>5. CASE g = f
        BY <2>2, <2>5
  <2>6. CASE g < f
    <3>1. g \in 1..Len(t) /\ g \in (k + 1)..Len(t) /\ g # Len(t)
          BY <1>1, <2>1, <2>4, <2>6
    <3>2. t[g] = s[g]
          BY <3>1
    <3> QED BY <2>1, <2>4, <2>6, <3>1, <3>2
  <2> QED BY <2>2, <2>4, <2>5, <2>6
<1> QED BY <1>3, <1>4, <1>5

\* So is the method.
LEMMA MethodInSegment ==
  ASSUME NEW s \in Seq(Part), NEW t \in Seq(Part), Len(t) <= Len(s),
         \A i \in 1..Len(t) : t[i] = s[i] \/ (i = Len(t) /\ t[i] = Torn(s[i])),
         method(t) # "bad"
  PROVE  method(s) = method(t)
<1> DEFINE a == Start(t)
           l == First(t, "line")
<1>1. Len(s) \in Nat /\ Len(t) \in Nat
      BY LenProperties
<1>2. /\ l # 0 => l \in 1..Len(t) /\ First(s, "line") = l /\ t[l].kind = "line"
      /\ \A k \in 1..Len(t) : t[k].kind = "line" /\ t[k].method # "bad" => t[k] = s[k]
      BY <1>1, FoundInSegment, FirstFacts
<1>3. /\ a \in 1..Len(t) /\ t[a].kind # "blank"
      /\ \A i \in 1..Len(t) : t[i].kind # "blank" => a <= i
  <2>1. a # 0
        BY DEF method
  <2> QED BY <1>1, <2>1, StartFacts
<1> HIDE DEF a, l
<1>4. ASSUME t[a] = s[a] PROVE Start(s) = a
  <2> DEFINE b == Start(s)
  <2>1. a \in 1..Len(s) /\ s[a].kind # "blank"
        BY <1>1, <1>3, <1>4
  <2>2. b \in 1..Len(s) /\ s[b].kind # "blank" /\ b <= a
        BY <1>1, <2>1, StartFacts
  <2> HIDE DEF b
  <2>3. ~(b < a)
    <3> SUFFICES ASSUME b < a PROVE FALSE
        OBVIOUS
    <3>1. b \in 1..Len(t) /\ b # Len(t)
          BY <1>1, <1>3, <2>2
    <3>2. t[b] = s[b]
          BY <3>1
    <3> QED BY <1>3, <2>2, <3>1, <3>2
  <2>4. b = a
        BY <1>3, <2>2, <2>3
  <2> QED BY <2>4 DEF b
<1>5. CASE t[a].kind = "line"
  <2>1. method(t) = t[a].method
        BY <1>1, <1>3, <1>5 DEF method, a
  <2>2. t[a] = s[a]
        BY <1>2, <1>3, <1>5, <2>1
  <2>3. Start(s) = a /\ a # 0
        BY <1>3, <1>4, <2>2
  <2> QED BY <1>5, <2>1, <2>2, <2>3 DEF method
<1>6. CASE t[a].kind # "line"
  <2>1. /\ method(t) = "other" /\ t[a].kind \in {"header", "byte"}
        /\ l # 0 /\ t[l].method # "bad"
        BY <1>3, <1>6 DEF method, a, l
  <2>2. t[l] = s[l] /\ First(s, "line") = l
        BY <1>2, <2>1
  <2>3. a < l /\ l <= Len(t) /\ l \in Int
    <3>1. a <= l /\ a # l /\ l \in 1..Len(t)
          BY <1>2, <1>3, <1>6, <2>1
    <3> QED BY <1>1, <1>3, <3>1
  <2>4. t[a] = s[a]
        BY <1>1, <1>3, <2>3
  <2>5. Start(s) = a /\ a # 0
        BY <1>3, <1>4, <2>4
  <2> QED BY <2>1, <2>2, <2>4, <2>5 DEF method
<1> QED BY <1>5, <1>6

\* The connection began with an upload of length 0.
SentEmptyUpload ==
  LET length == First(parts, "length")
  IN /\ method(parts) \in {"PUT", "APPEND"}
     /\ length # 0 /\ Atoi(parts[length].value) = 0

\* The request that is served: what ServesOwnRequest says of the local variables.
OwnRequest ==
  LET length == First(parts, "length")
      id == First(parts, "id")
  IN /\ file = request[conn].file
     /\ job.id # 0 => id # 0 /\ job.id <= parts[id].value
     /\ IF job.act = "get" THEN method(parts) = "GET"
        ELSE /\ method(parts) = job.method
             /\ length # 0 /\ job.contLen = Atoi(parts[length].value)
             /\ job.act = "stores" => job.from = BlankAfter(parts, length)
             /\ job.act = "upload" => got - job.bodyVal = BlankAfter(parts, length)

InHand == pc \in {"open", "send", "spin", "first", "body", "done"}

\* The buffer is empty before the first segment; there is no second but behind an
\* upload of length 0.
Serving ==
  asgn = 2 =>
    /\ job.act = "crash" => again
    /\ again \/ (pc = "recv" /\ got > 0) => SentEmptyUpload
    /\ pc = "recv" /\ got = 0 => reqString = <<>>
    /\ InHand /\ ~again => OwnRequest

\* The first segment is alone in the buffer.
LEMMA FirstArrived ==
  ASSUME Typing, Serving, asgn = 2, pc = "recv", got = 0, NEW n, NEW s, NEW r, Arrived(n, s, r)
  PROVE  /\ parts \in Seq(Part) /\ Len(parts) \in Nat /\ n \in 1..Len(parts) /\ n \in Nat
         /\ s \o r = s /\ s \in Seq(Part) /\ Len(s) = n /\ Len(s) <= Len(parts)
         /\ \A i \in 1..Len(s) : s[i] = parts[i] \/ (i = Len(s) /\ s[i] = Torn(parts[i]))
         /\ Segment(n) \in Seq(Part) /\ Len(Segment(n)) = n
         /\ \A i \in 1..n : Segment(n)[i] = parts[i] /\ parts[i] \in Part
         /\ OverOldLine(Segment(n), reqString) = {}
<1>1. /\ parts \in Seq(Part) /\ Len(parts) \in Nat /\ got \in 0..Len(parts)
      BY Connected
<1>2. /\ n \in Nat /\ n \in 1..(Len(parts) - got)
      /\ Segment(n) \in Seq(Part) /\ Len(Segment(n)) = n
      /\ \A i \in 1..n : Segment(n)[i] = parts[got + i] /\ parts[got + i] \in Part
      BY <1>1, SegmentFacts DEF Arrived
<1>3. n \in 1..Len(parts) /\ \A i \in 1..n : Segment(n)[i] = parts[i] /\ parts[i] \in Part
  <2>1. Len(parts) - got = Len(parts) /\ \A i \in 1..n : got + i = i
        BY <1>1, <1>2
  <2> QED BY <1>2, <2>1
<1>4. reqString = <<>> /\ reqString \in Seq(Part)
      BY DEF Serving, Typing, TypeOK
<1>5. First(<<>>, "line") = 0
  <2>1. Len(<<>>) = 0
        OBVIOUS
  <2> QED BY <2>1, FirstFacts
<1>6. OverOldLine(Segment(n), reqString) = {}
      BY <1>4, <1>5 DEF OverOldLine
<1>7. s \in Received(Segment(n), reqString) /\ r = <<>>
      BY <1>4, <1>6, RestsFacts DEF Arrived
<1>8. Segment(n) # <<>>
      BY <1>2
<1>9. /\ s \in Seq(Part) /\ Len(s) = n
      /\ \A i \in 1..n : i # n => s[i] = Segment(n)[i]
      /\ s[n] \in {Segment(n)[n], Torn(Segment(n)[n])}
      BY <1>2, <1>4, <1>7, <1>8, ReceivedFacts
<1>10. s \o r = s
      BY <1>7, <1>9, ConcatEmptySeq
<1>11. \A i \in 1..Len(s) : s[i] = parts[i] \/ (i = Len(s) /\ s[i] = Torn(parts[i]))
      BY <1>3, <1>9
<1> QED BY <1>1, <1>2, <1>3, <1>6, <1>9, <1>10, <1>11

\* What is made of it is what the client asks for.
LEMMA FirstSegment ==
  ASSUME Typing, Serving, asgn = 2, pc = "recv", got = 0,
         NEW n, NEW s, NEW r, Arrived(n, s, r), NEW o, o = Checked2(s \o r, n)
  PROVE  /\ o.act # "crash"
         /\ o.act = "none" => SentEmptyUpload
         /\ o.act \in {"get", "upload"} =>
              LET length == First(parts, "length")
                  id == First(parts, "id")
              IN /\ Paths(Segment(n), s \in OverOldLine(Segment(n), reqString))
                      = {request[conn].file}
                 /\ o.id # 0 => id # 0 /\ o.id <= parts[id].value
                 /\ IF o.act = "get" THEN method(parts) = "GET"
                    ELSE /\ method(parts) = o.method
                         /\ length # 0 /\ o.contLen = Atoi(parts[length].value)
                         /\ n - o.bodyVal = BlankAfter(parts, length)
<1>1. /\ parts \in Seq(Part) /\ Len(parts) \in Nat /\ n \in 1..Len(parts) /\ n \in Nat
      /\ s \o r = s /\ s \in Seq(Part) /\ Len(s) = n /\ Len(s) <= Len(parts)
      /\ \A i \in 1..Len(s) : s[i] = parts[i] \/ (i = Len(s) /\ s[i] = Torn(parts[i]))
      /\ Segment(n) \in Seq(Part) /\ Len(Segment(n)) = n
      /\ \A i \in 1..n : Segment(n)[i] = parts[i] /\ parts[i] \in Part
      /\ OverOldLine(Segment(n), reqString) = {}
      BY FirstArrived
<1>2. o = Checked(s, n)
      BY <1>1 DEF Checked2
<1>3. /\ \A kind \in {"id", "length", "line"} : First(s, kind) # 0 =>
           /\ First(parts, kind) = First(s, kind)
           /\ First(s, kind) \in 1..Len(s)
           /\ kind = "length" => s[First(s, kind)] = parts[First(s, kind)]
           /\ kind = "id" =>
                /\ s[First(s, kind)].value \in Nat
                /\ parts[First(s, kind)].value \in Nat
                /\ s[First(s, kind)].value <= parts[First(s, kind)].value
      /\ \A k \in Nat : BlankAfter(s, k) # 0 =>
           /\ BlankAfter(parts, k) = BlankAfter(s, k)
           /\ BlankAfter(s, k) \in 1..Len(s)
      BY <1>1, FoundInSegment
<1>4. method(s) # "bad" => method(parts) = method(s)
      BY <1>1, MethodInSegment
<1>5. requestIdNum(s) # 0 =>
        /\ First(parts, "id") # 0
        /\ requestIdNum(s) <= parts[First(parts, "id")].value
  <2> SUFFICES ASSUME requestIdNum(s) # 0
               PROVE  /\ First(parts, "id") # 0
                      /\ requestIdNum(s) <= parts[First(parts, "id")].value
      OBVIOUS
  <2> DEFINE i == First(s, "id")
  <2>1. i # 0 /\ requestIdNum(s) = Atoi(s[i].value)
        BY DEF requestIdNum
  <2>2. /\ First(parts, "id") = i /\ s[i].value \in Nat /\ parts[i].value \in Nat
        /\ s[i].value <= parts[i].value
        BY <1>3, <2>1
  <2>3. Atoi(s[i].value) \in Int /\ Atoi(s[i].value) <= s[i].value
        BY <2>2, AtoiInt
  <2> QED BY <2>1, <2>2, <2>3
<1>6. GoodLength(s) =>
        /\ First(parts, "length") # 0
        /\ contentLengthInt(s) = Atoi(parts[First(parts, "length")].value)
        /\ beforeBody(s) = BlankAfter(parts, First(parts, "length"))
        /\ beforeBody(s) \in 1..n
      BY <1>1, <1>3 DEF GoodLength, contentLengthInt, beforeBody
<1>7. ASSUME method(s) \in {"GET", "PUT", "APPEND"}
      PROVE  Paths(Segment(n), s \in OverOldLine(Segment(n), reqString)) = {request[conn].file}
  <2> DEFINE a == Start(s)
  <2>1. a \in 1..n /\ s[a].kind = "line"
        BY <1>1, <1>7, StartFacts DEF method
  <2> HIDE DEF a
  <2>2. Segment(n)[a].kind = "line"
    <3>1. parts[a] \in Part /\ (s[a] = parts[a] \/ s[a] = Torn(parts[a]))
          BY <1>1, <2>1
    <3>2. parts[a].kind = "line"
          BY <2>1, <3>1, TornFacts DEF RequestId, Header
    <3> QED BY <1>1, <2>1, <3>2
  <2>3. First(Segment(n), "line") # 0
        BY <1>1, <2>1, <2>2, FirstFacts
  <2> QED BY <1>1, <2>3 DEF Paths
<1>8. \/ o \in Refusal
      \/ o.act = "get" /\ o = [act |-> "get", id |-> requestIdNum(s)] /\ method(s) = "GET"
      \/ /\ o = NoAnswer /\ contentLengthInt(s) = 0
         /\ method(s) \in {"PUT", "APPEND"} /\ GoodLength(s)
      \/ o = Crash /\ n < beforeBody(s) /\ GoodLength(s)
      \/ /\ o.act = "upload" /\ o = Upload(s, n) /\ o \in UploadJob
         /\ o.bodyVal = n - beforeBody(s)
         /\ method(s) = o.method /\ GoodLength(s)
      BY <1>1, <1>2, CheckedFacts
<1>9. CASE o \in Refusal
      BY <1>9 DEF Refusal
<1>10. CASE o.act = "get" /\ o = [act |-> "get", id |-> requestIdNum(s)] /\ method(s) = "GET"
  <2>1. o.id = requestIdNum(s)
        BY <1>10
  <2> QED BY <1>4, <1>5, <1>7, <1>10, <2>1
<1>11. CASE /\ o = NoAnswer /\ contentLengthInt(s) = 0
            /\ method(s) \in {"PUT", "APPEND"} /\ GoodLength(s)
  <2>1. o.act = "none"
        BY <1>11 DEF NoAnswer
  <2> QED BY <1>4, <1>6, <1>11, <2>1 DEF SentEmptyUpload
<1>12. CASE o = Crash /\ n < beforeBody(s) /\ GoodLength(s)
      BY <1>1, <1>6, <1>12
<1>13. CASE /\ o.act = "upload" /\ o = Upload(s, n) /\ o \in UploadJob
            /\ o.bodyVal = n - beforeBody(s)
            /\ method(s) = o.method /\ GoodLength(s)
  <2>1. o.id = requestIdNum(s) /\ o.contLen = contentLengthInt(s)
        BY <1>13 DEF Upload
  <2>2. method(s) \in {"PUT", "APPEND"}
        BY <1>13 DEF UploadJob
  <2>3. n - o.bodyVal = beforeBody(s)
        BY <1>1, <1>6, <1>13
  <2> QED BY <1>4, <1>5, <1>6, <1>7, <1>13, <2>1, <2>2, <2>3
<1> QED BY <1>8, <1>9, <1>10, <1>11, <1>12, <1>13

LEMMA InitServing == Init => Serving
BY DEF Init, Serving, InHand, NoAnswer

\* The local variables of the request stay, and so does the connection.
LEMMA ServingStays ==
  ASSUME Serving, UNCHANGED <<asgn, request, conn, job, again>>,
         pc' = "recv" => pc = "recv" /\ UNCHANGED <<got, reqString>>,
         InHand' => InHand /\ (job.act = "upload" => got' = got)
  PROVE  Serving'
<1>1. parts' = parts /\ file' = file
      BY DEF parts, file
<1> QED BY <1>1 DEF Serving, SentEmptyUpload, OwnRequest

LEMMA NextServing == Typing /\ Serving /\ [Next]_vars => Serving'
<1> SUFFICES ASSUME Typing, Serving, [Next]_vars PROVE Serving'
    OBVIOUS
<1>1. CASE UNCHANGED vars
      BY <1>1, ServingStays DEF vars, InHand
<1>2. CASE Accept
  <2>1. pc = "accept" /\ pc' = "recv" /\ UNCHANGED <<asgn, got, job, again>>
        /\ reqString' = IF asgn = 1 THEN NewBuffer1 ELSE <<>>
        BY <1>2 DEF Accept, Goto, NewBuffer2
  <2>2. got = 0 /\ ~again
        BY <2>1 DEF Typing, Working
  <2> QED BY <2>1, <2>2 DEF Serving, InHand
<1>3. CASE Receive
  <2> SUFFICES ASSUME asgn = 2 PROVE Serving'
      BY <1>3 DEF Receive, Serving
  <2>1. pc = "recv" /\ again' = (got > 0) /\ UNCHANGED <<asgn, request, conn>>
        BY <1>3 DEF Receive
  <2>2. PICK n, s, r, paths, o :
          /\ Arrived(n, s, r) /\ got' = got + n
          /\ o = Checked2(s \o r, n) /\ Dispatch(o, paths) /\ paths \in SUBSET File
          /\ paths = Paths(Segment(n), s \in OverOldLine(Segment(n), reqString))
        BY <1>3, ReceiveStep
  <2>3. n \in Nat /\ n >= 1 /\ got \in Nat
        BY <2>1, <2>2, ArrivedFacts, Connected
  <2>4. parts' = parts
        BY <2>1 DEF parts
  <2>5. CASE got = 0
    <3>1. /\ o.act # "crash"
          /\ o.act = "none" => SentEmptyUpload
          /\ o.act \in {"get", "upload"} =>
               LET length == First(parts, "length")
                   id == First(parts, "id")
               IN /\ paths = {request[conn].file}
                  /\ o.id # 0 => id # 0 /\ o.id <= parts[id].value
                  /\ IF o.act = "get" THEN method(parts) = "GET"
                     ELSE /\ method(parts) = o.method
                          /\ length # 0 /\ o.contLen = Atoi(parts[length].value)
                          /\ n - o.bodyVal = BlankAfter(parts, length)
          BY <2>1, <2>2, <2>5, FirstSegment
    <3>2. \/ o \in Refusal /\ job' = o /\ pc' = "close"
          \/ o = NoAnswer /\ job' = o /\ pc' = "recv"
          \/ o = Crash
          \/ /\ o.act \in {"get", "upload"} /\ pc' = "open"
             /\ \E f \in paths : job' = Parsed(o, f)
      <4>1. o = IF asgn = 1 THEN Checked1(s \o r, n) ELSE Checked2(s \o r, n)
            BY <2>2
      <4>2. Dispatch(o, paths) /\ Arrived(n, s, r) /\ paths \in SUBSET File
            BY <2>2
      <4>3. o \in Refusal \/ o = NoAnswer \/ o = Crash \/ o.act \in {"get", "upload"}
            BY <2>1, <4>1, <4>2, DispatchFacts
      <4>4. o = NoAnswer => o.act = "none"
            BY DEF NoAnswer
      <4>5. o \in Refusal => o.act = "refuse"
            BY DEF Refusal
      <4> QED BY <2>2, <4>3, <4>4, <4>5 DEF Dispatch
    <3>3. ~again' /\ got' = n /\ got' # 0
      <4>1. ~(got > 0) /\ got' = n /\ got' # 0
            BY <2>2, <2>3, <2>5
      <4> QED BY <2>1, <4>1, Zenon
    <3>4. CASE o \in Refusal /\ job' = o /\ pc' = "close"
          BY <3>3, <3>4 DEF Serving, Refusal, InHand
    <3>5. CASE o = NoAnswer /\ job' = o /\ pc' = "recv"
      <4>1. SentEmptyUpload'
            BY <2>4, <3>1, <3>5 DEF SentEmptyUpload, NoAnswer
      <4> QED BY <3>3, <3>5, <4>1 DEF Serving, NoAnswer, InHand
    <3>6. CASE o = Crash
          BY <3>1, <3>6 DEF Crash
    <3>7. CASE /\ o.act \in {"get", "upload"} /\ pc' = "open"
               /\ \E f \in paths : job' = Parsed(o, f)
      <4>1. job' = Parsed(o, request[conn].file)
            BY <3>1, <3>7
      <4>2. /\ file' = request'[conn'].file /\ job'.id = o.id /\ job'.act = o.act
            /\ o.act = "upload" => /\ job'.method = o.method /\ job'.contLen = o.contLen
                                   /\ job'.bodyVal = o.bodyVal
            BY <2>1, <3>7, <4>1 DEF Parsed, file
      <4>3. OwnRequest'
            BY <2>4, <3>1, <3>3, <3>7, <4>2 DEF OwnRequest
      <4> QED BY <3>3, <3>7, <4>2, <4>3 DEF Serving
    <3> QED BY <3>2, <3>4, <3>5, <3>6, <3>7
  <2>6. CASE got # 0
    <3>1. got > 0 /\ got' # 0
          BY <2>2, <2>3, <2>6
    <3>2. again' /\ SentEmptyUpload
          BY <2>1, <3>1 DEF Serving
    <3>3. SentEmptyUpload'
          BY <2>4, <3>2 DEF SentEmptyUpload
    <3> QED BY <3>1, <3>2, <3>3 DEF Serving
  <2> QED BY <2>5, <2>6
<1>4. CASE PutOpens \/ AppendOpens
  <2>1. /\ pc = "open" /\ pc' = "first" /\ (IsPut \/ IsAppend)
        /\ UNCHANGED <<asgn, request, conn, got, again>>
        /\ \E old, code : job' = OpenedJob(old, code)
        BY <1>4 DEF PutOpens, AppendOpens
  <2>2. job.act = "upload"
        BY <2>1 DEF IsPut, IsAppend
  <2>3. /\ job'.act = "stores" /\ job'.method = job.method /\ job'.contLen = job.contLen
        /\ job'.from = got - job.bodyVal /\ job'.id = job.id /\ job'.file = job.file
        BY <2>1 DEF OpenedJob
  <2>4. parts' = parts /\ file' = file
        BY <2>1, <2>3 DEF parts, file
  <2> QED BY <2>1, <2>2, <2>3, <2>4 DEF Serving, InHand, SentEmptyUpload, OwnRequest
<1>5. CASE StoreChunk
  <2>1. pc = "body" /\ pc' = "body" /\ UNCHANGED <<asgn, request, conn, again>>
        BY <1>5 DEF StoreChunk
  <2>2. job \in StoreJob
        BY <2>1 DEF Typing, Working
  <2>3. \E x : job' = [job EXCEPT !.total = x]
        BY <1>5 DEF StoreChunk
  <2>4. /\ job'.act = "stores" /\ job.act = "stores" /\ job'.method = job.method
        /\ job'.contLen = job.contLen /\ job'.from = job.from /\ job'.id = job.id
        /\ job'.file = job.file
        BY <2>2, <2>3 DEF StoreJob
  <2>5. parts' = parts /\ file' = file
        BY <2>1, <2>4 DEF parts, file
  <2> QED BY <2>1, <2>4, <2>5 DEF Serving, InHand, SentEmptyUpload, OwnRequest
<1>6. CASE GetFails \/ PutFails \/ AppendFails \/ SendStored
  <2>1. pc' \in {"log", "close"} /\ UNCHANGED <<asgn, request, conn, job, again>>
        BY <1>6, FinishingSteps DEF Finish, Return
  <2> QED BY <2>1, ServingStays DEF InHand
<1>7. CASE Close \/ Kill \/ Restart
  <2>1. pc' \in {"accept", "down"} /\ job' = NoAnswer /\ again' = FALSE
        BY <1>7 DEF Close, Kill, Restart, Forget, Goto
  <2> QED BY <2>1 DEF Serving, InHand, NoAnswer
<1>8. CASE \/ Swallow \/ EndOfStream \/ GetOpens \/ GetSpins2 \/ SendFile \/ WriteFirst
           \/ BodyEnds \/ Log \/ ReceiveFails \/ BodyFails
  <2>1. /\ UNCHANGED <<asgn, request, conn, job, again>> /\ pc' # "recv"
        /\ InHand' => InHand /\ got' = got
        BY <1>8 DEF Swallow, EndOfStream, GetOpens, GetSpins2, SendFile, Return, WriteFirst,
                BodyEnds, AfterBody, Log, ReceiveFails, BodyFails, Goto, InHand
  <2> QED BY <2>1, ServingStays
<1> QED BY <1>1, <1>2, <1>3, <1>4, <1>5, <1>6, <1>7, <1>8 DEF Next, ServerStep

\* asgn2 does what the client of the connection asked for, in whatever pieces it came
\* and whoever was served before, and stays up, but for clients that send more behind an
\* upload of length 0.
THEOREM ServerServesOwnRequest == Spec => []ServesOwnRequest
<1>1. Init => Typing /\ Serving
      BY InitTyping, InitServing
<1>2. Typing /\ Serving /\ [Next]_vars => (Typing /\ Serving)'
      BY NextTyping, NextServing
<1>3. Typing /\ Serving => ServesOwnRequest
      BY DEF Serving, InHand, SentEmptyUpload, OwnRequest, ServesOwnRequest
<1> QED BY <1>1, <1>2, <1>3, PTL DEF Spec

=============================================================================
