------------------------- MODULE RequestParser_proofs -------------------------
(***************************************************************************)
(* Proofs about RequestParser: what is received, and the lengths that are   *)
(* handed on, for all streams, buffer sizes and widths of int and long.     *)
(***************************************************************************)
EXTENDS RequestParser, TLAPS, SequenceTheorems, WellFoundedInduction

-----------------------------------------------------------------------------
(* The first part of a kind.                                               *)

LEMMA MinimalElement ==
  ASSUME NEW T, T \subseteq Nat, T # {}, NEW R, IsWellFoundedOn(R, Nat)
  PROVE  \E x \in T : \A y \in T : <<y, x>> \notin R
<1>1. ASSUME NEW U
      PROVE  T \subseteq U /\ IsWellFoundedOn(R, U) => \E x \in T : \A y \in T : <<y, x>> \notin R
      BY WFMin
<1> QED BY <1>1

LEMMA MinimalIsLeast ==
  ASSUME NEW T, T \subseteq Nat, T # {}, NEW R, IsWellFoundedOn(R, Nat),
         \A x, y \in Nat : x < y => <<x, y>> \in R
  PROVE  \E x \in T : \A y \in T : x <= y
<1>1. PICK x \in T : \A y \in T : <<y, x>> \notin R
      BY MinimalElement
<1>2. \A y \in T : ~(y < x)
      BY <1>1
<1> QED BY <1>2

\* Every set of natural numbers has a least element.
LEMMA LeastNumber ==
  ASSUME NEW T, T \subseteq Nat, T # {}
  PROVE  Min(T) \in T /\ \A y \in T : Min(T) <= y
<1>1. \A x, y \in Nat : x < y => <<x, y>> \in OpToRel(<, Nat)
      BY DEF OpToRel
<1>2. \E x \in T : \A y \in T : x <= y
      BY <1>1, MinimalIsLeast, NatLessThanWellFounded, Zenon
<1> QED BY <1>2 DEF Min

\* strstr() for a header.
LEMMA FirstFacts ==
  ASSUME NEW s, Len(s) \in Nat, NEW kind
  PROVE  /\ First(s, kind) \in 0..Len(s)
         /\ First(s, kind) = 0 => \A i \in 1..Len(s) : s[i].kind # kind
         /\ First(s, kind) # 0 =>
              /\ s[First(s, kind)].kind = kind
              /\ \A i \in 1..Len(s) : s[i].kind = kind => First(s, kind) <= i
<1> DEFINE I == {i \in 1..Len(s) : s[i].kind = kind}
<1>1. First(s, kind) = IF I # {} THEN Min(I) ELSE 0
      BY DEF First, SelectInSeq
<1>2. CASE I # {}
  <2>1. I \subseteq Nat
        OBVIOUS
  <2>2. Min(I) \in I /\ \A y \in I : Min(I) <= y
    <3> HIDE DEF I
    <3> QED BY <1>2, <2>1, LeastNumber
  <2> QED BY <1>1, <1>2, <2>2
<1>3. CASE I = {}
      BY <1>1, <1>3
<1> QED BY <1>2, <1>3

\* Where the first word is.
LEMMA StartFacts ==
  ASSUME NEW s, Len(s) \in Nat
  PROVE  /\ Start(s) \in 0..Len(s)
         /\ Start(s) = 0 => \A i \in 1..Len(s) : s[i].kind = "blank"
         /\ Start(s) # 0 =>
              /\ s[Start(s)].kind # "blank"
              /\ \A i \in 1..Len(s) : s[i].kind # "blank" => Start(s) <= i
<1> DEFINE I == {i \in 1..Len(s) : s[i].kind # "blank"}
<1>1. Start(s) = IF I # {} THEN Min(I) ELSE 0
      BY DEF Start, SelectInSeq
<1>2. CASE I # {}
  <2>1. I \subseteq Nat
        OBVIOUS
  <2>2. Min(I) \in I /\ \A y \in I : Min(I) <= y
    <3> HIDE DEF I
    <3> QED BY <1>2, <2>1, LeastNumber
  <2> QED BY <1>1, <1>2, <2>2
<1>3. CASE I = {}
      BY <1>1, <1>3
<1> QED BY <1>2, <1>3

\* strstr() for the empty line behind it.
LEMMA BlankAfterFacts ==
  ASSUME NEW s, Len(s) \in Nat, NEW k \in Nat
  PROVE  /\ BlankAfter(s, k) \in {0} \cup ((k + 1)..Len(s))
         /\ BlankAfter(s, k) = 0 => \A i \in (k + 1)..Len(s) : s[i].kind # "blank"
         /\ BlankAfter(s, k) # 0 =>
              /\ s[BlankAfter(s, k)].kind = "blank"
              /\ \A i \in (k + 1)..Len(s) : s[i].kind = "blank" => BlankAfter(s, k) <= i
<1> DEFINE I == {i \in (k + 1)..Len(s) : s[i].kind = "blank"}
<1>1. BlankAfter(s, k) = IF I # {} THEN Min(I) ELSE 0
      BY DEF BlankAfter, SelectInSubSeq
<1>2. CASE I # {}
  <2>1. I \subseteq Nat
        OBVIOUS
  <2>2. Min(I) \in I /\ \A y \in I : Min(I) <= y
    <3> HIDE DEF I
    <3> QED BY <1>2, <2>1, LeastNumber
  <2> QED BY <1>1, <1>2, <2>2
<1> QED BY <1>1, <1>2

\* What is found in the beginning of a stream is found in the stream.
LEMMA FirstInPrefix ==
  ASSUME NEW s, Len(s) \in Nat, NEW t, Len(t) \in Nat, Len(t) <= Len(s),
         \A i \in 1..Len(t) : t[i] = s[i], NEW kind, First(t, kind) # 0
  PROVE  First(s, kind) = First(t, kind)
<1>1. /\ First(t, kind) \in 1..Len(t) /\ t[First(t, kind)].kind = kind
      /\ \A i \in 1..Len(t) : t[i].kind = kind => First(t, kind) <= i
      BY FirstFacts
<1>2. First(t, kind) \in 1..Len(s) /\ s[First(t, kind)].kind = kind
      BY <1>1
<1>3. /\ First(s, kind) \in 1..Len(s) /\ s[First(s, kind)].kind = kind
      /\ First(s, kind) <= First(t, kind)
      BY <1>2, FirstFacts
<1>4. First(s, kind) \in 1..Len(t) /\ t[First(s, kind)].kind = kind
      BY <1>1, <1>3
<1> QED BY <1>1, <1>3, <1>4

LEMMA BlankAfterInPrefix ==
  ASSUME NEW s, Len(s) \in Nat, NEW t, Len(t) \in Nat, Len(t) <= Len(s),
         \A i \in 1..Len(t) : t[i] = s[i], NEW k \in Nat, BlankAfter(t, k) # 0
  PROVE  BlankAfter(s, k) = BlankAfter(t, k)
<1>1. /\ BlankAfter(t, k) \in (k + 1)..Len(t) /\ t[BlankAfter(t, k)].kind = "blank"
      /\ \A i \in (k + 1)..Len(t) : t[i].kind = "blank" => BlankAfter(t, k) <= i
      BY BlankAfterFacts
<1>2. BlankAfter(t, k) \in (k + 1)..Len(s) /\ s[BlankAfter(t, k)].kind = "blank"
      BY <1>1
<1>3. /\ BlankAfter(s, k) \in (k + 1)..Len(s) /\ s[BlankAfter(s, k)].kind = "blank"
      /\ BlankAfter(s, k) <= BlankAfter(t, k)
      BY <1>2, BlankAfterFacts
<1>4. BlankAfter(s, k) \in (k + 1)..Len(t) /\ t[BlankAfter(s, k)].kind = "blank"
      BY <1>1, <1>3
<1> QED BY <1>1, <1>3, <1>4

-----------------------------------------------------------------------------
(* Numbers.                                                                *)

\* A conversion that is not negative is the number modulo the size of an int, and the
\* number itself if it fits: what saturates comes out as -1.
LEMMA AtoiFacts ==
  ASSUME NEW n \in Nat
  PROVE  /\ Atoi(n) \in Int
         /\ n <= INT_MAX => Atoi(n) = n
         /\ Atoi(n) >= 0 => /\ Atoi(n) \in 0..INT_MAX
                            /\ (n - Atoi(n)) % (2 * (INT_MAX + 1)) = 0
<1> DEFINE M == 2 * (INT_MAX + 1)
           long == IF n <= LONG_MAX THEN n ELSE LONG_MAX
<1>1. INT_MAX \in Nat /\ LONG_MAX \in Nat /\ M \in Nat \ {0} /\ M = 2 * (INT_MAX + 1)
      BY NumbersAssumption
<1>2. PICK k \in 1..(LONG_MAX + 1) : LONG_MAX + 1 = k * M
      BY NumbersAssumption
<1>3. long \in Nat
      BY <1>1
<1>4. Atoi(n) = IF long % M <= INT_MAX THEN long % M ELSE (long % M) - M
      BY DEF Atoi
<1> HIDE DEF M
<1>5. long % M \in 0..(M - 1)
      BY <1>1, <1>3
<1>6. LONG_MAX = (k - 1) * M + (M - 1) /\ k - 1 \in Nat
  <2>1. k * M = (k - 1) * M + M
        BY <1>1
  <2> QED BY <1>1, <1>2, <2>1
<1>7. LONG_MAX % M = M - 1
      BY <1>1, <1>6
<1>8. M <= LONG_MAX + 1
  <2>1. (k - 1) * M >= 0
        BY <1>1, <1>6
  <2> QED BY <1>1, <1>6, <2>1
<1>9. ASSUME n <= INT_MAX PROVE Atoi(n) = n
  <2>1. long = n
        BY <1>1, <1>8, <1>9
  <2>2. n % M = n
        BY <1>1, <1>9
  <2> QED BY <1>4, <1>9, <2>1, <2>2
<1>10. ASSUME Atoi(n) >= 0
       PROVE  Atoi(n) \in 0..INT_MAX /\ (n - Atoi(n)) % M = 0
  <2>1. long % M <= INT_MAX /\ Atoi(n) = long % M
        BY <1>1, <1>4, <1>5, <1>10
  <2>2. n <= LONG_MAX
        BY <1>1, <1>7, <2>1
  <2>3. (n - (n % M)) % M = 0
        BY <1>1
  <2> QED BY <1>1, <1>5, <2>1, <2>2, <2>3
<1>11. Atoi(n) \in Int
       BY <1>1, <1>4, <1>5
<1> QED BY <1>9, <1>10, <1>11 DEF M

-----------------------------------------------------------------------------
(* What has been received.                                                 *)

\* Behind the loop, the outcome is that of the checks.
Parsing ==
  /\ TypeOK /\ reqString \in Seq(Part)
  /\ outcome = IF pc = "done" THEN Checked(reqString, initialReqRead) ELSE NoAnswer

\* The beginning of a sequence.
LEMMA Prefix ==
  ASSUME NEW s \in Seq(Part), NEW n \in 0..Len(s)
  PROVE  /\ SubSeq(s, 1, n) \in Seq(Part) /\ Len(SubSeq(s, 1, n)) = n
         /\ \A i \in 1..n : SubSeq(s, 1, n)[i] = s[i]
<1>1. Len(s) \in Nat /\ \A i \in 1..n : s[i] \in Part
      BY LenProperties, ElementOfSeq
<1> QED BY <1>1, SubSeqProperties

\* One more piece.
LEMMA PrefixGrows ==
  ASSUME NEW s \in Seq(Part), NEW m \in 0..Len(s), NEW n \in (m + 1)..Len(s)
  PROVE  Received(SubSeq(s, 1, m), SubSeq(s, m + 1, n)) = SubSeq(s, 1, n)
<1>1. Len(s) \in Nat
      BY LenProperties
<1>2. 1 \in 1..(Len(s) + 1) /\ m \in (1 - 1)..Len(s) /\ n \in m..Len(s)
      BY <1>1
<1> QED BY <1>2, ConcatAdjacentSubSeq DEF Received

LEMMA StreamFacts ==
  ASSUME TypeOK, reqString \in Seq(Part)
  PROVE  /\ stream \in Seq(Part) /\ Len(stream) \in Nat
         /\ Len(reqString) \in 0..Len(stream)
         /\ \A i \in 1..Len(reqString) : reqString[i] = stream[i]
         /\ \A i \in 1..Len(stream) : stream[i] \in Part
<1>1. /\ stream \in Seq(Part) /\ Len(stream) \in Nat /\ Len(reqString) \in Nat
      /\ sent \in 0..Len(stream)
      BY ParserAssumption, LenProperties DEF TypeOK
<1>2. reqString = SubSeq(stream, 1, Len(reqString)) /\ Len(reqString) <= sent
      BY DEF TypeOK
<1> QED BY <1>1, <1>2, Prefix, ElementOfSeq

LEMMA InitParsing == Init => Parsing
<1> SUFFICES ASSUME Init PROVE Parsing
    OBVIOUS
<1>1. stream \in Seq(Part) /\ Len(stream) \in Nat
      BY ParserAssumption, LenProperties DEF Init
<1>2. SubSeq(stream, 1, 0) = <<>> /\ Len(<<>>) = 0 /\ <<>> \in Seq(Part)
      BY <1>1, Prefix
<1>3. MAXLENGTH \in Nat /\ Waiting \in BOOLEAN
      BY ParserAssumption
<1>4. patient \in BOOLEAN
      BY <1>3, Zenon DEF Init
<1>5. Len(reqString) = 0 /\ sent = 0 /\ sent \in 0..Len(stream)
      BY <1>1, <1>2 DEF Init
<1>6. reqString = SubSeq(stream, 1, Len(reqString))
      BY <1>2, <1>5 DEF Init
<1>7. closed \in BOOLEAN /\ reset \in BOOLEAN
      BY Zenon DEF Init
<1>8. stream \in Stream /\ pc \in {"recv", "done"}
      BY DEF Init
<1>9. Len(reqString) <= MAXLENGTH /\ Len(reqString) <= sent
      BY <1>3, <1>5
<1>10. TypeOK
      BY <1>4, <1>5, <1>6, <1>7, <1>8, <1>9, Zenon DEF TypeOK
<1> QED BY <1>2, <1>10 DEF Init, Parsing

LEMMA NextParsing == Parsing /\ [Next]_vars => Parsing'
<1> SUFFICES ASSUME Parsing, [Next]_vars PROVE Parsing'
    OBVIOUS
<1>1. CASE UNCHANGED vars
      BY <1>1 DEF vars, Parsing, TypeOK, initialReqRead
<1>2. CASE ClientSends
  <2>1. PICK n \in (sent + 1)..Len(stream) : sent' = n
        BY <1>2 DEF ClientSends
  <2>2. UNCHANGED <<stream, patient, closed, reset, pc, reqString, outcome>>
        BY <1>2 DEF ClientSends
  <2>3. sent \in Nat /\ Len(stream) \in Nat /\ Len(reqString) \in Nat
        BY StreamFacts, LenProperties DEF Parsing, TypeOK
  <2>4. sent' \in 0..Len(stream) /\ Len(reqString) <= sent'
        BY <2>1, <2>3 DEF Parsing, TypeOK
  <2> QED BY <2>2, <2>4 DEF Parsing, TypeOK, initialReqRead
<1>3. CASE ClientCloses
      BY <1>3 DEF ClientCloses, Parsing, TypeOK, initialReqRead
<1>4. CASE Receive
  <2>1. PICK n \in (Len(reqString) + 1)..sent :
          /\ n <= MAXLENGTH
          /\ reqString' = Received(reqString, SubSeq(stream, Len(reqString) + 1, n))
        BY <1>4 DEF Receive
  <2>2. /\ UNCHANGED <<stream, patient, sent, closed, reset, pc, outcome>>
        /\ pc = "recv"
        BY <1>4 DEF Receive
  <2>3. /\ stream \in Seq(Part) /\ Len(stream) \in Nat /\ Len(reqString) \in 0..Len(stream)
        /\ sent \in 0..Len(stream)
        BY StreamFacts DEF Parsing, TypeOK
  <2>4. n \in (Len(reqString) + 1)..Len(stream) /\ n \in 0..Len(stream)
        BY <2>1, <2>3
  <2>5. reqString' = SubSeq(stream, 1, n)
    <3>1. reqString = SubSeq(stream, 1, Len(reqString))
          BY DEF Parsing, TypeOK
    <3>2. reqString' = Received(SubSeq(stream, 1, Len(reqString)),
                                SubSeq(stream, Len(reqString) + 1, n))
          BY <2>1, <3>1
    <3> QED BY <2>3, <2>4, <3>2, PrefixGrows
  <2>6. reqString' \in Seq(Part) /\ Len(reqString') = n
        BY <2>3, <2>4, <2>5, Prefix
  <2> QED BY <2>1, <2>2, <2>3, <2>4, <2>5, <2>6 DEF Parsing, TypeOK
<1>5. CASE ReceiveFails
      BY <1>5 DEF ReceiveFails, Parsing, TypeOK
<1>6. CASE Parse
      BY <1>6 DEF Parse, Parsing, TypeOK, initialReqRead
<1> QED BY <1>1, <1>2, <1>3, <1>4, <1>5, <1>6 DEF Next

\* The buffer holds the beginning of what was sent, and no more than fits, however the
\* network cuts it into segments.
THEOREM ParserTypeCorrect == Spec => []TypeOK
<1>1. Parsing => TypeOK
      BY DEF Parsing
<1> QED BY <1>1, InitParsing, NextParsing, PTL DEF Spec

-----------------------------------------------------------------------------
(* The lengths that are handed on.                                         *)

\* What the checks know of an upload they let through, or go down with.
LEMMA CheckedUpload ==
  ASSUME NEW s, NEW n, Checked(s, n).act \in {"upload", "crash"}
  PROVE  /\ GoodLength(s)
         /\ Checked(s, n).act = "crash" => bodyVal(s, n) < 0
         /\ Checked(s, n).act = "upload" =>
              /\ Checked(s, n) = Upload(s, n)
              /\ ~(bodyVal(s, n) < 0)
              /\ ~(contentLengthInt(s) = 0 /\ bodyVal(s, n) = 0)
<1> USE DEF Refuse, NoAnswer, Get, Crash, Upload
<1>1. CASE ~GoodLine(s)
      BY <1>1 DEF Checked
<1>2. CASE GoodLine(s) /\ ~Implemented(s)
      BY <1>2 DEF Checked
<1>3. CASE GoodLine(s) /\ method(s) = "GET"
      BY <1>3 DEF Checked, GoodLine, Implemented
<1>4. CASE GoodLine(s) /\ Implemented(s) /\ method(s) # "GET"
  <2>1. Checked(s, n) = IF ~GoodLength(s) THEN Refuse(RES_BAD_REQUEST)
                        ELSE IF bodyVal(s, n) < 0 THEN Crash
                        ELSE IF contentLengthInt(s) = 0 /\ bodyVal(s, n) = 0 THEN NoAnswer
                        ELSE Upload(s, n)
        BY <1>4 DEF Checked
  <2>2. Upload(s, n).act = "upload"
        OBVIOUS
  <2> HIDE DEF Upload
  <2>3. GoodLength(s)
        BY <2>1
  <2>4. CASE bodyVal(s, n) < 0
        BY <2>1, <2>3, <2>4
  <2>5. CASE ~(bodyVal(s, n) < 0)
        BY <2>1, <2>2, <2>3, <2>5
  <2> QED BY <2>4, <2>5
<1> QED BY <1>1, <1>2, <1>3, <1>4

\* The length that is announced in what was received is that of the stream, and so is
\* the place of its empty line.
LEMMA AnnouncedInBuffer ==
  ASSUME TypeOK, reqString \in Seq(Part), GoodLength(reqString)
  PROVE  /\ First(stream, "length") = First(reqString, "length")
         /\ contentLengthInt(reqString) = Atoi(stream[First(stream, "length")].value)
         /\ contentLengthInt(reqString) >= 0
         /\ stream[First(stream, "length")].value \in Nat
         /\ beforeBody(reqString) = BlankAfter(stream, First(stream, "length"))
         /\ beforeBody(reqString) \in 1..Len(reqString)
<1> DEFINE i == First(reqString, "length")
<1>1. /\ stream \in Seq(Part) /\ Len(stream) \in Nat
      /\ Len(reqString) \in 0..Len(stream) /\ Len(reqString) \in Nat
      /\ \A k \in 1..Len(reqString) : reqString[k] = stream[k]
      /\ \A k \in 1..Len(stream) : stream[k] \in Part
      BY StreamFacts
<1>2. /\ i # 0 /\ reqString[i].form = "plain"
      /\ Atoi(reqString[i].value) >= 0 /\ BlankAfter(reqString, i) # 0
      BY DEF GoodLength
<1>3. i \in 1..Len(reqString) /\ reqString[i].kind = "length"
      BY <1>1, <1>2, FirstFacts
<1>4. First(stream, "length") = i
      BY <1>1, <1>2, FirstInPrefix
<1>5. reqString[i] = stream[i] /\ stream[i] \in Part
      BY <1>1, <1>3
<1>6. stream[i].value \in Nat
      BY <1>3, <1>5 DEF Part
<1>7. BlankAfter(stream, i) = BlankAfter(reqString, i)
      BY <1>1, <1>2, <1>3, BlankAfterInPrefix
<1>8. BlankAfter(reqString, i) \in 1..Len(reqString)
      BY <1>1, <1>2, <1>3, BlankAfterFacts
<1> QED BY <1>2, <1>4, <1>5, <1>6, <1>7, <1>8 DEF contentLengthInt, beforeBody

\* The lengths add up, for what a client sends, how the network delivers it, wherever
\* the connection is reset and whatever an int can hold.
THEOREM LengthsOfUploads == Spec => []LengthsAddUp
<1>1. Parsing => LengthsAddUp
  <2> SUFFICES ASSUME Parsing, outcome.act \in {"upload", "crash"} PROVE LengthsAddUp
      BY DEF LengthsAddUp
  <2> DEFINE announced == stream[First(stream, "length")].value
             body == BlankAfter(stream, First(stream, "length"))
             n == initialReqRead
  <2>1. outcome = Checked(reqString, n)
        BY DEF Parsing, NoAnswer
  <2>2. /\ GoodLength(reqString)
        /\ outcome.act = "crash" => bodyVal(reqString, n) < 0
        /\ outcome.act = "upload" =>
             /\ outcome = Upload(reqString, n)
             /\ ~(bodyVal(reqString, n) < 0)
             /\ ~(contentLengthInt(reqString) = 0 /\ bodyVal(reqString, n) = 0)
        BY <2>1, CheckedUpload
  <2>3. /\ contentLengthInt(reqString) = Atoi(announced)
        /\ Atoi(announced) >= 0 /\ announced \in Nat
        /\ beforeBody(reqString) = body /\ body \in 1..Len(reqString)
        BY <2>2, AnnouncedInBuffer DEF Parsing
  <2>4. /\ Len(stream) \in Nat /\ Len(reqString) \in 0..Len(stream)
        /\ Len(reqString) <= MAXLENGTH /\ MAXLENGTH \in Nat
        /\ n = Len(reqString) - (IF reset THEN 1 ELSE 0)
        BY StreamFacts, ParserAssumption DEF Parsing, TypeOK, initialReqRead
  <2>5. bodyVal(reqString, n) = n - body
        BY <2>3 DEF bodyVal
  <2>6. /\ Atoi(announced) \in 0..INT_MAX
        /\ (announced - Atoi(announced)) % (2 * (INT_MAX + 1)) = 0
        /\ announced <= INT_MAX => Atoi(announced) = announced
        BY <2>3, AtoiFacts
  <2> HIDE DEF announced, body, n
  <2>7. ASSUME outcome.act = "upload"
        PROVE  /\ outcome.contLen = Atoi(announced)
               /\ outcome.bodyVal = n - body /\ n - body >= 0
               /\ Atoi(announced) > 0 \/ n - body > 0
    <3>1. outcome.contLen = contentLengthInt(reqString) /\ outcome.bodyVal = bodyVal(reqString, n)
          BY <2>2, <2>7 DEF Upload
    <3>2. n - body \in Int /\ body \in Int
          BY <2>3, <2>4
    <3> QED BY <2>2, <2>3, <2>5, <2>6, <2>7, <3>1, <3>2
  <2>8. ASSUME outcome.act = "upload"
        PROVE  /\ outcome.bodyVal \in 0..MAXLENGTH
               /\ outcome.bodyVal + (IF reset THEN 1 ELSE 0) + (Len(stream) - Len(reqString))
                    = Len(stream) - body
        BY <2>3, <2>4, <2>7, <2>8
  <2>9. ASSUME outcome.act = "crash" PROVE reset /\ Len(reqString) = body
        BY <2>2, <2>3, <2>4, <2>5, <2>9
  <2> QED BY <2>6, <2>7, <2>8, <2>9 DEF LengthsAddUp, announced, body
<1> QED BY <1>1, InitParsing, NextParsing, PTL DEF Spec

-----------------------------------------------------------------------------
(* The answers.                                                            *)

\* Behind the loop, the buffer has all that was sent or is full.
Enough ==
  /\ closed => sent = Len(stream)
  /\ pc = "done" /\ ~reset => Len(reqString) = Len(stream) \/ Len(reqString) >= MAXLENGTH

LEMMA NextEnough == Parsing /\ Enough /\ [Next]_vars => Enough'
<1> SUFFICES ASSUME Parsing, Enough, [Next]_vars PROVE Enough'
    OBVIOUS
<1>1. /\ Len(stream) \in Nat /\ sent \in Nat /\ Len(reqString) \in Nat /\ MAXLENGTH \in Nat
      BY StreamFacts, ParserAssumption DEF Parsing, TypeOK
<1>2. CASE UNCHANGED vars
      BY <1>2 DEF vars, Enough
<1>3. CASE ClientSends
  <2>1. ~closed
        BY <1>1, <1>3 DEF ClientSends, Enough
  <2> QED BY <1>3, <2>1 DEF ClientSends, Enough
<1>4. CASE ClientCloses
      BY <1>4 DEF ClientCloses, Enough
<1>5. CASE Receive
      BY <1>5 DEF Receive, Enough
<1>6. CASE ReceiveFails
      BY <1>6 DEF ReceiveFails, Enough
<1>7. CASE Parse
      BY <1>1, <1>7 DEF Parse, EndsLoop, RoomLeft, initialReqRead, Enough
<1> QED BY <1>2, <1>3, <1>4, <1>5, <1>6, <1>7 DEF Next

\* The head is what precedes the first empty line behind its start, the body what
\* follows it.
LEMMA HeadFacts ==
  ASSUME stream \in Seq(Part)
  PROVE  LET b == HeadEnd(stream)
             h == Len(RequestHead)
         IN /\ Len(stream) \in Nat /\ b \in 0..Len(stream) /\ h \in 0..Len(stream)
            /\ h = IF b = 0 THEN Len(stream) ELSE b - 1
            /\ \A i \in 1..h : RequestHead[i] = stream[i]
            /\ Start(stream) \in 0..h
            /\ \A i \in (Start(stream) + 1)..Len(stream) :
                 stream[i].kind = "blank" => b # 0 /\ b <= i
            /\ b # 0 => stream[b].kind = "blank"
            /\ PlainBody => \A i \in (h + 2)..Len(stream) : stream[i] = Byte
            /\ RequestBody = <<>> <=> Len(stream) <= h + 1
<1> DEFINE b == HeadEnd(stream)
           h == Len(RequestHead)
           L == Len(stream)
<1>1. L \in Nat /\ \A i \in 1..L : stream[i] \in Part
      BY LenProperties, ElementOfSeq
<1>2. /\ b \in 0..L /\ Start(stream) \in 0..L /\ (b # 0 => Start(stream) < b)
      /\ \A i \in (Start(stream) + 1)..L : stream[i].kind = "blank" => b # 0 /\ b <= i
      /\ b # 0 => stream[b].kind = "blank"
  <2>1. Start(stream) \in 0..L
        BY <1>1, StartFacts
  <2>2. /\ b \in {0} \cup ((Start(stream) + 1)..L)
        /\ b = 0 => \A i \in (Start(stream) + 1)..L : stream[i].kind # "blank"
        /\ b # 0 => /\ stream[b].kind = "blank"
                    /\ \A i \in (Start(stream) + 1)..L : stream[i].kind = "blank" => b <= i
        BY <1>1, <2>1, BlankAfterFacts DEF HeadEnd
  <2> HIDE DEF b
  <2> QED BY <1>1, <2>1, <2>2
<1>3. /\ h \in 0..L /\ h = (IF b = 0 THEN L ELSE b - 1)
      /\ \A i \in 1..h : RequestHead[i] = stream[i]
  <2>1. CASE b = 0
        BY <1>1, <2>1 DEF RequestHead
  <2>2. CASE b # 0
    <3>1. b - 1 \in 0..L
          BY <1>1, <1>2, <2>2
    <3>2. RequestHead = SubSeq(stream, 1, b - 1)
          BY <2>2 DEF RequestHead
    <3> HIDE DEF b
    <3>3. PICK m \in 0..L : m = b - 1
          BY <3>1
    <3>4. h = m /\ \A i \in 1..m : RequestHead[i] = stream[i]
          BY <3>2, <3>3, Prefix
    <3> QED BY <2>2, <3>3, <3>4
  <2> QED BY <2>1, <2>2
<1>4. RequestBody = SubSeq(stream, h + 2, L)
      BY DEF RequestBody
<1> HIDE DEF b, h, L
<1>5. /\ Len(RequestBody) = IF h + 2 <= L THEN L - (h + 2) + 1 ELSE 0
      /\ RequestBody \in Seq(Part)
      /\ \A i \in 1..(L - (h + 2) + 1) : RequestBody[i] = stream[(h + 2) + i - 1]
  <2>1. h + 2 \in Int /\ L \in Int
        BY <1>1, <1>3
  <2>2. \A i \in (h + 2)..L : stream[i] \in Part
        BY <1>1, <1>3
  <2> QED BY <1>4, <2>1, <2>2, SubSeqProperties
<1>6. RequestBody = <<>> <=> L <= h + 1
  <2>1. RequestBody = <<>> <=> Len(RequestBody) = 0
        BY <1>5, EmptySeq
  <2> QED BY <1>1, <1>3, <1>5, <2>1
<1>7. ASSUME PlainBody, NEW i \in (h + 2)..L PROVE stream[i] = Byte
  <2>1. i - (h + 1) \in 1..(L - (h + 2) + 1) /\ (h + 2) + (i - (h + 1)) - 1 = i
        BY <1>1, <1>3
  <2>2. i - (h + 1) \in 1..Len(RequestBody)
        BY <1>1, <1>3, <1>5
  <2>3. RequestBody[i - (h + 1)] = stream[i]
        BY <1>5, <2>1
  <2>4. RequestBody[i - (h + 1)] = Byte
        BY <1>7, <2>2 DEF PlainBody
  <2> QED BY <2>3, <2>4
<1> QED BY <1>1, <1>2, <1>3, <1>6, <1>7 DEF b, h, L

\* What the buffer has of the stream when its checks begin.
Buffered ==
  /\ Parsing /\ Enough
  /\ pc = "done" /\ ~reset /\ PlainBody

LEMMA BufferFacts ==
  ASSUME Buffered
  PROVE  LET b == HeadEnd(stream)
             h == Len(RequestHead)
         IN /\ stream \in Seq(Part)
            /\ Len(reqString) \in 0..Len(stream)
            /\ \A i \in 1..Len(reqString) : reqString[i] = stream[i] /\ stream[i] \in Part
            /\ h <= Len(reqString) /\ (b # 0 => b <= Len(reqString))
            /\ Len(reqString) = Len(stream) \/ Len(reqString) = MAXLENGTH
            /\ Len(reqString) <= MAXLENGTH
<1> DEFINE b == HeadEnd(stream)
           h == Len(RequestHead)
<1>1. /\ stream \in Seq(Part) /\ Len(stream) \in Nat /\ Len(reqString) \in 0..Len(stream)
      /\ \A i \in 1..Len(reqString) : reqString[i] = stream[i]
      /\ \A i \in 1..Len(stream) : stream[i] \in Part
      BY StreamFacts DEF Buffered, Parsing
<1>2. /\ Len(reqString) <= MAXLENGTH /\ MAXLENGTH \in Nat
      /\ Len(reqString) = Len(stream) \/ Len(reqString) >= MAXLENGTH
      BY ParserAssumption DEF Buffered, Parsing, TypeOK, Enough
<1>3. (IF b = 0 THEN Len(stream) ELSE b) <= MAXLENGTH
      BY ParserAssumption DEF Buffered, Parsing, TypeOK
<1>4. /\ b \in 0..Len(stream) /\ h = IF b = 0 THEN Len(stream) ELSE b - 1
      BY <1>1, HeadFacts
<1> HIDE DEF b, h
<1>5. h <= Len(reqString) /\ (b # 0 => b <= Len(reqString))
      BY <1>1, <1>2, <1>3, <1>4
<1> QED BY <1>1, <1>2, <1>5 DEF b, h

\* strstr() finds in the buffer the first header of a kind that is in the head, if any is.
LEMMA HeaderInBuffer ==
  ASSUME Buffered, NEW kind \in {"id", "length"}
  PROVE  IF HeaderPlaces(kind) = {} THEN First(reqString, kind) = 0
         ELSE /\ First(reqString, kind) \in 1..Len(RequestHead)
              /\ reqString[First(reqString, kind)] = FirstHeader(kind)
              /\ FirstHeader(kind) \in Part /\ FirstHeader(kind).kind = kind
<1> DEFINE b == HeadEnd(stream)
           h == Len(RequestHead)
           f == First(reqString, kind)
           I == HeaderPlaces(kind)
<1>1. /\ Len(reqString) \in 0..Len(stream) /\ h <= Len(reqString)
      /\ \A i \in 1..Len(reqString) : reqString[i] = stream[i] /\ stream[i] \in Part
      /\ stream \in Seq(Part)
      BY BufferFacts
<1>2. /\ Len(stream) \in Nat /\ b \in 0..Len(stream) /\ h \in 0..Len(stream)
      /\ h = IF b = 0 THEN Len(stream) ELSE b - 1
      /\ \A i \in 1..h : RequestHead[i] = stream[i]
      /\ b # 0 => stream[b].kind = "blank"
      /\ \A i \in (h + 2)..Len(stream) : stream[i] = Byte
      BY <1>1, HeadFacts DEF Buffered
<1>3. /\ f \in 0..Len(reqString)
      /\ f = 0 => \A i \in 1..Len(reqString) : reqString[i].kind # kind
      /\ f # 0 => /\ reqString[f].kind = kind
                  /\ \A i \in 1..Len(reqString) : reqString[i].kind = kind => f <= i
  <2>1. Len(reqString) \in Nat
        BY <1>1, <1>2
  <2> QED BY <2>1, FirstFacts
<1>4. I = {i \in 1..h : RequestHead[i].kind = kind}
      BY DEF HeaderPlaces
<1> HIDE DEF b, h, f
<1>5. ASSUME f # 0 PROVE f \in I
  <2>1. stream[f].kind = kind /\ f \in 1..Len(stream)
        BY <1>1, <1>2, <1>3, <1>5
  <2>2. ~(b # 0 /\ f = b)
        BY <1>2, <2>1
  <2>3. ~(f \in (h + 2)..Len(stream))
        BY <1>2, <2>1 DEF Byte
  <2>4. f \in 1..h
        BY <1>2, <2>1, <2>2, <2>3
  <2> QED BY <1>2, <1>4, <2>1, <2>4
<1>6. ASSUME I # {}
      PROVE  f = Min(I) /\ f \in 1..h
  <2> HIDE DEF I
  <2>1. I \subseteq Nat
        BY <1>4
  <2>2. Min(I) \in I /\ \A y \in I : Min(I) <= y
        BY <1>6, <2>1, LeastNumber
  <2>3. PICK m \in 1..h : m = Min(I) /\ RequestHead[m].kind = kind
        BY <1>4, <2>2
  <2>4. m \in 1..Len(reqString) /\ reqString[m].kind = kind
        BY <1>1, <1>2, <2>3
  <2>5. f # 0 /\ f <= m
        BY <1>3, <2>4
  <2>6. m <= f
        BY <1>5, <2>2, <2>3, <2>5
  <2> QED BY <1>3, <1>1, <1>2, <2>3, <2>5, <2>6
<1>7. CASE I = {}
      BY <1>5, <1>7 DEF f
<1>8. CASE I # {}
  <2>1. f = Min(I) /\ f \in 1..h /\ f \in 1..Len(reqString) /\ f # 0
        BY <1>1, <1>2, <1>6, <1>8
  <2>2. FirstHeader(kind) = reqString[f]
        BY <1>1, <1>2, <2>1 DEF FirstHeader
  <2> QED BY <1>1, <1>3, <1>8, <2>1, <2>2 DEF f, h
<1> QED BY <1>7, <1>8

\* The number that goes to the log is that of the first Request-Id in the head.
LEMMA IdInBuffer ==
  ASSUME Buffered, ExpectedId <= INT_MAX
  PROVE  requestIdNum(reqString) = ExpectedId
<1> DEFINE f == First(reqString, "id")
           p == FirstHeader("id")
<1>1. CASE HeaderPlaces("id") = {}
  <2>1. f = 0
        BY <1>1, HeaderInBuffer
  <2> QED BY <1>1, <2>1 DEF requestIdNum, ExpectedId
<1>2. CASE HeaderPlaces("id") # {}
  <2>1. f \in 1..Len(RequestHead) /\ reqString[f] = p /\ p \in Part /\ p.kind = "id"
        BY <1>2, HeaderInBuffer
  <2>2. f # 0
        BY <2>1
  <2>3. requestIdNum(reqString) = IF p.glued THEN 0 ELSE Atoi(p.value)
        BY <2>1, <2>2 DEF requestIdNum
  <2>4. ExpectedId = IF p.glued THEN 0 ELSE p.value
        BY <1>2 DEF ExpectedId
  <2>5. p.value \in Nat /\ p.glued \in BOOLEAN
        BY <2>1 DEF Part
  <2> HIDE DEF p
  <2>6. CASE p.glued
        BY <2>3, <2>4, <2>6
  <2>7. CASE ~p.glued
    <3>1. Atoi(p.value) = p.value
          BY <2>4, <2>5, <2>7, AtoiFacts
    <3> QED BY <2>3, <2>4, <2>7, <3>1
  <2> QED BY <2>6, <2>7
<1> QED BY <1>1, <1>2

\* A length is accepted if the first Content-Length of the head is well formed and not
\* negative as an int, and the head ends; the body begins behind the head.
LEMMA LengthInBuffer ==
  ASSUME Buffered
  PROVE  LET b == HeadEnd(stream)
             p == FirstHeader("length")
         IN /\ GoodLength(reqString) <=>
                 /\ HeaderPlaces("length") # {} /\ p.form = "plain"
                 /\ Atoi(p.value) >= 0 /\ b # 0
            /\ HeaderPlaces("length") # {} =>
                 p.value \in Nat /\ contentLengthInt(reqString) = Atoi(p.value)
            /\ GoodLength(reqString) => beforeBody(reqString) = b
<1> DEFINE b == HeadEnd(stream)
           h == Len(RequestHead)
           f == First(reqString, "length")
           p == FirstHeader("length")
<1>1. CASE HeaderPlaces("length") = {}
  <2>1. f = 0
        BY <1>1, HeaderInBuffer
  <2> QED BY <1>1, <2>1 DEF GoodLength
<1>2. CASE HeaderPlaces("length") # {}
  <2>1. f \in 1..h /\ reqString[f] = p /\ p \in Part /\ p.kind = "length"
        BY <1>2, HeaderInBuffer
  <2>2. p.value \in Nat
        BY <2>1 DEF Part
  <2>3. contentLengthInt(reqString) = Atoi(p.value)
        BY <2>1 DEF contentLengthInt
  <2>4. /\ Len(reqString) \in 0..Len(stream) /\ stream \in Seq(Part)
        /\ \A i \in 1..Len(reqString) : reqString[i] = stream[i]
        /\ b # 0 => b <= Len(reqString)
        BY BufferFacts
  <2>5. /\ Len(stream) \in Nat /\ b \in 0..Len(stream)
        /\ h = IF b = 0 THEN Len(stream) ELSE b - 1
        /\ \A i \in (f + 1)..Len(stream) : stream[i].kind = "blank" => b # 0 /\ b <= i
        /\ b # 0 => stream[b].kind = "blank"
    <3>1. /\ Len(stream) \in Nat /\ b \in 0..Len(stream)
          /\ h = IF b = 0 THEN Len(stream) ELSE b - 1
          /\ \A i \in (Start(stream) + 1)..Len(stream) :
               stream[i].kind = "blank" => b # 0 /\ b <= i
          /\ b # 0 => stream[b].kind = "blank"
          BY <2>4, HeadFacts
    <3>2. f \in 1..Len(stream) /\ f \in 1..Len(reqString)
          BY <2>1, <2>4, <3>1, BufferFacts
    <3>3. stream[f].kind # "blank"
          BY <2>1, <2>4, <3>2
    <3>4. Start(stream) \in 0..f
          BY <3>1, <3>2, <3>3, StartFacts
    <3> HIDE DEF b, f, h
    <3> QED BY <3>1, <3>2, <3>4
  <2>6. BlankAfter(reqString, f) = b
    <3> DEFINE B == BlankAfter(reqString, f)
    <3>1. f \in Nat /\ Len(reqString) \in Nat
          BY <2>1, <2>4, <2>5
    <3>2. /\ B \in {0} \cup ((f + 1)..Len(reqString))
          /\ B = 0 => \A i \in (f + 1)..Len(reqString) : reqString[i].kind # "blank"
          /\ B # 0 => /\ reqString[B].kind = "blank"
                      /\ \A i \in (f + 1)..Len(reqString) : reqString[i].kind = "blank" => B <= i
          BY <3>1, BlankAfterFacts
    <3> HIDE DEF B, b, f, h
    <3>3. ASSUME b # 0 PROVE B # 0 /\ B <= b
      <4>1. b \in (f + 1)..Len(reqString) /\ b \in 1..Len(reqString)
            BY <2>1, <2>4, <2>5, <3>1, <3>3
      <4>2. reqString[b].kind = "blank"
            BY <2>4, <2>5, <3>3, <4>1
      <4> QED BY <3>2, <4>1, <4>2
    <3>4. ASSUME B # 0 PROVE b # 0 /\ b <= B
      <4>1. B \in 1..Len(reqString) /\ B \in 1..Len(stream)
            BY <2>4, <2>5, <3>1, <3>2, <3>4
      <4>2. stream[B].kind = "blank"
            BY <2>4, <3>2, <3>4, <4>1
      <4>3. B \in (f + 1)..Len(stream)
            BY <2>4, <2>5, <3>1, <3>2, <3>4
      <4> QED BY <2>5, <4>2, <4>3
    <3>5. ASSUME b # 0 PROVE B = b
          BY <2>5, <3>1, <3>2, <3>3, <3>4, <3>5
    <3>6. ASSUME b = 0 PROVE B = b
          BY <3>4, <3>6
    <3> QED BY <3>5, <3>6 DEF B
  <2>7. f # 0
        BY <2>1
  <2>8. GoodLength(reqString) <=> p.form = "plain" /\ Atoi(p.value) >= 0 /\ b # 0
        BY <2>1, <2>6, <2>7 DEF GoodLength
  <2>9. beforeBody(reqString) = b
        BY <2>6 DEF beforeBody
  <2> QED BY <1>2, <2>2, <2>3, <2>8, <2>9
<1> QED BY <1>1, <1>2

\* The first word in the buffer is that of the stream.
LEMMA LineInBuffer ==
  ASSUME Buffered
  PROVE  /\ Empty \/ Asks("bad") => method(reqString) = "bad"
         /\ ~Empty /\ RequestLine.kind # "line" => method(reqString) \in {"bad", "other"}
         /\ \A m \in {"GET", "PUT", "APPEND", "other"} : Asks(m) => method(reqString) = m
<1> DEFINE k == Start(stream)
<1>1. /\ Len(reqString) \in 0..Len(stream) /\ stream \in Seq(Part)
      /\ \A i \in 1..Len(reqString) : reqString[i] = stream[i] /\ stream[i] \in Part
      /\ Len(RequestHead) <= Len(reqString)
      BY BufferFacts
<1>2. Len(stream) \in Nat /\ Len(RequestHead) \in 0..Len(stream) /\ k \in 0..Len(RequestHead)
      BY <1>1, HeadFacts
<1>3. /\ k = 0 => \A i \in 1..Len(stream) : stream[i].kind = "blank"
      /\ k # 0 => /\ stream[k].kind # "blank"
                  /\ \A i \in 1..Len(stream) : stream[i].kind # "blank" => k <= i
      BY <1>2, StartFacts
<1>4. /\ Start(reqString) \in 0..Len(reqString)
      /\ Start(reqString) = 0 => \A i \in 1..Len(reqString) : reqString[i].kind = "blank"
      /\ Start(reqString) # 0 =>
           /\ reqString[Start(reqString)].kind # "blank"
           /\ \A i \in 1..Len(reqString) : reqString[i].kind # "blank" => Start(reqString) <= i
  <2>1. Len(reqString) \in Nat
        BY <1>1, <1>2
  <2> QED BY <2>1, StartFacts
<1> HIDE DEF k
<1>5. CASE k = 0
  <2>1. Start(reqString) = 0
        BY <1>1, <1>2, <1>3, <1>4, <1>5
  <2> QED BY <1>5, <2>1 DEF method, Empty, Asks, k
<1>6. CASE k # 0
  <2>1. k \in 1..Len(reqString) /\ k \in 1..Len(stream)
        BY <1>1, <1>2, <1>6
  <2>2. reqString[k] = stream[k] /\ stream[k].kind # "blank"
        BY <1>1, <1>3, <1>6, <2>1
  <2>3. Start(reqString) # 0 /\ Start(reqString) <= k
        BY <1>4, <2>1, <2>2
  <2>4. Start(reqString) \in 1..Len(reqString) /\ Start(reqString) \in 1..Len(stream)
        BY <1>1, <1>2, <1>4, <2>3
  <2>5. k <= Start(reqString)
        BY <1>1, <1>3, <1>4, <1>6, <2>3, <2>4
  <2>6. Start(reqString) = k
        BY <2>1, <2>3, <2>4, <2>5
  <2>7. ~Empty /\ RequestLine = stream[k]
        BY <1>6 DEF Empty, RequestLine, k
  <2>8. CASE RequestLine.kind = "line"
    <3>1. method(reqString) = RequestLine.method
          BY <1>6, <2>2, <2>6, <2>7, <2>8 DEF method
    <3> QED BY <2>7, <2>8, <3>1 DEF Asks, Line
  <2>9. CASE RequestLine.kind # "line"
    <3>1. method(reqString) \in {"bad", "other"}
          BY <1>6, <2>2, <2>6, <2>7, <2>9 DEF method
    <3>2. \A m : ~Asks(m)
          BY <2>9 DEF Asks, Line
    <3> QED BY <2>7, <3>1, <3>2
  <2> QED BY <2>8, <2>9
<1> QED BY <1>5, <1>6

\* The cascade of the checks, a branch at a time.
LEMMA CheckedCases ==
  ASSUME NEW s, NEW n
  PROVE  /\ method(s) = "bad" => Checked(s, n) = Refuse(RES_BAD_REQUEST)
         /\ method(s) = "other" => Checked(s, n) = Refuse(RES_NOT_IMPL)
         /\ method(s) = "GET" => Checked(s, n) = Get(s)
         /\ method(s) \in {"PUT", "APPEND"} =>
              Checked(s, n) = IF ~GoodLength(s) THEN Refuse(RES_BAD_REQUEST)
                              ELSE IF bodyVal(s, n) < 0 THEN Crash
                              ELSE IF contentLengthInt(s) = 0 /\ bodyVal(s, n) = 0 THEN NoAnswer
                              ELSE Upload(s, n)
<1> USE DEF GoodLine, Implemented
<1>1. CASE method(s) = "bad"
      BY <1>1 DEF Checked
<1>2. CASE method(s) = "other"
      BY <1>2 DEF Checked
<1>3. CASE method(s) = "GET"
      BY <1>3 DEF Checked
<1>4. CASE method(s) \in {"PUT", "APPEND"}
      BY <1>4 DEF Checked
<1> QED BY <1>1, <1>2, <1>3, <1>4

\* Whatever the network makes of a request, its answer is that of its kind.
THEOREM AnswersFollowRequests == Spec => []AnswerFollowsRequest
<1> DEFINE I == Parsing /\ Enough
<1>1. Init => I
  <2>1. Init => Enough
        BY "recv" # "done" DEF Init, Enough
  <2> QED BY <2>1, InitParsing
<1>2. I /\ [Next]_vars => I'
      BY NextParsing, NextEnough
<1>3. I => AnswerFollowsRequest
  <2> SUFFICES ASSUME Buffered PROVE AnswerFollowsRequest
      BY DEF Buffered, AnswerFollowsRequest
  <2> DEFINE q == reqString
             n == Len(reqString)
             b == HeadEnd(stream)
             v == FirstHeader("length").value
  <2>1. outcome = Checked(q, n)
    <3>1. initialReqRead = n
      <4>1. n \in Nat
            BY LenProperties DEF Buffered, Parsing
      <4> QED BY <4>1 DEF Buffered, initialReqRead
    <3> QED BY <3>1 DEF Buffered, Parsing
  <2>2. /\ Empty \/ Asks("bad") => method(q) = "bad"
        /\ ~Empty /\ RequestLine.kind # "line" => method(q) \in {"bad", "other"}
        /\ Asks("other") => method(q) = "other"
        /\ Asks("GET") => method(q) = "GET"
        /\ IsUpload => method(q) \in {"PUT", "APPEND"} /\ method(q) = RequestLine.method
    <3>1. \A m : Line(m).method = m
          BY DEF Line
    <3> QED BY <3>1, LineInBuffer DEF IsUpload, Asks
  <2>3. /\ n \in 0..Len(stream) /\ Len(stream) \in Nat /\ b \in 0..Len(stream)
        /\ Len(RequestHead) \in Nat
        /\ Len(RequestHead) = IF b = 0 THEN Len(stream) ELSE b - 1
        /\ b # 0 => b <= n
        /\ n = Len(stream) \/ n = MAXLENGTH
        /\ n <= MAXLENGTH
        /\ RequestBody = <<>> <=> Len(stream) <= Len(RequestHead) + 1
    <3>1. stream \in Seq(Part)
          BY BufferFacts
    <3> QED BY <3>1, BufferFacts, HeadFacts
  <2>4. /\ GoodLength(q) <=> /\ HeaderPlaces("length") # {}
                             /\ FirstHeader("length").form = "plain"
                             /\ Atoi(v) >= 0 /\ b # 0
        /\ HeaderPlaces("length") # {} => v \in Nat /\ contentLengthInt(q) = Atoi(v)
        /\ GoodLength(q) => beforeBody(q) = b
        BY LengthInBuffer
  <2>5. ExpectedId <= INT_MAX => requestIdNum(q) = ExpectedId
        BY IdInBuffer
  <2>6. Len(RequestHead) < Len(stream) <=> b # 0
        BY <2>3
  <2> HIDE DEF q, n, b, v
  <2>7. Empty \/ Asks("bad") => outcome = Refuse(RES_BAD_REQUEST)
        BY <2>1, <2>2, CheckedCases
  <2>8. /\ Asks("other") => outcome = Refuse(RES_NOT_IMPL)
        /\ ~Empty /\ RequestLine.kind # "line" => outcome.act = "refuse"
    <3>1. \A code : Refuse(code).act = "refuse"
          BY DEF Refuse
    <3> QED BY <2>1, <2>2, <3>1, CheckedCases
  <2>9. Asks("GET") =>
          outcome.act = "get" /\ (ExpectedId <= INT_MAX => outcome.id = ExpectedId)
    <3>1. Get(q).act = "get" /\ Get(q).id = requestIdNum(q)
          BY DEF Get
    <3> QED BY <2>1, <2>2, <2>5, <3>1, CheckedCases
  <2>10. ASSUME IsUpload
         PROVE  outcome = IF ~GoodLength(q) THEN Refuse(RES_BAD_REQUEST)
                          ELSE IF bodyVal(q, n) < 0 THEN Crash
                          ELSE IF contentLengthInt(q) = 0 /\ bodyVal(q, n) = 0 THEN NoAnswer
                          ELSE Upload(q, n)
    <3>1. method(q) \in {"PUT", "APPEND"}
          BY <2>2, <2>10
    <3> QED BY <2>1, <3>1, CheckedCases
  <2>11. IsUpload /\ ~Announced => outcome = Refuse(RES_BAD_REQUEST)
         BY <2>4, <2>6, <2>10 DEF Announced
  <2>12. ASSUME Announced, v \in IF BodyUnseen THEN 1..INT_MAX ELSE 0..INT_MAX
         PROVE  /\ outcome.act = "upload" /\ outcome.method = RequestLine.method
                /\ outcome.contLen = v
                /\ ExpectedId <= INT_MAX => outcome.id = ExpectedId
    <3>1. IsUpload /\ b # 0 /\ HeaderPlaces("length") # {} /\ FirstHeader("length").form = "plain"
          BY <2>6, <2>12 DEF Announced
    <3>2. Atoi(v) = v /\ v \in Nat /\ (v = 0 => ~BodyUnseen)
      <4>1. INT_MAX \in Nat
            BY NumbersAssumption
      <4>2. v <= INT_MAX /\ (v = 0 => ~BodyUnseen)
            BY <2>12, <4>1
      <4> QED BY <2>4, <3>1, <4>2, AtoiFacts
    <3>3. GoodLength(q) /\ contentLengthInt(q) = v /\ beforeBody(q) = b
          BY <2>4, <3>1, <3>2
    <3>4. bodyVal(q, n) = n - b /\ n - b >= 0
          BY <2>3, <3>1, <3>3 DEF bodyVal
    <3>5. n - b = 0 <=> BodyUnseen
          BY <2>3, <3>1, ParserAssumption DEF BodyUnseen
    <3>6. outcome = Upload(q, n)
          BY <2>3, <2>10, <3>1, <3>2, <3>3, <3>4, <3>5
    <3>7. /\ Upload(q, n).act = "upload" /\ Upload(q, n).method = method(q)
          /\ Upload(q, n).contLen = contentLengthInt(q) /\ Upload(q, n).id = requestIdNum(q)
          BY DEF Upload
    <3> QED BY <2>2, <2>5, <3>1, <3>3, <3>6, <3>7
  <2> QED BY <2>7, <2>8, <2>9, <2>11, <2>12 DEF AnswerFollowsRequest, v
<1> QED BY <1>1, <1>2, <1>3, PTL DEF Spec
=============================================================================
