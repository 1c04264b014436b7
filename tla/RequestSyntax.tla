--------------------------- MODULE RequestSyntax ---------------------------
(***************************************************************************)
(* What the checks of handle_connection make of a receive buffer, in asgn4  *)
(* and, up to the branch that follows them, in the servers before it.  A    *)
(* client's bytes are abstracted to the parts that the checks tell apart.   *)
(***************************************************************************)
EXTENDS Integers, Sequences, SequencesExt

CONSTANTS INT_MAX, LONG_MAX

ASSUME NumbersAssumption ==
  /\ INT_MAX \in Nat /\ LONG_MAX \in Nat
  \* A long has more bits than an int.
  /\ \E k \in 1..(LONG_MAX + 1) : LONG_MAX + 1 = k * (2 * (INT_MAX + 1))

RES_BAD_REQUEST == 400
RES_NOT_IMPL == 501

\* A request line: one of the three methods, "other" for a method that is well
\* formed but none of them, "bad" for a line that fails the tests of its syntax
\* whatever comes behind it.
Line(m) == [kind |-> "line", method |-> m]
\* "Request-Id: n", or "Request-Id:n" without the blank.
RequestId(n, glued) == [kind |-> "id", value |-> n, glued |-> glued]
\* "Content-Length: n" when form is "plain"; "glued" without the blank, "letters"
\* with another character than digits, "colon" with " :" behind the value.
ContentLength(n, form) == [kind |-> "length", value |-> n, form |-> form]
\* Any other header, the empty line, and a byte of a body, an ASCII character that is
\* not blank.  The first word of a header, or of bytes and the line behind them, has
\* three to eight characters.
Header == [kind |-> "header"]
Blank == [kind |-> "blank"]
Byte == [kind |-> "byte"]

Method == {"GET", "PUT", "APPEND", "other", "bad"}

Part ==
  [kind : {"line"}, method : Method]
    \cup [kind : {"id"}, value : Nat, glued : BOOLEAN]
    \cup [kind : {"length"}, value : Nat, form : {"plain", "glued", "letters", "colon"}]
    \cup [kind : {"header", "blank", "byte"}]

\* The first part of a kind, 0 if there is none: what strstr() finds.
First(s, kind) == SelectInSeq(s, LAMBDA p : p.kind = kind)

\* The first empty line behind part i, 0 if there is none.
BlankAfter(s, i) == SelectInSubSeq(s, i + 1, Len(s), LAMBDA p : p.kind = "blank")

\* The conversion of strtol(), which saturates, cut to an int.
Atoi(n) ==
  LET long == IF n <= LONG_MAX THEN n ELSE LONG_MAX
      low == long % (2 * (INT_MAX + 1))
  IN IF low <= INT_MAX THEN low ELSE low - 2 * (INT_MAX + 1)

\* The first part behind empty lines, 0 if there is none: where sscanf() finds the
\* first word.
Start(s) == SelectInSeq(s, LAMBDA p : p.kind # "blank")

\* The method, and "bad" where the request is malformed.  The path and the version are
\* looked for in all of the buffer: what stands in front of a good line passes for a
\* method, unless it is longer than one, as the names of two headers are.
method(s) ==
  LET first == s[Start(s)]
      line == First(s, "line")
  IN IF Start(s) = 0 THEN "bad"
     ELSE IF first.kind = "line" THEN first.method
     ELSE IF first.kind \in {"header", "byte"} /\ line # 0 /\ s[line].method # "bad"
          THEN "other"
     ELSE "bad"

GoodLine(s) == method(s) # "bad"
Implemented(s) == method(s) \in {"GET", "PUT", "APPEND"}

\* Mutant: the blank behind the colon is not asked for.
requestIdNumMutant(s) ==
  LET i == First(s, "id") IN IF i = 0 THEN 0 ELSE Atoi(s[i].value)

\* The number for the log.
requestIdNum(s) ==
  LET i == First(s, "id")
  IN IF i = 0 \/ s[i].glued THEN 0 ELSE Atoi(s[i].value)

\* The first Content-Length is there, is well formed and ends before an empty line.
GoodLength(s) ==
  LET i == First(s, "length")
  IN /\ i # 0
     /\ s[i].form = "plain"
     /\ Atoi(s[i].value) >= 0
     /\ BlankAfter(s, i) # 0

contentLengthInt(s) == Atoi(s[First(s, "length")].value)
beforeBody(s) == BlankAfter(s, First(s, "length"))

\* Mutant: the body is taken to be as long as announced.
bodyValMutant(s, n) == contentLengthInt(s)

\* How much of the body the n parts counted as received contain.
bodyVal(s, n) == n - beforeBody(s)

Refuse(code) == [act |-> "refuse", code |-> code]
Get(s) == [act |-> "get", id |-> requestIdNum(s)]
Upload(s, n) == [act |-> "upload", method |-> method(s), id |-> requestIdNum(s),
                 contLen |-> contentLengthInt(s), bodyVal |-> bodyVal(s, n),
                 totalBodyLeft |-> contentLengthInt(s) - bodyVal(s, n)]
NoAnswer == [act |-> "none"]
\* An array of negative size, cleared or copied to with that size as a size_t: the
\* behaviour is undefined, and what the build does is to end the process.
Crash == [act |-> "crash"]

\* The cascade of checks, each with its answer, in the code's order, on a buffer of
\* which n parts count as received.
Checked(s, n) ==
  CASE ~GoodLine(s) -> Refuse(RES_BAD_REQUEST)
    [] GoodLine(s) /\ ~Implemented(s) -> Refuse(RES_NOT_IMPL)
    [] method(s) = "GET" -> Get(s)
    [] OTHER ->
         IF ~GoodLength(s) THEN Refuse(RES_BAD_REQUEST)
         ELSE IF bodyVal(s, n) < 0 THEN Crash
         ELSE IF contentLengthInt(s) = 0 /\ bodyVal(s, n) = 0 THEN NoAnswer
         ELSE Upload(s, n)
=============================================================================
