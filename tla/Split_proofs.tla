---------------------------- MODULE Split_proofs ----------------------------
(***************************************************************************)
(* Proofs about Split: the exit status, and what is written of each        *)
(* argument, for all command lines, contents and buffer sizes.             *)
(***************************************************************************)
EXTENDS Split, TLAPS, SequenceTheorems

-----------------------------------------------------------------------------
(* The loop over a buffer.                                                 *)

LEMMA ReplacedType ==
  ASSUME NEW s \in Seq(Byte)
  PROVE  /\ Replaced(s) \in Seq(Byte)
         /\ Len(Replaced(s)) = Len(s)
         /\ \A i \in 1..Len(s) : Replaced(s)[i] = IF s[i] = DELIM THEN NEWLINE ELSE s[i]
<1>1. Len(s) \in Nat /\ \A i \in 1..Len(s) : s[i] \in Byte
      BY LenProperties, ElementOfSeq
<1> QED BY <1>1, SplitAssumption DEF Replaced

\* The rest of a sequence behind its first k elements.
LEMMA Suffix ==
  ASSUME NEW s \in Seq(Byte), NEW k \in 0..Len(s)
  PROVE  /\ SubSeq(s, k + 1, Len(s)) \in Seq(Byte)
         /\ Len(SubSeq(s, k + 1, Len(s))) = Len(s) - k
         /\ \A i \in 1..(Len(s) - k) : SubSeq(s, k + 1, Len(s))[i] = s[k + i]
<1>1. Len(s) \in Nat /\ k \in Nat /\ k <= Len(s) /\ \A i \in 1..Len(s) : s[i] \in Byte
      BY LenProperties, ElementOfSeq
<1> QED BY <1>1, SubSeqProperties

\* Replacing chunk by chunk is replacing in the whole.
LEMMA ReplacedInChunks ==
  ASSUME NEW s \in Seq(Byte), NEW n \in 0..Len(s)
  PROVE  Replaced(SubSeq(s, 1, n)) \o Replaced(SubSeq(s, n + 1, Len(s))) = Replaced(s)
<1> DEFINE a == SubSeq(s, 1, n)
           b == SubSeq(s, n + 1, Len(s))
<1>1. Len(s) \in Nat /\ n \in Nat /\ n <= Len(s) /\ \A i \in 1..Len(s) : s[i] \in Byte
      BY LenProperties, ElementOfSeq
<1>2. a \in Seq(Byte) /\ Len(a) = n /\ \A i \in 1..n : a[i] = s[i]
      BY <1>1, SubSeqProperties
<1>3. /\ b \in Seq(Byte) /\ Len(b) = Len(s) - n
      /\ \A i \in 1..(Len(s) - n) : b[i] = s[n + i]
      BY <1>1, SubSeqProperties
<1> HIDE DEF a, b
<1>4. /\ Replaced(a) \o Replaced(b) \in Seq(Byte)
      /\ Len(Replaced(a) \o Replaced(b)) = Len(s)
      /\ \A i \in 1..Len(s) : (Replaced(a) \o Replaced(b))[i] =
           IF i <= n THEN Replaced(a)[i] ELSE Replaced(b)[i - n]
  <2>1. /\ Replaced(a) \in Seq(Byte) /\ Len(Replaced(a)) = n
        /\ Replaced(b) \in Seq(Byte) /\ Len(Replaced(b)) = Len(s) - n
        BY <1>2, <1>3, ReplacedType
  <2>2. n + (Len(s) - n) = Len(s)
        BY <1>1
  <2> DEFINE ra == Replaced(a)
             rb == Replaced(b)
  <2>3. ra \in Seq(Byte) /\ rb \in Seq(Byte) /\ Len(ra) = n /\ Len(rb) = Len(s) - n
        BY <2>1
  <2> HIDE DEF ra, rb
  <2>4. /\ ra \o rb \in Seq(Byte)
        /\ Len(ra \o rb) = Len(s)
        /\ \A i \in 1..Len(s) : (ra \o rb)[i] = IF i <= n THEN ra[i] ELSE rb[i - n]
    <3>1. /\ ra \o rb \in Seq(Byte)
          /\ Len(ra \o rb) = Len(ra) + Len(rb)
          /\ \A i \in 1..(Len(ra) + Len(rb)) :
               (ra \o rb)[i] = IF i <= Len(ra) THEN ra[i] ELSE rb[i - Len(ra)]
          BY <2>3, ConcatProperties, Zenon
    <3>2. Len(ra) + Len(rb) = Len(s)
          BY <2>2, <2>3
    <3> QED BY <2>3, <3>1, <3>2, Zenon
  <2> QED BY <2>4 DEF ra, rb
<1>5. ASSUME NEW i \in 1..Len(s)
      PROVE (Replaced(a) \o Replaced(b))[i] = Replaced(s)[i]
  <2>1. CASE i <= n
    <3>1. i \in 1..n
          BY <1>1, <2>1
    <3> QED BY <1>2, <1>4, <2>1, <3>1, ReplacedType
  <2>2. CASE ~(i <= n)
    <3>1. i - n \in 1..(Len(s) - n) /\ n + (i - n) = i
          BY <1>1, <2>2
    <3>2. Replaced(b)[i - n] = IF b[i - n] = DELIM THEN NEWLINE ELSE b[i - n]
          BY <1>3, <3>1, ReplacedType
    <3>3. b[i - n] = s[i]
          BY <1>3, <3>1
    <3> QED BY <1>4, <2>2, <3>2, <3>3, ReplacedType
  <2> QED BY <2>1, <2>2
<1>6. Replaced(a) \o Replaced(b) = Replaced(s)
  <2> DEFINE u == Replaced(a) \o Replaced(b)
             v == Replaced(s)
  <2>1. u \in Seq(Byte) /\ v \in Seq(Byte) /\ Len(u) = Len(v)
        BY <1>4, ReplacedType
  <2>2. \A i \in 1..Len(u) : u[i] = v[i]
        BY <1>4, <1>5
  <2> HIDE DEF u, v
  <2>3. u = v
        BY <2>1, <2>2, SeqEqual, Zenon
  <2> QED BY <2>3 DEF u, v
<1> QED BY <1>6 DEF a, b

LEMMA ReplacedEmpty == Replaced(<<>>) = <<>>
<1>1. <<>> \in Seq(Byte) /\ Len(<<>>) = 0
      OBVIOUS
<1>2. Replaced(<<>>) \in Seq(Byte) /\ Len(Replaced(<<>>)) = 0
      BY <1>1, ReplacedType
<1> QED BY <1>2, EmptySeq

-----------------------------------------------------------------------------
(* Types.                                                                  *)

LEMMA InitType == Init => TypeOK
BY SplitAssumption DEF Init, TypeOK

LEMMA ArgvType ==
  ASSUME TypeOK
  PROVE  /\ argv \in Seq(ArgumentType) /\ Len(argv) \in Nat
         /\ \A i \in 1..Len(argv) : argv[i] \in ArgumentType
         /\ input \in Seq(Byte)
<1>1. argv \in Seq(ArgumentType) /\ input \in Seq(Byte)
      BY SplitAssumption DEF TypeOK
<1> QED BY <1>1, LenProperties, ElementOfSeq

\* What is left to read is a sequence of bytes; after a chunk, what follows it.
LEMMA UnreadType ==
  ASSUME TypeOK, pc \in {"read", "write", "close"}
  PROVE  Unread \in Seq(Byte) /\ Len(Unread) \in Nat
<1>1. InHand \in ArgumentType
      BY ArgvType DEF TypeOK, InHand
<1>2. InHand.bytes \in Seq(Byte) /\ Len(InHand.bytes) \in Nat
      /\ \A i \in 1..Len(InHand.bytes) : InHand.bytes[i] \in Byte
      BY <1>1, LenProperties, ElementOfSeq DEF ArgumentType
<1>3. SubSeq(InHand.bytes, offset + 1, Len(InHand.bytes)) \in Seq(Byte)
      BY <1>2, SubSeqProperties DEF TypeOK
<1> QED BY <1>3, LenProperties DEF TypeOK, Unread

LEMMA NextType == TypeOK /\ [Next]_vars => TypeOK'
<1> SUFFICES ASSUME TypeOK, [Next]_vars PROVE TypeOK'
    OBVIOUS
<1>0. Len(argv) \in Nat
      BY ArgvType
<1> USE SplitAssumption DEF Given, InHand, MoreArguments, Fail, ENOENT, EIO, EISDIR,
        EINVAL, ENOSPC
<1>1. CASE WrongUsage
      BY <1>1 DEF WrongUsage, TypeOK
<1>2. CASE Start
      BY <1>2 DEF Start, TypeOK
<1>3. CASE Open
  <2>1. argv[totalArgs] \in ArgumentType
        BY <1>0, <1>3, ArgvType DEF Open, TypeOK
  <2>2. Len(argv[totalArgs].bytes) \in Nat
        BY <2>1, LenProperties DEF ArgumentType
  <2> QED BY <1>0, <1>3, <2>2 DEF Open, TypeOK, StartOffset, OpenedErrno
<1>4. CASE OpenFails
      BY <1>0, <1>4 DEF OpenFails, TypeOK
<1>5. CASE Read
  <2>1. PICK n \in 1..Len(Unread) :
          /\ n <= BUFFSIZE
          /\ buffer' = Replaced(SubSeq(Unread, 1, n))
          /\ IF InHand.kind = "stdin"
             THEN stdin' = SubSeq(stdin, n + 1, Len(stdin)) /\ UNCHANGED offset
             ELSE offset' = offset + n /\ UNCHANGED stdin
        BY <1>5 DEF Read
  <2>2. Unread \in Seq(Byte) /\ Len(Unread) \in Nat
        BY <1>5, UnreadType DEF Read
  <2>3. buffer' \in Seq(Byte)
    <3>1. SubSeq(Unread, 1, n) \in Seq(Byte)
          BY <2>2, ElementOfSeq, SubSeqProperties
    <3> QED BY <2>1, <3>1, ReplacedType
  <2>4. stdin' \in Seq(Byte)
    <3>1. Len(stdin) \in Nat /\ \A i \in (n + 1)..Len(stdin) : stdin[i] \in Byte
          BY LenProperties, ElementOfSeq DEF TypeOK
    <3>2. SubSeq(stdin, n + 1, Len(stdin)) \in Seq(Byte)
          BY <3>1, SubSeqProperties
    <3> QED BY <2>1, <3>2 DEF TypeOK
  <2>5. offset' \in Nat /\ offset' <= Len(InHand.bytes)
    <3>1. CASE InHand.kind = "stdin"
          BY <1>5, <2>1, <3>1 DEF Read, TypeOK
    <3>2. CASE InHand.kind # "stdin"
      <4>1. InHand \in ArgumentType
            BY <1>0, <1>5, ArgvType DEF Read, TypeOK
      <4>2. Len(InHand.bytes) \in Nat
            BY <4>1, LenProperties DEF ArgumentType
      <4>3. Unread = SubSeq(InHand.bytes, offset + 1, Len(InHand.bytes))
            BY <3>2 DEF Unread
      <4>4. Len(Unread) = IF offset + 1 <= Len(InHand.bytes)
                          THEN Len(InHand.bytes) - (offset + 1) + 1 ELSE 0
        <5>1. \A i \in (offset + 1)..Len(InHand.bytes) : InHand.bytes[i] \in Byte
              BY <4>1, <4>2, ElementOfSeq DEF ArgumentType, TypeOK
        <5> HIDE DEF InHand
        <5> QED BY <4>2, <4>3, <5>1, SubSeqProperties DEF TypeOK
      <4> QED BY <2>1, <3>2, <4>2, <4>4 DEF TypeOK
    <3> QED BY <3>1, <3>2
  <2> QED BY <1>0, <1>5, <2>3, <2>4, <2>5 DEF Read, TypeOK
<1>6. CASE ReadEnds
      BY <1>0, <1>6 DEF ReadEnds, AfterEnd, TypeOK
<1>7. CASE ReadFails
  <2>1. /\ errno' \in {ENOENT, EIO, EISDIR, ENOSPC}
        /\ failed' = failed \cup {totalArgs}
        BY <1>7 DEF ReadFails
  <2> QED BY <1>0, <1>7, <2>1 DEF ReadFails, TypeOK
<1>8. CASE Write
  <2>1. PICK n \in 1..Len(buffer) :
          /\ written' = [written EXCEPT ![totalArgs] = @ \o SubSeq(buffer, 1, n)]
          /\ short' = IF n = Len(buffer) THEN short ELSE short \cup {totalArgs}
        BY <1>8 DEF Write
  <2>2. totalArgs \in 1..Len(argv)
        BY <1>0, <1>8 DEF Write, TypeOK
  <2>3. SubSeq(buffer, 1, n) \in Seq(Byte)
        BY ElementOfSeq, LenProperties, SubSeqProperties DEF TypeOK
  <2>4. written[totalArgs] \in Seq(Byte)
        BY <2>2 DEF TypeOK
  <2>5. written[totalArgs] \o SubSeq(buffer, 1, n) \in Seq(Byte)
        BY <2>3, <2>4, ConcatProperties
  <2>6. written' \in [1..Len(argv) -> Seq(Byte)]
        BY <2>1, <2>5 DEF TypeOK
  <2> QED BY <1>0, <1>8, <2>1, <2>2, <2>6 DEF Write, TypeOK
<1>9. CASE WriteFails
      BY <1>0, <1>9 DEF WriteFails, TypeOK
<1>10. CASE Close
  <2>1. /\ errno' \in {0, ENOENT, EIO, EISDIR, ENOSPC}
        /\ failed' \in {failed, failed \cup {totalArgs}}
        BY <1>10 DEF Close, TypeOK
  <2> QED BY <1>0, <1>10, <2>1 DEF Close, TypeOK
<1>11. CASE Exit
      BY <1>0, <1>11 DEF Exit, TypeOK
<1>12. CASE UNCHANGED vars
      BY <1>12 DEF vars, TypeOK
<1> QED BY <1>1, <1>2, <1>3, <1>4, <1>5, <1>6, <1>7, <1>8, <1>9, <1>10, <1>11, <1>12
        DEF Next, Terminated

\* The variables have their types: no chunk is read beyond the end of its file.
THEOREM SplitTypeCorrect == Spec => []TypeOK
BY InitType, NextType, PTL DEF Spec

-----------------------------------------------------------------------------
(* The exit status.                                                        *)

\* errno tells of a failure until the end.
Sticky ==
  /\ errno # 0 <=> failed # {}
  /\ pc \in {"start"} => errno = 0
  /\ pc \notin {"start", "exit"} => argv # <<>> /\ delimLength <= 1
  /\ pc = "exit" => \/ (argv = <<>> \/ delimLength > 1) /\ status = EINVAL
                    \/ argv # <<>> /\ delimLength <= 1 /\ status = errno

LEMMA NextSticky == TypeOK /\ Sticky /\ [Next]_vars => Sticky'
<1> SUFFICES ASSUME TypeOK, Sticky, [Next]_vars PROVE Sticky'
    OBVIOUS
<1> USE DEF Sticky, Given, Fail, ENOENT, EIO, EISDIR, EINVAL, ENOSPC
<1>1. CASE WrongUsage
      BY <1>1 DEF WrongUsage
<1>2. CASE Start
      BY <1>2 DEF Start
<1>3. CASE Open
      BY <1>3 DEF Open, OpenedErrno
<1>4. CASE OpenFails
      BY <1>4 DEF OpenFails
<1>5. CASE Read
      BY <1>5 DEF Read
<1>6. CASE ReadEnds
      BY <1>6 DEF ReadEnds, AfterEnd
<1>7. CASE ReadFails
      BY <1>7 DEF ReadFails
<1>8. CASE Write
      BY <1>8 DEF Write
<1>9. CASE WriteFails
      BY <1>9 DEF WriteFails
<1>10. CASE Close
      BY <1>10 DEF Close
<1>11. CASE Exit
      BY <1>11 DEF Exit
<1>12. CASE UNCHANGED vars
      BY <1>12 DEF vars
<1> QED BY <1>1, <1>2, <1>3, <1>4, <1>5, <1>6, <1>7, <1>8, <1>9, <1>10, <1>11, <1>12
        DEF Next, Terminated

\* The exit status is 0 if and only if no call failed.
THEOREM StatusTellsFailure == Spec => []ExitTellsFailure
<1>1. Init => Sticky
      BY DEF Init, Sticky
<1>2. TypeOK /\ Sticky => ExitTellsFailure
  <2> SUFFICES ASSUME TypeOK, Sticky, pc = "exit"
               PROVE  status = 0 <=> failed = {} /\ argv # <<>> /\ delimLength <= 1
      BY DEF ExitTellsFailure
  <2>1. CASE (argv = <<>> \/ delimLength > 1) /\ status = EINVAL
        BY <2>1 DEF EINVAL, TypeOK
  <2>2. CASE argv # <<>> /\ delimLength <= 1 /\ status = errno
        BY <2>2 DEF Sticky
  <2> QED BY <2>1, <2>2 DEF Sticky
<1> QED BY <1>1, <1>2, NextSticky, SplitTypeCorrect, PTL DEF Spec

-----------------------------------------------------------------------------
(* What is written of each argument.                                       *)

\* Files, and the first argument that asks for the standard input.
Asked(i) ==
  \/ argv[i].kind = "file"
  \/ argv[i].kind = "stdin" /\ \A j \in 1..(i - 1) : argv[j].kind # "stdin"

Whole(i) == IF argv[i].kind = "stdin" THEN input ELSE argv[i].bytes

\* What is written of argument i, what is in the buffer and what is still unread make
\* up the whole; nothing of it is touched before its turn, and nothing after.
StoredOf(i) ==
  /\ i < totalArgs \/ (i = totalArgs /\ pc = "close") => written[i] = Replaced(Whole(i))
  /\ i = totalArgs /\ pc = "read" =>
       written[i] \o Replaced(Unread) = Replaced(Whole(i))
  /\ i = totalArgs /\ pc = "write" =>
       written[i] \o (buffer \o Replaced(Unread)) = Replaced(Whole(i))
  /\ i > totalArgs \/ (i = totalArgs /\ pc \in {"start", "open"}) =>
       written[i] = <<>> /\ (argv[i].kind = "stdin" => stdin = input)

Clean(i) == i \notin failed \cup short

Stored ==
  /\ pc = "exit" => argv = <<>> \/ delimLength > 1 \/ totalArgs = Len(argv) + 1
  /\ \A i \in 1..Len(argv) : Clean(i) /\ Asked(i) => StoredOf(i)

\* A chunk moves from what is unread to the buffer.
LEMMA ReadMoves ==
  ASSUME TypeOK, Read
  PROVE  Replaced(Unread) = buffer' \o Replaced(Unread')
<1>1. Unread \in Seq(Byte) /\ Len(Unread) \in Nat
      BY UnreadType DEF Read
<1>2. PICK n \in 1..Len(Unread) :
        /\ buffer' = Replaced(SubSeq(Unread, 1, n))
        /\ IF InHand.kind = "stdin"
           THEN stdin' = SubSeq(stdin, n + 1, Len(stdin)) /\ UNCHANGED offset
           ELSE offset' = offset + n /\ UNCHANGED stdin
      BY DEF Read
<1>3. InHand' = InHand
      BY DEF Read, Given, InHand
<1>4. Unread' = SubSeq(Unread, n + 1, Len(Unread))
  <2>1. CASE InHand.kind = "stdin"
        BY <1>2, <1>3, <2>1 DEF Unread
  <2>2. CASE InHand.kind # "stdin"
    <3> DEFINE b == InHand.bytes
    <3>1. b \in Seq(Byte) /\ Len(b) \in Nat /\ offset \in Nat
          BY ArgvType, LenProperties, SMTT(30) DEF Read, TypeOK, InHand, ArgumentType
    <3>2. Unread = SubSeq(b, offset + 1, Len(b))
          BY <2>2 DEF Unread
    <3>3. Unread' = SubSeq(b, offset + n + 1, Len(b))
          BY <1>2, <1>3, <2>2 DEF Unread
    <3>4. offset \in 0..Len(b)
          BY <3>1 DEF Read, TypeOK
    <3> HIDE DEF b
    <3>5. /\ Len(Unread) = Len(b) - offset
          /\ \A i \in 1..(Len(b) - offset) : Unread[i] = b[offset + i]
          BY <3>1, <3>2, <3>4, Suffix
    <3>6. /\ n \in 0..Len(Unread) /\ offset + n \in 0..Len(b)
          /\ Len(b) - (offset + n) = Len(Unread) - n
          BY <1>1, <3>1, <3>4, <3>5
    <3> DEFINE l == SubSeq(b, (offset + n) + 1, Len(b))
               r == SubSeq(Unread, n + 1, Len(Unread))
    <3>7. /\ l \in Seq(Byte) /\ Len(l) = Len(Unread) - n
          /\ \A i \in 1..(Len(Unread) - n) : l[i] = b[(offset + n) + i]
          BY <3>1, <3>6, Suffix
    <3>8. /\ r \in Seq(Byte) /\ Len(r) = Len(Unread) - n
          /\ \A i \in 1..(Len(Unread) - n) : r[i] = Unread[n + i]
          BY <1>1, <3>6, Suffix
    <3>9. \A i \in 1..(Len(Unread) - n) : Unread[n + i] = b[(offset + n) + i]
      <4> SUFFICES ASSUME NEW i \in 1..(Len(Unread) - n)
                   PROVE  Unread[n + i] = b[(offset + n) + i]
          OBVIOUS
      <4>1. n + i \in 1..(Len(b) - offset) /\ offset + (n + i) = (offset + n) + i
            BY <1>1, <3>1, <3>5
      <4> QED BY <3>5, <4>1
    <3> HIDE DEF l, r
    <3>10. l = r
          BY <3>7, <3>8, <3>9, SeqEqual
    <3> QED BY <3>3, <3>10 DEF l, r
  <2> QED BY <2>1, <2>2
<1>5. n \in 0..Len(Unread)
      BY <1>1, <1>2
<1>6. Replaced(SubSeq(Unread, 1, n)) \o Replaced(SubSeq(Unread, n + 1, Len(Unread)))
        = Replaced(Unread)
      BY <1>1, <1>5, ReplacedInChunks
<1> QED BY <1>2, <1>4, <1>6

LEMMA NextStored == TypeOK /\ TypeOK' /\ Stored /\ [Next]_vars => Stored'
<1> SUFFICES ASSUME TypeOK, TypeOK', Stored, [Next]_vars PROVE Stored'
    OBVIOUS
<1>0. argv' = argv /\ input' = input /\ Len(argv) \in Nat
  <2>1. argv' = argv /\ input' = input
        BY DEF Next, vars, Given, WrongUsage, Start, Open, OpenFails, Read, ReadEnds,
               ReadFails, Write, WriteFails, Close, Exit, Terminated
  <2> QED BY <2>1, ArgvType
<1>a. /\ \A i : Asked(i)' <=> Asked(i)
      /\ \A i : Whole(i)' = Whole(i)
      BY <1>0 DEF Asked, Whole
<1>b. failed \subseteq failed' /\ short \subseteq short'
      BY DEF Next, vars, Fail, WrongUsage, Start, Open, OpenFails, Read, ReadEnds,
             ReadFails, Write, WriteFails, Close, Exit, Terminated
\* What argument i keeps when it is not in hand, or when nothing of it changes.
<1>c. SUFFICES
        /\ (pc = "exit" => argv = <<>> \/ delimLength > 1 \/ totalArgs = Len(argv) + 1)'
        /\ \A i \in 1..Len(argv) :
             Clean(i) /\ Clean(i)' /\ Asked(i) /\ StoredOf(i) => StoredOf(i)'
  <2>1. ASSUME NEW i \in 1..Len(argv'), Clean(i)', Asked(i)',
               \A k \in 1..Len(argv) :
                  Clean(k) /\ Clean(k)' /\ Asked(k) /\ StoredOf(k) => StoredOf(k)'
        PROVE  StoredOf(i)'
    <3>1. Clean(i)
          BY <1>b, <2>1 DEF Clean
    <3>2. i \in 1..Len(argv) /\ Asked(i)
          BY <1>0, <1>a, <2>1
    <3>3. StoredOf(i)
          BY <3>1, <3>2 DEF Stored
    <3> QED BY <2>1, <3>1, <3>2, <3>3
  <2> QED BY <2>1, Zenon DEF Stored
<1>d. ASSUME NEW i \in 1..Len(argv)
      PROVE  /\ written[i] \in Seq(Byte) /\ i \in Nat /\ totalArgs \in Nat
             /\ Whole(i) \in Seq(Byte)
  <2>1. argv[i] \in ArgumentType /\ input \in Seq(Byte)
        BY <1>d, ArgvType
  <2>2. Whole(i) \in Seq(Byte)
        BY <2>1 DEF Whole, ArgumentType
  <2>3. written[i] \in Seq(Byte)
        BY <1>d DEF TypeOK
  <2>4. i \in Nat /\ totalArgs \in Nat
        BY <1>0, <1>d DEF TypeOK
  <2> QED BY <2>2, <2>3, <2>4
<1>1. CASE WrongUsage
      BY <1>0, <1>1, <1>a, <1>d DEF WrongUsage, Given, StoredOf
<1>2. CASE Start
      BY <1>0, <1>2, <1>a, <1>d DEF Start, Given, StoredOf
<1>3. CASE Open
  <2>1. ASSUME NEW i \in 1..Len(argv), StoredOf(i), i = totalArgs
        PROVE  written'[i] \o Replaced(Unread') = Replaced(Whole(i))
    <3>1. written'[i] = <<>> /\ (argv[i].kind = "stdin" => stdin' = input)
          BY <1>3, <2>1 DEF Open, StoredOf
    <3>2. Unread' = Whole(i)
      <4>1. InHand' = argv[i] /\ offset' = 0
            BY <1>0, <1>3, <2>1 DEF Open, InHand, StartOffset
      <4>2. CASE argv[i].kind = "stdin"
            BY <3>1, <4>1, <4>2 DEF Unread, Whole
      <4>3. CASE argv[i].kind # "stdin"
            BY <1>d, <4>1, <4>3, SubSeqFull DEF Unread, Whole
      <4> QED BY <4>2, <4>3
    <3>3. Replaced(Whole(i)) \in Seq(Byte)
          BY <1>d, ReplacedType
    <3> QED BY <3>1, <3>2, <3>3, ConcatEmptySeq
  <2> QED BY <1>0, <1>3, <1>a, <1>d, <2>1 DEF Open, Given, StoredOf
<1>4. CASE OpenFails
      BY <1>0, <1>4, <1>a, <1>d DEF OpenFails, Given, StoredOf, Fail, Clean
<1>5. CASE Read
  <2>1. ASSUME NEW i \in 1..Len(argv), i > totalArgs, Asked(i), argv[i].kind = "stdin"
        PROVE  stdin' = stdin
    <3>1. totalArgs \in 1..(i - 1)
          BY <1>0, <2>1 DEF TypeOK
    <3>2. InHand.kind # "stdin"
          BY <2>1, <3>1 DEF Asked, InHand
    <3> QED BY <1>5, <3>2 DEF Read
  <2> QED BY <1>0, <1>5, <1>a, <1>d, <2>1, ReadMoves DEF Read, Given, StoredOf
<1>6. CASE ReadEnds
  <2>1. ASSUME NEW i \in 1..Len(argv), StoredOf(i), i = totalArgs
        PROVE  written[i] = Replaced(Whole(i))
    <3>1. written[i] \o <<>> = Replaced(Whole(i))
          BY <1>6, <2>1, ReplacedEmpty DEF ReadEnds, StoredOf
    <3> QED BY <1>d, <3>1, ConcatEmptySeq
  <2> QED BY <1>0, <1>6, <1>a, <1>d, <2>1 DEF ReadEnds, AfterEnd, Given, StoredOf
<1>7. CASE ReadFails
      BY <1>0, <1>7, <1>a, <1>d DEF ReadFails, Given, StoredOf, Fail, Clean
<1>8. CASE Write
  <2>1. PICK n \in 1..Len(buffer) :
          /\ written' = [written EXCEPT ![totalArgs] = @ \o SubSeq(buffer, 1, n)]
          /\ short' = IF n = Len(buffer) THEN short ELSE short \cup {totalArgs}
        BY <1>8 DEF Write
  <2>2. Unread' = Unread
        BY <1>8 DEF Write, Given, Unread, InHand
  <2>3. ASSUME NEW i \in 1..Len(argv), StoredOf(i), i = totalArgs, Clean(i)'
        PROVE  written'[i] \o Replaced(Unread) = Replaced(Whole(i))
    <3>1. n = Len(buffer)
          BY <2>1, <2>3 DEF Clean
    <3>2. SubSeq(buffer, 1, n) = buffer
          BY <3>1, SubSeqFull DEF TypeOK
    <3>3. written'[i] = written[i] \o buffer
          BY <2>1, <2>3, <3>2 DEF TypeOK
    <3>4. Replaced(Unread) \in Seq(Byte)
          BY <1>8, UnreadType, ReplacedType DEF Write
    <3>5. written[i] \o (buffer \o Replaced(Unread)) = Replaced(Whole(i))
          BY <1>8, <2>3 DEF Write, StoredOf
    <3>6. (written[i] \o buffer) \o Replaced(Unread)
            = written[i] \o (buffer \o Replaced(Unread))
      <4> DEFINE a == written[i]
                 r == Replaced(Unread)
      <4>1. a \in Seq(Byte) /\ buffer \in Seq(Byte) /\ r \in Seq(Byte)
            BY <1>d, <3>4 DEF TypeOK
      <4> HIDE DEF a, r
      <4>2. (a \o buffer) \o r = a \o (buffer \o r)
            BY <4>1, ConcatAssociative, SMTT(30)
      <4> QED BY <4>2 DEF a, r
    <3> QED BY <3>3, <3>5, <3>6
  <2>4. \A i \in 1..Len(argv) : i # totalArgs => written'[i] = written[i]
        BY <2>1 DEF TypeOK
  <2>5. pc' = "read" /\ totalArgs' = totalArgs /\ stdin' = stdin /\ argv' = argv
        BY <1>8 DEF Write, Given
  <2>6. ASSUME NEW i \in 1..Len(argv), Clean(i)', StoredOf(i)
        PROVE  StoredOf(i)'
    <3>1. CASE i = totalArgs
      <4>1. written'[i] \o Replaced(Unread) = Replaced(Whole(i))
            BY <2>3, <2>6, <3>1
      <4> QED BY <1>a, <1>d, <2>2, <2>5, <3>1, <4>1 DEF StoredOf
    <3>2. CASE i # totalArgs
      <4>1. written'[i] = written[i] /\ input' = input
            BY <1>0, <2>4, <3>2
      <4> QED BY <1>a, <1>d, <2>5, <2>6, <3>2, <4>1 DEF StoredOf
    <3> QED BY <3>1, <3>2
  <2> QED BY <2>5, <2>6
<1>9. CASE WriteFails
      BY <1>0, <1>9, <1>a, <1>d DEF WriteFails, Given, StoredOf, Fail, Clean
<1>10. CASE Close
      BY <1>0, <1>10, <1>a, <1>d DEF Close, Given, StoredOf, Fail, Clean
<1>11. CASE Exit
  <2>1. totalArgs = Len(argv) + 1
        BY <1>0, <1>11 DEF Exit, MoreArguments, TypeOK
  <2> QED BY <1>0, <1>11, <1>a, <1>d, <2>1 DEF Exit, Given, StoredOf
<1>12. CASE UNCHANGED vars
  <2>1. /\ Unread' = Unread
        /\ \A i \in 1..Len(argv) : StoredOf(i)' = StoredOf(i) /\ Clean(i)' = Clean(i)
        BY <1>12 DEF vars, StoredOf, Clean, Whole, Unread, InHand
  <2>2. argv' = argv
        BY <1>12 DEF vars
  <2>3. \A i \in 1..Len(argv) : Asked(i)' = Asked(i)
        BY <1>12 DEF vars, Asked
  <2>4. (pc = "exit" => argv = <<>> \/ delimLength > 1 \/ totalArgs = Len(argv) + 1)'
        BY <1>12 DEF vars, Stored
  <2> QED BY <2>1, <2>2, <2>3, <2>4 DEF Stored
<1> QED BY <1>1, <1>2, <1>3, <1>4, <1>5, <1>6, <1>7, <1>8, <1>9, <1>10, <1>11, <1>12
        DEF Next, Terminated

LEMMA InitStored == Init => Stored
<1> SUFFICES ASSUME Init PROVE Stored
    OBVIOUS
<1>1. TypeOK
      BY InitType
<1> QED BY <1>1, ArgvType DEF Init, Stored, StoredOf

\* A failing argument costs the others nothing.
THEOREM OthersAreWholeAlways == Spec => []OthersAreWhole
<1>1. TypeOK /\ Stored => OthersAreWhole
  <2> SUFFICES ASSUME TypeOK, Stored, pc = "exit", argv # <<>>, delimLength <= 1,
                      NEW i \in (1..Len(argv)) \ (failed \cup short), Asked(i)
               PROVE  written[i] = ReplaceAll(Whole(i), DELIM, NEWLINE)
      BY DEF OthersAreWhole, Asked, Whole
  <2>1. totalArgs = Len(argv) + 1 /\ Len(argv) \in Nat
        BY ArgvType DEF Stored, TypeOK
  <2>2. StoredOf(i)
        BY DEF Stored, Clean
  <2>3. written[i] = Replaced(Whole(i))
        BY <2>1, <2>2 DEF StoredOf
  <2> QED BY <2>3 DEF Replaced, ReplaceAll
<1> QED BY <1>1, InitStored, NextStored, SplitTypeCorrect, PTL DEF Spec
=============================================================================
