------------------------ MODULE FileHandlers_proofs ------------------------
(***************************************************************************)
(* Proofs about FileHandlers: types, one creator per path, and no torn      *)
(* upload, for every set of requests, files and bodies.                     *)
(***************************************************************************)
EXTENDS FileHandlers, TLAPS, SequenceTheorems

-----------------------------------------------------------------------------
(* What the operators on content do.                                       *)

\* A piece of a body is content, of the length asked for.
LEMMA UnitsType ==
  ASSUME NEW r \in Request, NEW from \in Nat, NEW n \in Nat
  PROVE  /\ Units(r, from, n) \in Content
         /\ Len(Units(r, from, n)) = n
         /\ \A i \in 1..n : Units(r, from, n)[i] = <<r, from + i>>
BY DEF Units, Unit, Content

\* Two consecutive pieces of a body are one piece.
LEMMA UnitsConcat ==
  ASSUME NEW r \in Request, NEW k \in Nat, NEW n \in Nat
  PROVE  Units(r, 0, k) \o Units(r, k, n) = Units(r, 0, k + n)
<1>0. 0 \in Nat /\ k + n \in Nat
      OBVIOUS
<1> DEFINE a == Units(r, 0, k)
           b == Units(r, k, n)
           c == Units(r, 0, k + n)
<1>a. a \in Content /\ Len(a) = k /\ \A i \in 1..k : a[i] = <<r, 0 + i>>
      BY <1>0, UnitsType, Zenon
<1>1. a \in Content /\ Len(a) = k /\ \A i \in 1..k : a[i] = <<r, i>>
      BY <1>a, \A i \in 1..k : 0 + i = i, Zenon
<1>b. b \in Content /\ Len(b) = n /\ \A i \in 1..n : b[i] = <<r, k + i>>
      BY UnitsType
<1>c. c \in Content /\ Len(c) = k + n /\ \A i \in 1..(k + n) : c[i] = <<r, 0 + i>>
      BY <1>0, UnitsType, Zenon
<1>2. c \in Content /\ Len(c) = k + n /\ \A i \in 1..(k + n) : c[i] = <<r, i>>
      BY <1>c, \A i \in 1..(k + n) : 0 + i = i, Zenon
<1> HIDE DEF a, b, c
<1>3. /\ a \o b \in Content
      /\ Len(a \o b) = k + n
      /\ \A i \in 1..(k + n) : (a \o b)[i] = IF i <= k THEN a[i] ELSE b[i - k]
  <2>1. a \in Seq((Request \cup {Disk}) \X Nat) /\ b \in Seq((Request \cup {Disk}) \X Nat)
        BY <1>1, <1>b DEF Content
  <2>2. /\ a \o b \in Seq((Request \cup {Disk}) \X Nat)
        /\ Len(a \o b) = Len(a) + Len(b)
        /\ \A i \in 1..(Len(a) + Len(b)) : (a \o b)[i] = IF i <= Len(a) THEN a[i] ELSE b[i - Len(a)]
        BY <2>1, ConcatProperties, Zenon
  <2> QED BY <1>1, <1>b, <2>2, Zenon DEF Content
<1>4. ASSUME NEW i \in 1..(k + n) PROVE (a \o b)[i] = c[i]
    <2>1. CASE i <= k
      <3>1. i \in 1..k
            BY <2>1
      <3>2. a[i] = <<r, i>> /\ c[i] = <<r, i>>
            BY <1>1, <1>2, <3>1, Zenon
      <3> QED BY <1>3, <2>1, <3>2
    <2>2. CASE ~(i <= k)
      <3>1. i - k \in 1..n /\ k + (i - k) = i
            BY <2>2
      <3>2. b[i - k] = <<r, i>>
            BY <1>b, <3>1, Zenon
      <3> QED BY <1>2, <1>3, <2>2, <3>2
    <2> QED BY <2>1, <2>2
<1>5. a \o b = c
      BY <1>2, <1>3, <1>4, SeqEqual DEF Content
<1> QED BY <1>5 DEF a, b, c

\* write() leaves content, wherever it writes.
LEMMA OverwriteType ==
  ASSUME NEW c \in Content, NEW o \in Nat, NEW s \in Content
  PROVE  Overwrite(c, o, s) \in Content
<1> DEFINE U == (Request \cup {Disk}) \X Nat
           top == IF o + Len(s) > Len(c) THEN o + Len(s) ELSE Len(c)
<1>1. Len(c) \in Nat /\ Len(s) \in Nat /\ top \in Nat
      BY LenProperties DEF Content
<1>2. ASSUME NEW i \in 1..top
      PROVE (IF i > o /\ i <= o + Len(s) THEN s[i - o]
             ELSE IF i <= Len(c) THEN c[i] ELSE Unit(Disk, 0)) \in U
      <2>1. CASE i > o /\ i <= o + Len(s)
            BY <1>1, <2>1, i - o \in 1..Len(s), ElementOfSeq DEF Content
      <2>2. CASE ~(i > o /\ i <= o + Len(s)) /\ i <= Len(c)
            BY <1>1, <2>2, i \in 1..Len(c), ElementOfSeq DEF Content
      <2>3. CASE ~(i > o /\ i <= o + Len(s)) /\ ~(i <= Len(c))
            BY <2>3 DEF Unit
      <2> QED BY <2>1, <2>2, <2>3
<1> QED BY <1>1, <1>2 DEF Overwrite, Content

\* write() at the end appends.
LEMMA OverwriteEnd ==
  ASSUME NEW c \in Content, NEW s \in Content
  PROVE  Overwrite(c, Len(c), s) = c \o s
<1> DEFINE w == Overwrite(c, Len(c), s)
<1>1. Len(c) \in Nat /\ Len(s) \in Nat
      BY LenProperties DEF Content
<1>2. w \in Content
      BY <1>1, OverwriteType
<1>3. /\ Len(w) = Len(c) + Len(s)
      /\ \A i \in 1..(Len(c) + Len(s)) : w[i] = IF i <= Len(c) THEN c[i] ELSE s[i - Len(c)]
      BY <1>1 DEF Overwrite
<1> HIDE DEF w
<1>4. /\ c \o s \in Content
      /\ Len(c \o s) = Len(c) + Len(s)
      /\ \A i \in 1..(Len(c) + Len(s)) :
           (c \o s)[i] = IF i <= Len(c) THEN c[i] ELSE s[i - Len(c)]
      BY ConcatProperties DEF Content
<1>5. w = c \o s
      BY <1>1, <1>2, <1>3, <1>4, SeqEqual DEF Content
<1> QED BY <1>5 DEF w

-----------------------------------------------------------------------------
(* Types, and the control of GETs and uploads.                             *)

Codes == {0, RES_OK, RES_CREATED, RES_FORBIDDEN, RES_NOT_FOUND, RES_INTERNAL_SE}

Jobs == [created : BOOLEAN, fileSize : Int, stored : Nat, status : Codes, sent : Content]

GetPc == {"start", "open", "stat", "read", "log", "unlock", "done"}
UploadPc == {"start", "access", "open", "first", "recv", "close", "log", "unlock", "done"}

\* A worker is in the code of its method; nothing is stored before the first
\* write(); an open file exists.
Control ==
  /\ \A r \in Request : pc[r] \in IF IsGet(r) THEN GetPc ELSE UploadPc
  /\ \A r \in Request : pc[r] \in {"start", "access", "open", "first"} => job[r].stored = 0
  /\ \A r \in Request :
       pc[r] \in {"stat", "read", "first", "recv", "close"} => files[FileOf(r)] # Absent

Typing == TypeOK /\ Control

\* What FilesAssumption says of one request.
LEMMA InputFacts ==
  ASSUME TypeOK, NEW r \in Request
  PROVE  /\ input[r].op \in {"GET", "PUT", "APPEND"}
         /\ FileOf(r) \in File
         /\ input[r].contLen \in Nat /\ input[r].body \in Nat /\ input[r].bodyVal \in Nat
         /\ input[r].bodyVal <= input[r].body
<1>1. input[r] \in InputType /\ input[r].bodyVal <= input[r].body
      BY FilesAssumption DEF TypeOK
<1> QED BY <1>1 DEF InputType, FileOf

\* A step that moves one request, and neither files nor what is stored, keeps
\* the types and the control.
LEMMA TypingMoves ==
  ASSUME Typing, NEW r \in Request, NEW to, NEW new \in Jobs,
         to \in IF IsGet(r) THEN GetPc ELSE UploadPc,
         to \in {"start", "access", "open", "first"} =>
           pc[r] \in {"start", "access", "open", "first"},
         to \in {"stat", "read", "first", "recv", "close"} => files[FileOf(r)] # Absent,
         new.stored = job[r].stored,
         pc' = [pc EXCEPT ![r] = to],
         job' = [job EXCEPT ![r] = new],
         readLock' \subseteq Request,
         writeLock' \in Request \cup {Nobody},
         log' \in Seq(Request),
         committed' \in [File -> {Absent} \cup Content],
         UNCHANGED <<input, files>>
  PROVE  Typing'
<1> USE DEF Typing, Control, IsGet, FileOf, GetPc, UploadPc
<1>1. pc \in [Request -> GetPc \cup UploadPc]
      BY DEF TypeOK
<1>2. job \in [Request -> Jobs]
      BY DEF TypeOK, Jobs, Codes
<1>3. pc' \in [Request -> GetPc \cup UploadPc]
      BY <1>1
<1>4. job' \in [Request -> Jobs]
      BY <1>2
<1>5. \A q \in Request : job'[q].stored = job[q].stored
      BY <1>2
<1>6. TypeOK'
      BY <1>3, <1>4, <1>5 DEF TypeOK, Jobs, Codes
<1>7. Control'
      BY <1>1, <1>3, <1>5
<1> QED BY <1>6, <1>7

\* Where write() writes, and what.
LEMMA WriteTypes ==
  ASSUME Typing, NEW r \in Request, NEW n \in Nat,
         files[FileOf(r)] # Absent, Write(r, n)
  PROVE  /\ files' \in [File -> {Absent} \cup Content]
         /\ \A f \in File : files[f] # Absent => files'[f] # Absent
         /\ job' = [job EXCEPT ![r] = [job[r] EXCEPT !.stored = job[r].stored + n]]
         /\ job' \in [Request -> Jobs]
<1> DEFINE f == FileOf(r)
           o == Offset(r)
           s == Units(r, job[r].stored, n)
<1>1. f \in File /\ files \in [File -> {Absent} \cup Content] /\ files[f] \in Content
      BY InputFacts DEF Typing, TypeOK
<1>2. job \in [Request -> Jobs] /\ job[r].stored \in Nat
      BY DEF Typing, TypeOK, Jobs, Codes
<1>3. o \in Nat
      BY <1>1, <1>2, LenProperties DEF Offset, Content
<1>4. s \in Content
      BY <1>2, UnitsType
<1>5. Overwrite(files[f], o, s) \in Content
      BY <1>1, <1>3, <1>4, OverwriteType
<1>6. files' = [files EXCEPT ![f] = Overwrite(files[f], o, s)]
      BY <1>1 DEF Write
<1> HIDE DEF f, o, s
<1>7. /\ files' \in [File -> {Absent} \cup Content]
      /\ \A g \in File : files[g] # Absent => files'[g] # Absent
      BY <1>1, <1>5, <1>6, FilesAssumption
<1>8. job' = [job EXCEPT ![r] = [job[r] EXCEPT !.stored = job[r].stored + n]]
      BY <1>2 DEF Write
<1>9. job' \in [Request -> Jobs]
      BY <1>2, <1>8 DEF Jobs
<1> QED BY <1>7, <1>8, <1>9

\* A step that writes keeps the types and the control.
LEMMA TypingWrites ==
  ASSUME Typing, NEW r \in Request, NEW n \in Nat, ~IsGet(r),
         pc[r] \in {"first", "recv"}, Write(r, n),
         job[r].stored + n <= input[r].body,
         pc' = [pc EXCEPT ![r] = "recv"],
         UNCHANGED <<input, readLock, writeLock, log, committed>>
  PROVE  Typing'
<1>1. files[FileOf(r)] # Absent
      BY DEF Typing, Control
<1>2. /\ files' \in [File -> {Absent} \cup Content]
      /\ \A f \in File : files[f] # Absent => files'[f] # Absent
      /\ job' = [job EXCEPT ![r] = [job[r] EXCEPT !.stored = job[r].stored + n]]
      /\ job' \in [Request -> Jobs]
      BY <1>1, WriteTypes
<1>3. job \in [Request -> Jobs]
      BY DEF Typing, TypeOK, Jobs, Codes
<1>4. \A q \in Request : job'[q].stored = IF q = r THEN job[r].stored + n ELSE job[q].stored
      BY <1>2, <1>3 DEF Jobs
<1>5. pc \in [Request -> GetPc \cup UploadPc] /\ pc' \in [Request -> GetPc \cup UploadPc]
      BY DEF Typing, TypeOK, GetPc, UploadPc
<1>6. TypeOK'
      BY <1>2, <1>4, <1>5 DEF Typing, TypeOK, Jobs, Codes, GetPc, UploadPc
<1>7. \A q \in Request : FileOf(q) \in File /\ FileOf(q)' = FileOf(q) /\ IsGet(q)' = IsGet(q)
      BY InputFacts DEF Typing, FileOf, IsGet
<1>8. Control'
      BY <1>1, <1>2, <1>4, <1>5, <1>7 DEF Typing, Control, GetPc, UploadPc
<1> QED BY <1>6, <1>8 DEF Typing

LEMMA InitTyping == Init => Typing
<1> SUFFICES ASSUME Init PROVE Typing
    OBVIOUS
<1>1. \A n \in Nat : Units(Disk, 0, n) \in Content
      BY DEF Units, Unit, Content
<1>2. files \in [File -> {Absent} \cup Content]
      BY <1>1, FilesAssumption DEF Init
<1>3. <<>> \in Content /\ <<>> \in Seq(Request)
      BY DEF Content
<1>4. \A r \in Request : input[r].body \in Nat
      <2> TAKE r \in Request
      <2>1. input[r] \in InputType
            BY FilesAssumption DEF Init
      <2> QED BY <2>1 DEF InputType
<1>5. TypeOK
      BY <1>2, <1>3, <1>4 DEF Init, TypeOK
<1>6. Control
      BY DEF Init, Control, GetPc, UploadPc
<1> QED BY <1>5, <1>6 DEF Typing

\* Cutting a size to an int never makes it larger.
LEMMA ToIntFacts ==
  ASSUME NEW n \in Nat
  PROVE  ToInt(n) \in Int /\ ToInt(n) <= n
<1> DEFINE M == 2 * (INT_MAX + 1)
<1>1. INT_MAX \in Nat /\ M \in Nat \ {0}
      BY FilesAssumption
<1>2. ToInt(n) = IF n % M <= INT_MAX THEN n % M ELSE (n % M) - M
      BY DEF ToInt
<1> HIDE DEF M
<1>3. n % M \in 0..(M - 1) /\ n % M <= n
      BY <1>1
<1> QED BY <1>1, <1>2, <1>3

\* What read() returns is content.
LEMMA ChunkType ==
  ASSUME Typing, NEW r \in Request, files[FileOf(r)] # Absent
  PROVE  Chunk(r) \in Content
<1> DEFINE c == files[FileOf(r)]
           from == totalGotten(r)
           top == IF from + BUF_SIZE < Len(c) THEN from + BUF_SIZE ELSE Len(c)
           U == (Request \cup {Disk}) \X Nat
<1>1. c \in Seq(U)
      BY InputFacts DEF Typing, TypeOK, Content
<1>2. job[r].sent \in Seq(U)
      BY DEF Typing, TypeOK, Content
<1>3. from \in Nat /\ Len(c) \in Nat /\ BUF_SIZE \in Nat
      BY <1>1, <1>2, LenProperties, FilesAssumption DEF totalGotten
<1>4. top \in Int /\ from + 1 \in Int /\ top <= Len(c) /\ from + 1 >= 1
      BY <1>3
<1>5. \A i \in (from + 1)..top : c[i] \in U
      BY <1>1, <1>3, <1>4, ElementOfSeq
<1> HIDE DEF c, from, top, U
<1>6. SubSeq(c, from + 1, top) \in Seq(U)
      BY <1>4, <1>5, SubSeqProperties
<1> QED BY <1>6 DEF Chunk, c, from, top, U, Content

LEMMA NextTyping == Typing /\ [Next]_vars => Typing'
<1> SUFFICES ASSUME Typing, [Next]_vars PROVE Typing'
    OBVIOUS
<1>1. ASSUME UNCHANGED vars PROVE Typing'
      BY <1>1 DEF vars, Typing, TypeOK, Control, IsGet, FileOf
<1>2. ASSUME NEW r \in Request, ServerStep(r) \/ ClientStep(r) PROVE Typing'
  <2>1. /\ job \in [Request -> Jobs] /\ job[r] \in Jobs
        /\ pc[r] \in IF IsGet(r) THEN GetPc ELSE UploadPc
        /\ files \in [File -> {Absent} \cup Content]
        /\ committed \in [File -> {Absent} \cup Content]
        /\ readLock \subseteq Request /\ writeLock \in Request \cup {Nobody}
        /\ log \in Seq(Request)
        /\ FileOf(r) \in File
        /\ \/ IsGet(r)
           \/ ~IsGet(r) /\ input[r].op \in {"PUT", "APPEND"}
        BY InputFacts DEF Typing, TypeOK, Control, Jobs, Codes, IsGet
  <2>2. /\ pc[r] \in {"start", "access", "open", "first"} => job[r].stored = 0
        /\ pc[r] \in {"stat", "read", "first", "recv", "close"} => files[FileOf(r)] # Absent
        BY DEF Typing, Control
  <2>3. \A code \in Codes : [job[r] EXCEPT !.status = code] \in Jobs
        BY <2>1 DEF Jobs
  <2>4. job = [job EXCEPT ![r] = job[r]]
        BY <2>1
  <2> USE DEF Goto, GetPc, UploadPc
  <2>a. CASE LockRead(r)
        BY <2>1, <2>2, <2>4, <2>a, TypingMoves DEF LockRead
  <2>b. CASE GetFails(r)
    <3>1. PICK code \in Codes : /\ Respond(r, code)
                                /\ Goto(r, "open", "unlock") \/ Goto(r, "open", "log")
          BY <2>b DEF GetFails, OpenFails, Codes
    <3>2. job' = [job EXCEPT ![r] = [job[r] EXCEPT !.status = code]]
          BY <3>1, <2>1 DEF Respond
    <3> QED BY <2>1, <2>2, <2>3, <2>b, <3>1, <3>2, TypingMoves DEF GetFails, OpenFails, Jobs
  <2>c. CASE GetOpens(r)
        BY <2>1, <2>2, <2>4, <2>c, TypingMoves DEF GetOpens
  <2>d. CASE SendHeader(r)
    <3> DEFINE new == [job[r] EXCEPT !.fileSize = ToInt(Len(files[FileOf(r)])),
                                     !.status = RES_OK]
    <3>1. files[FileOf(r)] \in Content
          BY <2>1, <2>2, <2>d DEF SendHeader
    <3>2. ToInt(Len(files[FileOf(r)])) \in Int
          BY <3>1, LenProperties, ToIntFacts DEF Content
    <3>3. new \in Jobs /\ new.stored = job[r].stored
          BY <2>1, <3>2 DEF Jobs, Codes
    <3>4. job' = [job EXCEPT ![r] = new]
          BY <2>1, <2>d DEF SendHeader
    <3>5. IsGet(r)
          BY <2>1, <2>d DEF SendHeader
    <3> HIDE DEF new
    <3> QED BY <2>1, <2>2, <2>d, <3>3, <3>4, <3>5, TypingMoves DEF SendHeader
  <2>e. CASE SendChunk(r)
    <3> DEFINE new == [job[r] EXCEPT !.sent = job[r].sent \o Chunk(r)]
    <3>1. job[r].sent \in Content /\ Chunk(r) \in Content
          BY <2>1, <2>2, <2>e, ChunkType DEF SendChunk, Jobs
    <3>2. job[r].sent \o Chunk(r) \in Content
          BY <3>1, ConcatProperties DEF Content
    <3>3. new \in Jobs /\ new.stored = job[r].stored
          BY <2>1, <3>2 DEF Jobs
    <3>4. job' = [job EXCEPT ![r] = new]
          BY <2>1, <2>e DEF SendChunk
    <3>5. pc' = [pc EXCEPT ![r] = "read"]
          BY <2>e DEF SendChunk, Typing, TypeOK
    <3>6. IsGet(r)
          BY <2>1, <2>e DEF SendChunk
    <3> HIDE DEF new
    <3> QED BY <2>1, <2>2, <2>e, <3>3, <3>4, <3>5, <3>6, TypingMoves DEF SendChunk
  <2>f. CASE Spin(r)
        BY <1>1, <2>f DEF Spin
  <2>g. CASE GetReturns(r)
        BY <2>1, <2>2, <2>4, <2>g, TypingMoves DEF GetReturns
  <2>h. CASE NothingToStore(r)
        BY <2>1, <2>2, <2>4, <2>h, TypingMoves DEF NothingToStore
  <2>i. CASE LockWrite(r)
    <3>1. PICK to \in {"access", "open"} : pc' = [pc EXCEPT ![r] = to] /\ pc[r] = "start"
          BY <2>i DEF LockWrite
    <3>2. writeLock' = r /\ ~IsGet(r) /\ UNCHANGED <<input, readLock, files, job, log, committed>>
          BY <2>i DEF LockWrite
    <3> QED BY <2>1, <2>2, <2>4, <3>1, <3>2, TypingMoves
  <2>j. CASE Access(r)
    <3> DEFINE new == [job[r] EXCEPT !.created = Missing(files[FileOf(r)])]
    <3>1. new \in Jobs /\ new.stored = job[r].stored
          BY <2>1 DEF Jobs, Missing
    <3>2. job' = [job EXCEPT ![r] = new]
          BY <2>1, <2>j DEF Access
    <3>3. ~IsGet(r)
          BY <2>1, <2>j DEF Access
    <3> HIDE DEF new
    <3> QED BY <2>1, <2>2, <2>j, <3>1, <3>2, <3>3, TypingMoves DEF Access
  <2>k. CASE UploadFails(r)
    <3>1. PICK code \in Codes : /\ Respond(r, code)
                                /\ Goto(r, "open", "unlock") \/ Goto(r, "open", "log")
          BY <2>k DEF UploadFails, OpenFails, Codes
    <3>2. job' = [job EXCEPT ![r] = [job[r] EXCEPT !.status = code]]
          BY <3>1, <2>1 DEF Respond
    <3> QED BY <2>1, <2>2, <2>3, <2>k, <3>1, <3>2, TypingMoves DEF UploadFails, OpenFails, Jobs
  <2>l. CASE UploadOpens(r)
    <3>1. <<>> \in Content
          BY DEF Content
    <3>2. /\ files' \in [File -> {Absent} \cup Content]
          /\ \A f \in File : files[f] # Absent => files'[f] # Absent
          /\ files'[FileOf(r)] # Absent
          BY <2>1, <2>l, <3>1, FilesAssumption DEF UploadOpens, Truncated
    <3>3. TypeOK'
          BY <2>l, <3>2 DEF UploadOpens, Typing, TypeOK
    <3>4. \A q \in Request : FileOf(q) \in File /\ FileOf(q)' = FileOf(q) /\ IsGet(q)' = IsGet(q)
          BY <2>l, InputFacts DEF UploadOpens, Typing, FileOf, IsGet
    <3>5. pc \in [Request -> GetPc \cup UploadPc]
          BY DEF Typing, TypeOK
    <3>6. Control'
          BY <2>l, <3>2, <3>4, <3>5 DEF UploadOpens, Typing, Control
    <3> QED BY <3>3, <3>6 DEF Typing
  <2>m. CASE WriteFirst(r)
    <3>1. /\ input[r].bodyVal \in Nat
          /\ job[r].stored + input[r].bodyVal <= input[r].body
          BY <2>2, <2>m, InputFacts DEF WriteFirst, Typing
    <3>2. ~IsGet(r)
          BY <2>1, <2>m DEF WriteFirst
    <3> QED BY <2>m, <3>1, <3>2, TypingWrites DEF WriteFirst, FirstChunk
  <2>n. CASE StoreChunk(r)
    <3>1. PICK n \in 1..BUF_SIZE : job[r].stored + n <= input[r].body /\ Write(r, n)
          BY <2>n DEF StoreChunk
    <3>2. pc' = [pc EXCEPT ![r] = "recv"]
          BY <2>n DEF StoreChunk, Typing, TypeOK
    <3>3. n \in Nat
          BY FilesAssumption
    <3> QED BY <2>1, <2>n, <3>1, <3>2, <3>3, TypingWrites DEF StoreChunk
  <2>o. CASE BodyEnds(r)
        BY <2>1, <2>2, <2>4, <2>o, TypingMoves DEF BodyEnds, AfterEnd
  <2>p. CASE BodyComplete(r)
        BY <2>1, <2>2, <2>4, <2>p, TypingMoves DEF BodyComplete
  <2>q. CASE SendStored(r)
    <3>1. PICK code \in Codes : Respond(r, code)
          BY <2>q DEF SendStored, Codes
    <3>2. job' = [job EXCEPT ![r] = [job[r] EXCEPT !.status = code]]
          BY <3>1, <2>1 DEF Respond
    <3> QED BY <2>1, <2>2, <2>3, <2>q, <3>2, TypingMoves DEF SendStored, Jobs
  <2>r. CASE Log(r)
    <3>1. log' \in Seq(Request)
          BY <2>1, <2>r, AppendProperties DEF Log
    <3>2. committed' \in [File -> {Absent} \cup Content]
          BY <2>1, <2>r DEF Log
    <3> QED BY <2>1, <2>2, <2>4, <2>r, <3>1, <3>2, TypingMoves DEF Log
  <2>s. CASE Unlock(r)
        BY <2>1, <2>2, <2>4, <2>s, TypingMoves DEF Unlock
  <2> QED BY <1>2, <2>a, <2>b, <2>c, <2>d, <2>e, <2>f, <2>g, <2>h, <2>i, <2>j, <2>k, <2>l,
             <2>m, <2>n, <2>o, <2>p, <2>q, <2>r, <2>s DEF ServerStep, ClientStep
<1> QED BY <1>1, <1>2 DEF Next, Finished

\* TypeOK holds: in particular no upload stores more than was received.
THEOREM FilesTypeCorrect == Spec => []TypeOK
<1>1. Typing => TypeOK
      BY DEF Typing
<1> QED BY <1>1, InitTyping, NextTyping, PTL DEF Spec

-----------------------------------------------------------------------------
(* Uploads exclude one another.                                            *)

\* Between its lock and its unlock an upload is the owner of writeLock.
Exclusive ==
  \A r \in Request : ~IsGet(r) /\ pc[r] \notin {"start", "done"} => writeLock = r

LEMMA NextExclusive == Typing /\ Exclusive /\ [Next]_vars => Exclusive'
<1> SUFFICES ASSUME Typing, Exclusive, [Next]_vars PROVE Exclusive'
    OBVIOUS
<1> USE DEF Exclusive, IsGet
<1>1. CASE UNCHANGED vars
      BY <1>1 DEF vars
<1>2. ASSUME NEW r \in Request, ServerStep(r) \/ ClientStep(r) PROVE Exclusive'
  <2>1. pc \in [Request -> GetPc \cup UploadPc] /\ Nobody \notin Request
        BY FilesAssumption DEF Typing, TypeOK, GetPc, UploadPc
  <2>2. pc[r] \in IF IsGet(r) THEN GetPc ELSE UploadPc
        BY DEF Typing, Control
  <2>3. CASE LockRead(r) \/ GetFails(r) \/ GetOpens(r) \/ GetReturns(r)
        BY <2>1, <2>2, <2>3 DEF LockRead, GetFails, OpenFails, GetOpens, GetReturns, Goto, GetPc, UploadPc
  <2>4. CASE SendHeader(r) \/ SendChunk(r)
        BY <2>1, <2>2, <2>4 DEF SendHeader, SendChunk, Goto, GetPc, UploadPc
  <2>5. CASE Spin(r)
        BY <2>5 DEF Spin, vars
  <2>6. CASE NothingToStore(r)
        BY <2>1, <2>6 DEF NothingToStore, Goto
  <2>7. CASE LockWrite(r)
    <3>1. /\ MayWrite /\ writeLock' = r /\ input' = input
          /\ \E to \in {"access", "open"} : pc' = [pc EXCEPT ![r] = to]
          BY <2>7 DEF LockWrite, Goto
    <3> QED BY <2>1, <3>1 DEF MayWrite
  <2>8. CASE Access(r) \/ UploadFails(r) \/ UploadOpens(r)
        BY <2>1, <2>8 DEF Access, UploadFails, OpenFails, UploadOpens, Goto
  <2>9. CASE WriteFirst(r) \/ StoreChunk(r)
        BY <2>1, <2>9 DEF WriteFirst, StoreChunk, Goto
  <2>10. CASE BodyEnds(r) \/ BodyComplete(r) \/ SendStored(r) \/ Log(r)
        BY <2>1, <2>10 DEF BodyEnds, BodyComplete, SendStored, Log, Goto
  <2>11. CASE Unlock(r)
        BY <2>1, <2>11 DEF Unlock, Goto
  <2> QED BY <1>2, <2>3, <2>4, <2>5, <2>6, <2>7, <2>8, <2>9, <2>10, <2>11
          DEF ServerStep, ClientStep
<1> QED BY <1>1, <1>2 DEF Next, Finished

\* Two uploads are never past their lock together.
LEMMA Alone ==
  ASSUME Exclusive, NEW r \in Request, NEW q \in Request, ~IsGet(r), ~IsGet(q),
         pc[r] \notin {"start", "done"}, pc[q] \notin {"start", "done"}
  PROVE  r = q
BY DEF Exclusive

-----------------------------------------------------------------------------
(* One creator per path.                                                   *)

\* r has created its file, or is about to say so.
Made(r) ==
  job[r].created /\ (pc[r] \in {"first", "recv", "close"} \/ job[r].status = RES_CREATED)

\* What access() said is still true at open(), for the lock is held; a file once
\* made stays; so whoever makes it is the only one.
Creation ==
  /\ \A r \in Request : job[r].created => ~IsGet(r)
  /\ \A r \in Request : pc[r] \in {"start", "access"} => ~job[r].created /\ job[r].status = 0
  /\ \A r \in Request : job[r].status = RES_CREATED => job[r].created
  /\ \A r \in Request : pc[r] = "open" /\ job[r].created => files[FileOf(r)] = Absent
  /\ \A r \in Request : Made(r) => files[FileOf(r)] # Absent
  /\ \A r, q \in Request : Made(r) /\ Made(q) /\ FileOf(r) = FileOf(q) => r = q

\* No file disappears, and only an upload past its lock changes one.
LEMMA FilesStay ==
  ASSUME Typing, NEW r \in Request, ServerStep(r) \/ ClientStep(r)
  PROVE  /\ \A f \in File : files[f] # Absent => files'[f] # Absent
         /\ files' = files \/ (~IsGet(r) /\ pc[r] \in {"open", "first", "recv"})
         /\ \A f \in File : f # FileOf(r) => files'[f] = files[f]
<1>1. /\ pc[r] \in IF IsGet(r) THEN GetPc ELSE UploadPc
      /\ files \in [File -> {Absent} \cup Content]
      /\ FileOf(r) \in File
      BY InputFacts DEF Typing, TypeOK, Control
<1>2. CASE UploadOpens(r)
  <2>1. <<>> # Absent
        BY FilesAssumption, <<>> \in Content DEF Content
  <2> QED BY <1>1, <1>2, <2>1 DEF UploadOpens, Truncated, Goto
<1>3. CASE WriteFirst(r) \/ StoreChunk(r)
  <2>1. pc[r] \in {"first", "recv"} /\ files[FileOf(r)] # Absent
        BY <1>3 DEF WriteFirst, StoreChunk, Goto, Typing, Control
  <2>2. PICK n \in Nat : Write(r, n)
    <3>1. input[r].bodyVal \in Nat
          BY InputFacts DEF Typing
    <3>2. 1..BUF_SIZE \subseteq Nat
          BY FilesAssumption
    <3> QED BY <1>3, <3>1, <3>2 DEF WriteFirst, StoreChunk, FirstChunk
  <2>3. \A f \in File : files[f] # Absent => files'[f] # Absent
        BY <2>1, <2>2, WriteTypes
  <2>4. \A f \in File : f # FileOf(r) => files'[f] = files[f]
        BY <1>1, <2>2 DEF Write
  <2> QED BY <1>1, <2>1, <2>3, <2>4 DEF GetPc, UploadPc
<1>4. CASE UNCHANGED files
      BY <1>4
<1>5. UNCHANGED files \/ UploadOpens(r) \/ WriteFirst(r) \/ StoreChunk(r)
      BY DEF ServerStep, ClientStep, vars, LockRead, GetFails, OpenFails, GetOpens, SendHeader,
             SendChunk, Spin, GetReturns, NothingToStore, LockWrite, Access, UploadFails,
             BodyEnds, BodyComplete, SendStored, Log, Unlock
<1> QED BY <1>2, <1>3, <1>4, <1>5

\* A step moves one request.
LEMMA OthersStay ==
  ASSUME Typing, NEW r \in Request, ServerStep(r) \/ ClientStep(r)
  PROVE  /\ input' = input
         /\ \A q \in Request : q # r => pc'[q] = pc[q] /\ job'[q] = job[q]
<1>1. pc \in [Request -> GetPc \cup UploadPc] /\ job \in [Request -> Jobs]
      BY DEF Typing, TypeOK, GetPc, UploadPc, Jobs, Codes
<1> USE DEF Goto, Respond
<1>2. CASE LockRead(r) \/ GetFails(r) \/ GetOpens(r) \/ SendHeader(r) \/ GetReturns(r)
      BY <1>1, <1>2 DEF LockRead, GetFails, OpenFails, GetOpens, SendHeader, GetReturns
<1>3. CASE SendChunk(r) \/ Spin(r)
      BY <1>1, <1>3 DEF SendChunk, Spin, vars
<1>4. CASE NothingToStore(r) \/ LockWrite(r) \/ Access(r) \/ UploadFails(r) \/ UploadOpens(r)
      BY <1>1, <1>4 DEF NothingToStore, LockWrite, Access, UploadFails, OpenFails, UploadOpens
<1>5. CASE WriteFirst(r) \/ StoreChunk(r)
      BY <1>1, <1>5 DEF WriteFirst, StoreChunk, Write
<1>6. CASE BodyEnds(r) \/ BodyComplete(r) \/ SendStored(r) \/ Log(r) \/ Unlock(r)
      BY <1>1, <1>6 DEF BodyEnds, BodyComplete, SendStored, Log, Unlock
<1> QED BY <1>2, <1>3, <1>4, <1>5, <1>6 DEF ServerStep, ClientStep

\* What a step has to establish for the request it moves.
LEMMA CreationMoves ==
  ASSUME Typing, Exclusive, Creation, NEW r \in Request, ServerStep(r) \/ ClientStep(r),
         job'[r].created => ~IsGet(r),
         pc'[r] \in {"start", "access"} => ~job'[r].created /\ job'[r].status = 0,
         job'[r].status = RES_CREATED => job'[r].created,
         pc'[r] = "open" /\ job'[r].created => files'[FileOf(r)] = Absent,
         \/ Made(r)' => Made(r)
         \/ files[FileOf(r)] = Absent /\ files'[FileOf(r)] # Absent
  PROVE  Creation'
<1>1. /\ input' = input
      /\ \A q \in Request : q # r => pc'[q] = pc[q] /\ job'[q] = job[q]
      BY OthersStay
<1>2. /\ \A f \in File : files[f] # Absent => files'[f] # Absent
      /\ files' = files \/ (~IsGet(r) /\ pc[r] \in {"open", "first", "recv"})
      BY FilesStay
<1>3. \A q \in Request : FileOf(q) \in File /\ FileOf(q)' = FileOf(q) /\ IsGet(q)' = IsGet(q)
      BY <1>1, InputFacts DEF Typing, FileOf, IsGet
<1>4. \A q \in Request : q # r => Made(q)' = Made(q)
      BY <1>1 DEF Made
<1>5. \A q \in Request : q # r /\ pc[q] = "open" /\ job[q].created => files' = files
      BY <1>2, Alone DEF Creation
<1>6. \A q \in Request : job'[q].created => ~IsGet(q)
      BY <1>1 DEF Creation
<1>7. \A q \in Request : pc'[q] \in {"start", "access"} => ~job'[q].created /\ job'[q].status = 0
      BY <1>1 DEF Creation
<1>8. \A q \in Request : job'[q].status = RES_CREATED => job'[q].created
      BY <1>1 DEF Creation
<1>9. \A q \in Request : pc'[q] = "open" /\ job'[q].created => files'[FileOf(q)] = Absent
      BY <1>1, <1>5 DEF Creation
<1>10. \A q \in Request : Made(q)' => files'[FileOf(q)] # Absent
      BY <1>2, <1>3, <1>4 DEF Creation
<1>11. \A p, q \in Request : Made(p)' /\ Made(q)' /\ FileOf(p) = FileOf(q) => p = q
      BY <1>3, <1>4 DEF Creation
<1> HIDE DEF Made
<1> QED BY <1>3, <1>6, <1>7, <1>8, <1>9, <1>10, <1>11 DEF Creation

LEMMA NextCreation == Typing /\ Exclusive /\ Creation /\ [Next]_vars => Creation'
<1> SUFFICES ASSUME Typing, Exclusive, Creation, [Next]_vars PROVE Creation'
    OBVIOUS
<1>1. ASSUME UNCHANGED vars PROVE Creation'
      BY <1>1 DEF vars, Creation, Made, FileOf, IsGet
<1>2. ASSUME NEW r \in Request, ServerStep(r) \/ ClientStep(r) PROVE Creation'
  <2>1. /\ pc \in [Request -> GetPc \cup UploadPc] /\ job \in [Request -> Jobs]
        /\ job[r].created \in BOOLEAN
        /\ files \in [File -> {Absent} \cup Content]
        /\ FileOf(r) \in File
        BY InputFacts DEF Typing, TypeOK, GetPc, UploadPc, Jobs, Codes
  <2>2. /\ job[r].created => ~IsGet(r)
        /\ pc[r] \in {"start", "access"} => ~job[r].created /\ job[r].status = 0
        /\ job[r].status = RES_CREATED => job[r].created
        /\ pc[r] = "open" /\ job[r].created => files[FileOf(r)] = Absent
        BY DEF Creation
  <2>3. pc[r] \in IF IsGet(r) THEN GetPc ELSE UploadPc
        BY DEF Typing, Control
  <2> USE DEF Goto, Made
  <2>4. CASE /\ job'[r].created = job[r].created /\ job'[r].status = job[r].status
             /\ pc'[r] \notin {"start", "access", "open"}
             /\ pc'[r] \in {"first", "recv", "close"} => pc[r] \in {"first", "recv", "close"}
        BY <1>2, <2>2, <2>4, CreationMoves
  <2>5. CASE LockRead(r)
        BY <1>2, <2>1, <2>2, <2>5, CreationMoves DEF LockRead
  <2>6. CASE GetOpens(r) \/ GetReturns(r) \/ NothingToStore(r) \/ Log(r) \/ Unlock(r)
        BY <2>1, <2>4, <2>6 DEF GetOpens, GetReturns, NothingToStore, Log, Unlock
  <2>7. CASE BodyEnds(r) \/ BodyComplete(r)
        BY <2>1, <2>4, <2>7 DEF BodyEnds, BodyComplete, AfterEnd
  <2>8. CASE SendChunk(r)
    <3>1. job'[r].created = job[r].created /\ job'[r].status = job[r].status
          BY <2>1, <2>8 DEF SendChunk, Jobs
    <3> QED BY <2>1, <2>4, <2>8, <3>1 DEF SendChunk
  <2>9. CASE WriteFirst(r) \/ StoreChunk(r)
    <3>1. job'[r].created = job[r].created /\ job'[r].status = job[r].status
          BY <2>1, <2>9 DEF WriteFirst, StoreChunk, Write, Jobs
    <3> QED BY <2>1, <2>4, <2>9, <3>1 DEF WriteFirst, StoreChunk
  <2>10. CASE GetFails(r) \/ UploadFails(r)
    <3>1. /\ job'[r].created = job[r].created
          /\ job'[r].status \in {RES_FORBIDDEN, RES_NOT_FOUND, RES_INTERNAL_SE}
          /\ pc'[r] \in {"log", "unlock"}
          BY <2>1, <2>10 DEF GetFails, OpenFails, UploadFails, Respond, Jobs
    <3>2. job'[r].status # RES_CREATED
          BY <3>1 DEF RES_FORBIDDEN, RES_NOT_FOUND, RES_INTERNAL_SE, RES_CREATED
    <3> QED BY <1>2, <2>2, <3>1, <3>2, CreationMoves
  <2>11. CASE SendHeader(r)
    <3>1. /\ job'[r].created = job[r].created /\ job'[r].status = RES_OK /\ pc'[r] = "read"
          BY <2>1, <2>11 DEF SendHeader, Jobs
    <3>2. RES_OK # RES_CREATED
          BY DEF RES_OK, RES_CREATED
    <3> QED BY <1>2, <2>2, <3>1, <3>2, CreationMoves
  <2>12. CASE Spin(r)
        BY <1>1, <2>12 DEF Spin
  <2>13. CASE LockWrite(r)
    <3>1. /\ pc[r] = "start" /\ pc'[r] \in {"access", "open"}
          /\ job' = job
          BY <2>1, <2>13 DEF LockWrite
    <3> QED BY <1>2, <2>2, <3>1, CreationMoves
  <2>14. CASE Access(r)
    <3>1. /\ pc[r] = "access" /\ pc'[r] = "open" /\ files' = files
          /\ job'[r].created = (files[FileOf(r)] = Absent)
          /\ job'[r].status = job[r].status
          BY <2>1, <2>14 DEF Access, Missing, Jobs
    <3>2. ~IsGet(r)
          BY <2>3, <3>1 DEF GetPc
    <3>3. job'[r].status # RES_CREATED
          BY <2>2, <3>1 DEF RES_CREATED
    <3> QED BY <1>2, <2>2, <3>1, <3>2, <3>3, CreationMoves
  <2>15. CASE UploadOpens(r)
    <3>1. /\ pc[r] = "open" /\ pc'[r] = "first" /\ job' = job
          BY <2>1, <2>15 DEF UploadOpens
    <3>2. Typing'
          BY <1>2, NextTyping DEF Next
    <3>3. files'[FileOf(r)] # Absent
          BY <1>2, <3>1, <3>2, OthersStay DEF Typing, Control, FileOf
    <3>4. \/ ~job[r].created
          \/ files[FileOf(r)] = Absent
          BY <2>2, <3>1
    <3> QED BY <1>2, <2>2, <3>1, <3>3, <3>4, CreationMoves
  <2>16. CASE SendStored(r)
    <3>1. /\ job'[r].created = job[r].created
          /\ job'[r].status = IF job[r].created THEN RES_CREATED ELSE RES_OK
          /\ pc[r] = "close" /\ pc'[r] = "log"
          BY <2>1, <2>16 DEF SendStored, Respond, Jobs
    <3>2. RES_OK # RES_CREATED
          BY DEF RES_OK, RES_CREATED
    <3> QED BY <1>2, <2>2, <3>1, <3>2, CreationMoves
  <2> QED BY <1>2, <2>5, <2>6, <2>7, <2>8, <2>9, <2>10, <2>11, <2>12, <2>13, <2>14, <2>15,
             <2>16 DEF ServerStep, ClientStep
<1> QED BY <1>1, <1>2 DEF Next, Finished

LEMMA InitCreation == Init => Exclusive /\ Creation
BY DEF Init, Exclusive, Creation, Made, RES_CREATED, IsGet

\* Of the requests that find a path missing one is told that it created it.
THEOREM OneCreatorPerPath == Spec => []OneCreator
<1> DEFINE I == Typing /\ Exclusive /\ Creation
<1>1. Init => I
      BY InitTyping, InitCreation
<1>2. I /\ [Next]_vars => I'
      BY NextTyping, NextExclusive, NextCreation
<1>3. I => OneCreator
      BY DEF Creation, Made, OneCreator
<1> QED BY <1>1, <1>2, <1>3, PTL DEF Spec

-----------------------------------------------------------------------------
(* No torn upload.                                                         *)

\* r has opened its file and is not in the log yet.
Writing(r) ==
  /\ ~IsGet(r)
  /\ \/ pc[r] \in {"first", "recv", "close"}
     \/ pc[r] = "log" /\ IsStored(r)

\* What the file held when r opened it.
Base(r) == IF input[r].op = "PUT" THEN <<>> ELSE committed[FileOf(r)]

\* NoTornUpload in a form that speaks of one request at a time.
Whole ==
  /\ \A r \in Request : Writing(r) =>
       /\ Base(r) \in Content
       /\ files[FileOf(r)] = Base(r) \o Units(r, 0, job[r].stored)
  /\ \A f \in File :
       (\A r \in Request : Writing(r) => FileOf(r) # f) => files[f] = committed[f]

LEMMA WholeIsNotTorn ==
  ASSUME Typing, Exclusive, Whole PROVE NoTornUpload
<1> SUFFICES ASSUME NEW f \in File
             PROVE  \/ Uploading(f) = {} /\ files[f] = committed[f]
                    \/ \E r \in Uploading(f) :
                         /\ Uploading(f) = {r}
                         /\ files[f] = (IF input[r].op = "PUT" THEN <<>> ELSE committed[f])
                                         \o Units(r, 0, job[r].stored)
    BY DEF NoTornUpload
<1>1. \A r \in Request : r \in Uploading(f) <=> Writing(r) /\ FileOf(r) = f
      BY Zenon DEF Uploading, Writing
<1>2. Uploading(f) \subseteq Request
      BY DEF Uploading
<1>3. CASE Uploading(f) = {}
      BY <1>1, <1>3 DEF Whole
<1>4. CASE Uploading(f) # {}
  <2>1. PICK r \in Request : r \in Uploading(f)
        BY <1>2, <1>4
  <2>2. \A q \in Uploading(f) : q = r
        BY <1>1, <1>2, <2>1, Alone DEF Writing
  <2>3. Uploading(f) = {r}
        BY <2>1, <2>2
  <2>4. files[f] = (IF input[r].op = "PUT" THEN <<>> ELSE committed[f])
                     \o Units(r, 0, job[r].stored)
        BY <1>1, <2>1 DEF Whole, Base
  <2> QED BY <2>1, <2>3, <2>4
<1> QED BY <1>3, <1>4

\* A step that neither stores nor logs an upload.
LEMMA WholeStays ==
  ASSUME Typing, Whole, NEW r \in Request, ServerStep(r) \/ ClientStep(r),
         UNCHANGED <<files, committed>>,
         Writing(r)' <=> Writing(r),
         job'[r].stored = job[r].stored
  PROVE  Whole'
<1>1. /\ input' = input
      /\ \A q \in Request : q # r => pc'[q] = pc[q] /\ job'[q] = job[q]
      BY OthersStay
<1>2. \A q \in Request : FileOf(q)' = FileOf(q) /\ Base(q)' = Base(q)
      BY <1>1 DEF FileOf, Base
<1>3. \A q \in Request : q # r => (Writing(q)' <=> Writing(q))
      BY <1>1 DEF Writing, IsGet, IsStored
<1>4. \A q \in Request : job'[q].stored = job[q].stored
      BY <1>1
<1>5. ASSUME NEW q \in Request, Writing(q)'
      PROVE  Base(q)' \in Content /\ files'[FileOf(q)'] = Base(q)' \o Units(q, 0, job'[q].stored)
      BY <1>2, <1>3, <1>4, <1>5 DEF Whole
<1>6. \A f \in File :
        (\A q \in Request : Writing(q)' => FileOf(q)' # f) => files'[f] = committed'[f]
      BY <1>2, <1>3 DEF Whole
<1> QED BY <1>5, <1>6 DEF Whole

\* A write() adds a piece to what is stored.
LEMMA WholeGrows ==
  ASSUME Typing, Exclusive, Whole, NEW r \in Request, ServerStep(r) \/ ClientStep(r),
         NEW n \in Nat, Write(r, n), ~IsGet(r), pc[r] \in {"first", "recv"},
         pc'[r] = "recv", UNCHANGED committed
  PROVE  Whole'
<1>1. /\ input' = input
      /\ \A q \in Request : q # r => pc'[q] = pc[q] /\ job'[q] = job[q]
      BY OthersStay
<1>2. \A q \in Request : FileOf(q)' = FileOf(q) /\ Base(q)' = Base(q) /\ IsGet(q)' = IsGet(q)
      BY <1>1 DEF FileOf, Base, IsGet
<1>3. \A q \in Request : q # r => ~Writing(q) /\ ~Writing(q)'
      BY <1>1, Alone DEF Writing, IsGet, IsStored
<1>4. Writing(r) /\ Writing(r)'
  <2>1. ~IsGet(r)'
        BY <1>2
  <2>2. Writing(r)
        BY DEF Writing
  <2>3. Writing(r)'
        BY <2>1 DEF Writing
  <2> QED BY <2>2, <2>3
<1> DEFINE f == FileOf(r)
           k == job[r].stored
           old == Units(r, 0, k)
           new == Units(r, k, n)
<1>5. /\ f \in File /\ files \in [File -> {Absent} \cup Content]
      /\ job \in [Request -> Jobs] /\ k \in Nat
      /\ input[r].op \in {"PUT", "APPEND"}
      BY InputFacts DEF Typing, TypeOK, Jobs, Codes, IsGet
<1>6. Base(r) \in Content /\ files[f] = Base(r) \o old
      BY <1>4 DEF Whole
<1>7. /\ old \in Content /\ Len(old) = k
      /\ new \in Content
      BY <1>5, UnitsType, 0 \in Nat
<1>8. files[f] \in Content
      BY <1>6, <1>7, ConcatProperties DEF Content
<1>9. Offset(r) = Len(files[f])
  <2>1. CASE input[r].op = "PUT"
    <3>1. files[f] = old
          BY <1>6, <1>7, <2>1, ConcatEmptySeq DEF Base, Content
    <3> QED BY <1>7, <2>1, <3>1 DEF Offset
  <2>2. CASE input[r].op # "PUT"
        BY <2>2 DEF Offset
  <2> QED BY <2>1, <2>2
<1>10. files' = [files EXCEPT ![f] = Overwrite(files[f], Offset(r), new)]
       BY <1>5 DEF Write
<1>11. job'[r].stored = k + n
       BY <1>5 DEF Write, Jobs
<1> HIDE DEF f, k, old, new
<1>12. files'[f] = (Base(r) \o old) \o new
       BY <1>5, <1>6, <1>7, <1>8, <1>9, <1>10, OverwriteEnd
<1>13. (Base(r) \o old) \o new = Base(r) \o (old \o new)
  <2> DEFINE U == (Request \cup {Disk}) \X Nat
  <2>1. Base(r) \in Seq(U) /\ old \in Seq(U) /\ new \in Seq(U)
        BY <1>6, <1>7 DEF Content
  <2> HIDE DEF U
  <2> QED BY <2>1, ConcatAssociative
<1>14. old \o new = Units(r, 0, k + n)
       BY <1>5, UnitsConcat DEF old, new
<1>15. files'[f] = Base(r) \o Units(r, 0, job'[r].stored)
       BY <1>11, <1>12, <1>13, <1>14
<1>16. ASSUME NEW q \in Request, Writing(q)'
       PROVE  Base(q)' \in Content /\ files'[FileOf(q)'] = Base(q)' \o Units(q, 0, job'[q].stored)
       <2>1. q = r
             BY <1>3, <1>16
       <2> QED BY <1>2, <1>6, <1>15, <2>1 DEF f
<1>17. ASSUME NEW g \in File, \A q \in Request : Writing(q)' => FileOf(q)' # g
       PROVE  files'[g] = committed'[g]
       <2>1. g # f
             BY <1>2, <1>4, <1>17 DEF f
       <2>2. \A q \in Request : Writing(q) => FileOf(q) # g
             BY <1>3, <2>1 DEF f
       <2>3. files[g] = committed[g]
             BY <2>2 DEF Whole
       <2> QED BY <1>5, <1>10, <2>1, <2>3
<1> QED BY <1>16, <1>17 DEF Whole

LEMMA NextWhole == Typing /\ Exclusive /\ Whole /\ [Next]_vars => Whole'
<1> SUFFICES ASSUME Typing, Exclusive, Whole, [Next]_vars PROVE Whole'
    OBVIOUS
<1>1. ASSUME UNCHANGED vars PROVE Whole'
      BY <1>1 DEF vars, Whole, Writing, Base, IsStored, FileOf, IsGet
<1>2. ASSUME NEW r \in Request, ServerStep(r) \/ ClientStep(r) PROVE Whole'
  <2>1. /\ pc \in [Request -> GetPc \cup UploadPc] /\ job \in [Request -> Jobs]
        /\ pc[r] \in IF IsGet(r) THEN GetPc ELSE UploadPc
        /\ files \in [File -> {Absent} \cup Content]
        /\ FileOf(r) \in File
        BY InputFacts DEF Typing, TypeOK, Control, GetPc, UploadPc, Jobs, Codes
  <2>2. IsGet(r)' = IsGet(r) /\ FileOf(r)' = FileOf(r)
        BY <1>2, OthersStay DEF IsGet, FileOf
  <2> USE DEF Goto, Writing, IsStored
  <2>3. CASE IsGet(r)
    <3>1. ~Writing(r) /\ ~Writing(r)'
          BY <2>2, <2>3
    <3>2. UNCHANGED files
          BY <1>2, <2>3, FilesStay
    <3>3. UNCHANGED committed
          BY <1>2, <2>1, <2>3 DEF ServerStep, ClientStep, LockRead, GetFails, OpenFails, GetOpens,
             SendHeader, SendChunk, Spin, vars, GetReturns, NothingToStore, LockWrite, Access,
             UploadFails, UploadOpens, WriteFirst, StoreChunk, BodyEnds, BodyComplete,
             SendStored, Log, Unlock
    <3>4. job'[r].stored = job[r].stored
          <4>1. pc[r] \in GetPc
                BY <2>1, <2>3
          <4>2. ~(WriteFirst(r) \/ StoreChunk(r))
                BY <4>1 DEF WriteFirst, StoreChunk, GetPc
          <4> QED BY <1>2, <2>1, <4>2 DEF ServerStep, ClientStep, LockRead, GetFails, OpenFails, GetOpens,
                SendHeader, SendChunk, Spin, vars, GetReturns, NothingToStore, LockWrite, Access,
                UploadFails, UploadOpens, BodyEnds, BodyComplete, SendStored, Log, Unlock,
                Respond, Jobs
    <3> HIDE DEF Writing
    <3> QED BY <1>2, <3>1, <3>2, <3>3, <3>4, WholeStays
  <2>4. CASE ~IsGet(r) /\ (NothingToStore(r) \/ LockWrite(r) \/ Access(r) \/ UploadFails(r))
    <3>1. /\ UNCHANGED <<files, committed>>
          /\ job'[r].stored = job[r].stored
          BY <2>1, <2>4 DEF NothingToStore, LockWrite, Access, UploadFails, OpenFails, Respond, Jobs
    <3>2. ~Writing(r)
          BY <2>4 DEF NothingToStore, LockWrite, Access, UploadFails, OpenFails
    <3>3. ~Writing(r)'
      <4>1. CASE NothingToStore(r) \/ LockWrite(r) \/ Access(r)
            BY <2>1, <4>1 DEF NothingToStore, LockWrite, Access
      <4>2. CASE UploadFails(r)
        <5>1. /\ job'[r].status \in {RES_FORBIDDEN, RES_NOT_FOUND, RES_INTERNAL_SE}
              /\ pc'[r] \in {"log", "unlock"}
              BY <2>1, <4>2 DEF UploadFails, OpenFails, Respond, Jobs
        <5> QED BY <5>1 DEF RES_FORBIDDEN, RES_NOT_FOUND, RES_INTERNAL_SE, RES_OK, RES_CREATED
      <4> QED BY <2>4, <4>1, <4>2
    <3> HIDE DEF Writing
    <3> QED BY <1>2, <3>1, <3>2, <3>3, WholeStays
  <2>5. CASE ~IsGet(r) /\ UploadOpens(r)
    <3>1. /\ pc[r] = "open" /\ pc'[r] = "first"
          /\ UNCHANGED <<input, job, committed>>
          BY <2>1, <2>5 DEF UploadOpens
    <3>2. /\ \A q \in Request : q # r => pc'[q] = pc[q]
          /\ \A q \in Request : FileOf(q)' = FileOf(q) /\ Base(q)' = Base(q) /\ IsGet(q)' = IsGet(q)
          BY <1>2, <3>1, OthersStay DEF FileOf, Base, IsGet
    <3>3. \A q \in Request : ~Writing(q)
          BY <2>5, <3>1, Alone
    <3>4. \A q \in Request : Writing(q)' => q = r
          BY <3>1, <3>2, <3>3
    <3>5. files[FileOf(r)] = committed[FileOf(r)]
          BY <2>1, <3>3 DEF Whole
    <3>6. job[r].stored = 0 /\ Units(r, 0, 0) = <<>>
          BY <3>1 DEF Typing, Control, Units
    <3>7. <<>> \in Content
          BY DEF Content
    <3>8. Base(r) \in Content /\ files'[FileOf(r)] = Base(r)
      <4>1. CASE input[r].op = "PUT"
            BY <2>1, <2>5, <3>7, <4>1 DEF UploadOpens, Truncated, Base
      <4>2. CASE input[r].op # "PUT"
            BY <2>1, <2>5, <3>5, <4>2 DEF UploadOpens, Base
      <4> QED BY <4>1, <4>2
    <3>9. Base(r) \o <<>> = Base(r)
          BY <3>8, ConcatEmptySeq DEF Content
    <3>10. Writing(r)'
          BY <2>2, <2>5, <3>1
    <3> HIDE DEF Writing
    <3>11. ASSUME NEW q \in Request, Writing(q)'
           PROVE  Base(q)' \in Content
                  /\ files'[FileOf(q)'] = Base(q)' \o Units(q, 0, job'[q].stored)
           <4>1. q = r
                 BY <3>4, <3>11
           <4> QED BY <3>1, <3>2, <3>6, <3>8, <3>9, <4>1
    <3>12. ASSUME NEW g \in File, \A q \in Request : Writing(q)' => FileOf(q)' # g
           PROVE  files'[g] = committed'[g]
           <4>1. g # FileOf(r)
                 BY <3>2, <3>10, <3>12
           <4>2. files'[g] = files[g]
                 BY <1>2, <4>1, FilesStay
           <4> QED BY <3>1, <3>3, <4>2 DEF Whole
    <3> QED BY <3>11, <3>12 DEF Whole
  <2>6. CASE ~IsGet(r) /\ WriteFirst(r)
    <3>1. input[r].bodyVal \in Nat /\ Write(r, input[r].bodyVal)
          BY <2>6, InputFacts DEF WriteFirst, FirstChunk, Typing
    <3>2. pc[r] = "first" /\ pc'[r] = "recv" /\ UNCHANGED committed
          BY <2>1, <2>6 DEF WriteFirst
    <3> QED BY <1>2, <2>6, <3>1, <3>2, WholeGrows
  <2>7. CASE ~IsGet(r) /\ StoreChunk(r)
    <3>1. PICK n \in 1..BUF_SIZE : Write(r, n)
          BY <2>7 DEF StoreChunk
    <3>2. pc[r] = "recv" /\ pc'[r] = "recv" /\ UNCHANGED committed
          BY <2>7 DEF StoreChunk
    <3>3. n \in Nat
          BY FilesAssumption
    <3> QED BY <1>2, <2>7, <3>1, <3>2, <3>3, WholeGrows
  <2>8. CASE ~IsGet(r) /\ (BodyEnds(r) \/ BodyComplete(r))
    <3>1. /\ UNCHANGED <<files, committed, job>>
          /\ pc[r] = "recv" /\ pc'[r] = "close"
          BY <2>1, <2>8 DEF BodyEnds, BodyComplete, AfterEnd
    <3>2. Writing(r) /\ Writing(r)'
          BY <2>2, <2>8, <3>1
    <3> HIDE DEF Writing
    <3> QED BY <1>2, <3>1, <3>2, WholeStays
  <2>9. CASE ~IsGet(r) /\ SendStored(r)
    <3>1. /\ UNCHANGED <<files, committed>>
          /\ job'[r].stored = job[r].stored
          /\ job'[r].status \in {RES_OK, RES_CREATED}
          /\ pc[r] = "close" /\ pc'[r] = "log"
          BY <2>1, <2>9 DEF SendStored, Respond, Jobs
    <3>2. Writing(r) /\ Writing(r)'
          BY <2>2, <2>9, <3>1
    <3> HIDE DEF Writing
    <3> QED BY <1>2, <3>1, <3>2, WholeStays
  <2>10. CASE ~IsGet(r) /\ Unlock(r)
    <3>1. /\ UNCHANGED <<files, committed, job>>
          /\ pc[r] = "unlock" /\ pc'[r] = "done"
          BY <2>1, <2>10 DEF Unlock
    <3>2. ~Writing(r) /\ ~Writing(r)'
          BY <3>1
    <3> HIDE DEF Writing
    <3> QED BY <1>2, <3>1, <3>2, WholeStays
  <2>11. CASE ~IsGet(r) /\ Log(r)
    <3>1. /\ UNCHANGED <<input, files, job>>
          /\ pc[r] = "log" /\ pc'[r] = "unlock"
          BY <2>1, <2>11 DEF Log
    <3>2. ~Writing(r)'
          BY <3>1
    <3>3. CASE ~IsStored(r)
      <4>1. UNCHANGED committed
            BY <2>11, <3>3 DEF Log
      <4>2. ~Writing(r)
            BY <3>1, <3>3
      <4> HIDE DEF Writing
      <4> QED BY <1>2, <3>1, <3>2, <4>1, <4>2, WholeStays
    <3>4. CASE IsStored(r)
      <4>1. committed' = [committed EXCEPT ![FileOf(r)] = files[FileOf(r)]]
            BY <2>11, <3>4 DEF Log
      <4>2. committed \in [File -> {Absent} \cup Content]
            BY DEF Typing, TypeOK
      <4>3. \A q \in Request : q # r => ~Writing(q)
            BY <2>11, <3>1, Alone
      <4>4. \A q \in Request : ~Writing(q)'
        <5>1. \A q \in Request : q # r => pc'[q] = pc[q] /\ job'[q] = job[q]
              BY <1>2, OthersStay
        <5> QED BY <3>1, <3>2, <4>3, <5>1 DEF IsGet
      <4> HIDE DEF Writing
      <4>5. ASSUME NEW g \in File PROVE files'[g] = committed'[g]
            <5>1. CASE g = FileOf(r)
                  BY <3>1, <4>1, <4>2, <5>1
            <5>2. CASE g # FileOf(r)
                  BY <3>1, <4>1, <4>2, <4>3, <5>2 DEF Whole
            <5> QED BY <5>1, <5>2
      <4> QED BY <4>4, <4>5 DEF Whole
    <3> QED BY <3>3, <3>4
  <2>12. ~IsGet(r) => ~(\/ LockRead(r) \/ GetFails(r) \/ GetOpens(r) \/ SendHeader(r)
                        \/ SendChunk(r) \/ Spin(r) \/ GetReturns(r))
         BY <2>1 DEF LockRead, GetFails, OpenFails, GetOpens, SendHeader, SendChunk, Spin, GetReturns,
                     UploadPc
  <2> HIDE DEF Writing, IsStored
  <2> QED BY <1>2, <2>3, <2>4, <2>5, <2>6, <2>7, <2>8, <2>9, <2>10, <2>11, <2>12
          DEF ServerStep, ClientStep
<1> QED BY <1>1, <1>2 DEF Next, Finished

LEMMA InitWhole == Init => Whole
BY DEF Init, Whole, Writing

\* No upload is torn or mixed with another, however many there are.
THEOREM UploadsAreNotTorn == Spec => []NoTornUpload
<1> DEFINE I == Typing /\ Exclusive /\ Whole
<1>1. Init => I
      BY InitTyping, InitCreation, InitWhole
<1>2. I /\ [Next]_vars => I'
      BY NextTyping, NextExclusive, NextWhole
<1>3. I => NoTornUpload
      BY WholeIsNotTorn
<1> QED BY <1>1, <1>2, <1>3, PTL DEF Spec
=============================================================================
