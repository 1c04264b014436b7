----------------------- MODULE UnlockedHandlers_proofs -----------------------
(***************************************************************************)
(* Proofs about UnlockedHandlers: what GETs send and what uploads leave in  *)
(* a file in asgn3 and in asgn4, for every set of requests, files and       *)
(* bodies.                                                                  *)
(***************************************************************************)
EXTENDS UnlockedHandlers, FileHandlers_proofs

-----------------------------------------------------------------------------
(* The steps of the two servers together.                                  *)

\* A step of one request, in either server.
Moves(r) == ServerStep(r) \/ ClientStep(r) \/ CallProcess(r) \/ Return(r)

LEMMA StepsMove ==
  ASSUME [Steps]_allVars
  PROVE  /\ UNCHANGED vars \/ \E r \in Request : Moves(r)
         /\ locked' = locked
         /\ locked => [Next]_vars
<1> USE DEF Moves
<1>1. CASE UNCHANGED allVars
      BY <1>1 DEF allVars
<1>2. CASE AllDone
      BY <1>2 DEF AllDone, Finished, Next
<1>3. ASSUME NEW r \in Request, Step(r)
      PROVE  Moves(r) /\ locked' = locked /\ (locked => ServerStep(r))
      BY <1>3 DEF Step, UnlockedStep, processGet, processPutFile, processAppendFile, OpenUpload,
         StoreBody, Conclude, ServerStep
<1>4. ASSUME NEW r \in Request, WithClient(r)
      PROVE  ClientStep(r) /\ locked' = locked
      BY <1>4 DEF WithClient
<1> QED BY <1>1, <1>2, <1>3, <1>4 DEF Steps, Next

\* The two steps that asgn3 has in place of the locking only move the worker.
LEMMA OnlyMoves ==
  ASSUME Typing, NEW r \in Request, CallProcess(r) \/ Return(r)
  PROVE  /\ UNCHANGED <<input, readLock, writeLock, files, job, log, committed>>
         /\ \/ pc[r] = "start" /\ pc'[r] \in {"access", "open"}
            \/ pc[r] = "unlock" /\ pc'[r] = "done"
         /\ pc' = [pc EXCEPT ![r] = pc'[r]]
         /\ pc'[r] = "access" => ~IsGet(r)
<1>1. pc \in [Request -> GetPc \cup UploadPc]
      BY DEF Typing, TypeOK, GetPc, UploadPc
<1>2. CASE CallProcess(r)
  <2> DEFINE to == IF input[r].op = "PUT" THEN "access" ELSE "open"
  <2>1. pc[r] = "start" /\ pc' = [pc EXCEPT ![r] = to]
        BY <1>2 DEF CallProcess, Goto
  <2>2. to \in {"access", "open"} /\ (to = "access" => ~IsGet(r))
        BY DEF IsGet
  <2>3. pc'[r] = to
        BY <1>1, <2>1
  <2> HIDE DEF to
  <2> QED BY <1>2, <2>1, <2>2, <2>3 DEF CallProcess
<1>3. CASE Return(r)
      BY <1>1, <1>3 DEF Return, Goto
<1> QED BY <1>2, <1>3

\* The types and the control are those of FileHandlers, with and without locks.
LEMMA StepsTyping == Typing /\ [Steps]_allVars => Typing'
<1> SUFFICES ASSUME Typing, [Steps]_allVars PROVE Typing'
    OBVIOUS
<1>1. CASE [Next]_vars
      BY <1>1, NextTyping
<1>2. ASSUME NEW r \in Request, CallProcess(r) \/ Return(r) PROVE Typing'
  <2>0. PICK to : to = pc'[r]
        OBVIOUS
  <2>1. /\ job \in [Request -> Jobs] /\ job[r] \in Jobs
        /\ readLock \subseteq Request /\ writeLock \in Request \cup {Nobody}
        /\ log \in Seq(Request)
        /\ committed \in [File -> {Absent} \cup Content]
        BY DEF Typing, TypeOK, Jobs, Codes
  <2>2. job' = [job EXCEPT ![r] = job[r]]
        BY <1>2, <2>1, OnlyMoves
  <2>3. /\ UNCHANGED <<input, readLock, writeLock, files, job, log, committed>>
        /\ \/ pc[r] = "start" /\ to \in {"access", "open"}
           \/ pc[r] = "unlock" /\ to = "done"
        /\ pc' = [pc EXCEPT ![r] = to]
        /\ to \in IF IsGet(r) THEN GetPc ELSE UploadPc
        BY <1>2, <2>0, OnlyMoves DEF GetPc, UploadPc
  <2> QED BY <2>1, <2>2, <2>3, TypingMoves
<1> QED BY <1>1, <1>2, StepsMove DEF Moves, Next

\* What a step may do to the files and to the locals of the worker that takes it: nothing,
\* send a chunk, truncate the file of a PUT, or write a piece of the body.
LEMMA Effects ==
  ASSUME Typing, NEW r \in Request, Moves(r)
  PROVE  /\ input' = input
         /\ \A q \in Request : q # r => pc'[q] = pc[q] /\ job'[q] = job[q]
         /\ \A f \in File : f # FileOf(r) => files'[f] = files[f]
         /\ \/ /\ files' = files /\ job'[r].stored = job[r].stored
               /\ job'[r].sent = job[r].sent \/ SendChunk(r)
               /\ pc'[r] = "recv" => pc[r] = "recv"
            \/ /\ input[r].op = "PUT" /\ files'[FileOf(r)] = <<>>
               /\ job' = job /\ pc'[r] = "first"
            \/ \E n \in Nat : /\ ~IsGet(r) /\ pc[r] \in {"first", "recv"} /\ Write(r, n)
                              /\ job'[r].stored = job[r].stored + n
                              /\ job'[r].sent = job[r].sent
<1>1. /\ pc \in [Request -> GetPc \cup UploadPc] /\ job \in [Request -> Jobs]
      /\ files \in [File -> {Absent} \cup Content] /\ FileOf(r) \in File
      BY InputFacts DEF Typing, TypeOK, GetPc, UploadPc, Jobs, Codes
<1>2. CASE CallProcess(r) \/ Return(r)
  <2>1. /\ UNCHANGED <<input, files, job>> /\ pc'[r] # "recv"
        /\ \A q \in Request : q # r => pc'[q] = pc[q]
        BY <1>1, <1>2, OnlyMoves
  <2> QED BY <2>1
<1>3. CASE ServerStep(r) \/ ClientStep(r)
  <2>1. /\ input' = input
        /\ \A q \in Request : q # r => pc'[q] = pc[q] /\ job'[q] = job[q]
        /\ \A f \in File : f # FileOf(r) => files'[f] = files[f]
        BY <1>3, OthersStay, FilesStay
  <2>2. CASE LockRead(r) \/ GetOpens(r) \/ GetReturns(r) \/ NothingToStore(r) \/ LockWrite(r)
        BY <1>1, <2>1, <2>2 DEF LockRead, GetOpens, GetReturns, NothingToStore, LockWrite, Goto
  <2>3. CASE GetFails(r) \/ UploadFails(r) \/ SendStored(r)
    <3>1. /\ files' = files /\ pc'[r] # "recv"
          /\ \E code \in Codes : job' = [job EXCEPT ![r].status = code]
          BY <1>1, <2>3 DEF GetFails, OpenFails, UploadFails, SendStored, Goto, Respond, Codes
    <3> QED BY <1>1, <2>1, <3>1 DEF Jobs
  <2>4. CASE SendHeader(r)
        BY <1>1, <2>1, <2>4 DEF SendHeader, Goto, Jobs
  <2>5. CASE SendChunk(r)
        BY <1>1, <2>1, <2>5 DEF SendChunk, Jobs
  <2>6. CASE Spin(r)
        BY <2>1, <2>6 DEF Spin, vars
  <2>7. CASE Access(r)
        BY <1>1, <2>1, <2>7 DEF Access, Goto, Jobs
  <2>8. CASE BodyEnds(r) \/ BodyComplete(r) \/ Log(r) \/ Unlock(r)
        BY <1>1, <2>1, <2>8 DEF BodyEnds, BodyComplete, Log, Unlock, AfterEnd, Goto
  <2>9. CASE UploadOpens(r)
        BY <1>1, <2>1, <2>9 DEF UploadOpens, Truncated, Goto
  <2>10. CASE WriteFirst(r) \/ StoreChunk(r)
    <3>1. pc[r] \in {"first", "recv"}
          BY <2>10 DEF WriteFirst, StoreChunk, Goto
    <3>2. PICK n \in Nat : Write(r, n)
      <4>1. input[r].bodyVal \in Nat
            BY InputFacts DEF Typing
      <4>2. 1..BUF_SIZE \subseteq Nat
            BY FilesAssumption
      <4> QED BY <2>10, <4>1, <4>2 DEF WriteFirst, StoreChunk, FirstChunk
    <3>3. ~IsGet(r)
          BY <3>1 DEF Typing, Control, GetPc
    <3>4. job'[r].stored = job[r].stored + n /\ job'[r].sent = job[r].sent
          BY <1>1, <3>2 DEF Write, Jobs
    <3> QED BY <2>1, <3>1, <3>2, <3>3, <3>4
  <2> QED BY <1>3, <2>2, <2>3, <2>4, <2>5, <2>6, <2>7, <2>8, <2>9, <2>10
          DEF ServerStep, ClientStep
<1> QED BY <1>2, <1>3 DEF Moves

\* A step on a file that only uploads of one kind use is by an upload of that kind.
LEMMA OnlyStays ==
  ASSUME input' = input, NEW op, NEW f
  PROVE  Only(op, f)' <=> Only(op, f)
BY DEF Only, FileOf, IsGet

\* What a write() leaves, unit by unit.
LEMMA WriteEffects ==
  ASSUME Typing, NEW r \in Request, NEW n \in Nat, files[FileOf(r)] # Absent, Write(r, n)
  PROVE  /\ files'[FileOf(r)] \in Content
         /\ LET c == files[FileOf(r)]
                o == Offset(r)
                top == IF o + n > Len(c) THEN o + n ELSE Len(c)
            IN /\ o \in Nat /\ Len(c) \in Nat
               /\ Len(files'[FileOf(r)]) = top
               /\ \A i \in 1..top :
                    files'[FileOf(r)][i] =
                      IF i > o /\ i <= o + n THEN Unit(r, job[r].stored + (i - o))
                      ELSE IF i <= Len(c) THEN c[i] ELSE Hole
<1> DEFINE f == FileOf(r)
           c == files[f]
           o == Offset(r)
           k == job[r].stored
           s == Units(r, k, n)
           w == Overwrite(c, o, s)
           top == IF o + n > Len(c) THEN o + n ELSE Len(c)
<1>1. f \in File /\ files \in [File -> {Absent} \cup Content] /\ c \in Content /\ k \in Nat
      BY InputFacts DEF Typing, TypeOK
<1>2. Len(c) \in Nat
      BY <1>1, LenProperties DEF Content
<1>3. o \in Nat
      BY <1>1, <1>2 DEF Offset
<1>4. s \in Content /\ Len(s) = n /\ \A i \in 1..n : s[i] = <<r, k + i>>
      BY <1>1, UnitsType
<1>5. w \in Content
      BY <1>1, <1>3, <1>4, OverwriteType
<1>6. files'[f] = w
      BY <1>1 DEF Write
<1> HIDE DEF f, c, k, s
<1>7. /\ Len(w) = top
      /\ \A i \in 1..top : w[i] = IF i > o /\ i <= o + n THEN s[i - o]
                                 ELSE IF i <= Len(c) THEN c[i] ELSE Hole
      BY <1>2, <1>3, <1>4 DEF Overwrite, Hole
<1>8. ASSUME NEW i \in 1..top
      PROVE w[i] = IF i > o /\ i <= o + n THEN Unit(r, k + (i - o))
                   ELSE IF i <= Len(c) THEN c[i] ELSE Hole
  <2>1. CASE i > o /\ i <= o + n
    <3>1. i - o \in 1..n
          BY <1>2, <1>3, <2>1
    <3>2. s[i - o] = Unit(r, k + (i - o))
          BY <1>4, <3>1 DEF Unit
    <3> QED BY <1>7, <2>1, <3>2
  <2>2. CASE ~(i > o /\ i <= o + n)
        BY <1>7, <2>2
  <2> QED BY <2>1, <2>2
<1> QED BY <1>2, <1>3, <1>5, <1>6, <1>7, <1>8 DEF f, c, k

-----------------------------------------------------------------------------
(* Units in place.                                                         *)

\* With the locks an upload writes behind what it has stored, for nobody truncates its
\* file meanwhile.
Reached ==
  locked =>
    /\ Exclusive
    /\ \A r \in Request :
         input[r].op = "PUT" /\ pc[r] = "recv" => job[r].stored <= Len(files[FileOf(r)])

\* A worker that writes finds an open file there.
LEMMA OpenFile ==
  ASSUME Typing, NEW r \in Request, ~IsGet(r), pc[r] \in {"first", "recv"}
  PROVE  /\ files[FileOf(r)] # Absent /\ files[FileOf(r)] \in Content
         /\ pc[r] = "first" => job[r].stored = 0
<1>1. FileOf(r) \in File
      BY InputFacts DEF Typing
<1> QED BY <1>1 DEF Typing, TypeOK, Control

LEMMA NextReached == Typing /\ Reached /\ [Steps]_allVars => Reached'
<1> SUFFICES ASSUME Typing, Reached, [Steps]_allVars, locked PROVE Reached'
    BY StepsMove DEF Reached
<1>1. Exclusive /\ [Next]_vars /\ Exclusive'
      BY StepsMove, NextExclusive DEF Reached
<1>2. ASSUME UNCHANGED vars
      PROVE \A q \in Request :
              input'[q].op = "PUT" /\ pc'[q] = "recv" => job'[q].stored <= Len(files'[FileOf(q)'])
      BY <1>2 DEF Reached, vars, FileOf
<1>3. ASSUME NEW r \in Request, ServerStep(r) \/ ClientStep(r), NEW q \in Request,
             input'[q].op = "PUT", pc'[q] = "recv"
      PROVE  job'[q].stored <= Len(files'[FileOf(q)'])
  <2>1. Moves(r)
        BY <1>3 DEF Moves
  <2>2. input' = input /\ FileOf(q)' = FileOf(q) /\ input[q].op = "PUT" /\ ~IsGet(q)
        BY <1>3, <2>1, Effects DEF FileOf, IsGet
  <2>3. CASE q # r
    <3>1. pc[q] = "recv" /\ job'[q] = job[q]
          BY <1>3, <2>1, <2>3, Effects
    <3>2. ~(~IsGet(r) /\ pc[r] \in {"open", "first", "recv"})
          BY <1>1, <2>2, <2>3, <3>1, Alone
    <3>3. files' = files
          BY <1>3, <3>2, FilesStay
    <3> QED BY <2>2, <3>1, <3>3 DEF Reached
  <2>4. CASE q = r
    <3>1. CASE files' = files /\ job'[r].stored = job[r].stored /\ pc[r] = "recv"
          BY <2>2, <2>4, <3>1 DEF Reached
    <3>2. ASSUME NEW n \in Nat, pc[r] \in {"first", "recv"}, Write(r, n),
                 job'[r].stored = job[r].stored + n
          PROVE  job'[r].stored <= Len(files'[FileOf(r)])
      <4>1. files[FileOf(r)] # Absent
            BY <2>2, <2>4, <3>2, OpenFile
      <4>2. Offset(r) = job[r].stored
            BY <2>2, <2>4 DEF Offset
      <4>3. job[r].stored \in Nat
            BY DEF Typing, TypeOK
      <4> QED BY <3>2, <4>1, <4>2, <4>3, WriteEffects
    <3> QED BY <1>3, <2>1, <2>2, <2>4, <3>1, <3>2, Effects
  <2> QED BY <2>3, <2>4
<1> QED BY <1>1, <1>2, <1>3, StepsMove DEF Reached, Next, Finished

\* Every unit of s is at its own place, or is a hole where there may be holes.
At(s, holes) == \A i \in 1..Len(s) : s[i][2] = i \/ (holes /\ s[i] = Hole)

Placed ==
  \A f \in File : Only("PUT", f) =>
    /\ files[f] # Absent => At(files[f], ~locked)
    /\ \A r \in Request : FileOf(r) = f => At(job[r].sent, ~locked)

\* What a GET sends after s is what follows s in the file.
LEMMA PlacedChunk ==
  ASSUME Typing, NEW r \in Request, NEW holes \in BOOLEAN, SendChunk(r),
         files[FileOf(r)] \in Content,
         At(files[FileOf(r)], holes), At(job[r].sent, holes)
  PROVE  At(job'[r].sent, holes)
<1> DEFINE c == files[FileOf(r)]
           s == job[r].sent
           k == totalGotten(r)
           top == IF k + BUF_SIZE < Len(c) THEN k + BUF_SIZE ELSE Len(c)
           U == (Request \cup {Disk}) \X Nat
<1>1. c \in Seq(U) /\ s \in Seq(U)
      BY DEF Typing, TypeOK, Content
<1>2. Len(s) = k /\ k \in Nat /\ Len(c) \in Nat /\ BUF_SIZE \in Nat
      BY <1>1, LenProperties, FilesAssumption DEF totalGotten
<1>3. Chunk(r) = SubSeq(c, k + 1, top)
      BY DEF Chunk
<1>4. job'[r].sent = s \o SubSeq(c, k + 1, top)
  <2>1. job \in [Request -> Jobs]
        BY DEF Typing, TypeOK, Jobs, Codes
  <2> QED BY <1>3, <2>1 DEF SendChunk, Jobs
<1>5. At(c, holes) /\ At(s, holes)
      OBVIOUS
<1> HIDE DEF c, s, k, U
<1>6. top \in Int /\ top <= Len(c) /\ \A i \in (k + 1)..top : c[i] \in U
      BY <1>1, <1>2, ElementOfSeq
<1> DEFINE t == SubSeq(c, k + 1, top)
<1>7. /\ t \in Seq(U)
      /\ Len(t) = IF k + 1 <= top THEN top - k ELSE 0
      /\ \A i \in 1..Len(t) : t[i] = c[k + i]
  <2>1. k + 1 \in Int
        BY <1>2
  <2>2. /\ t \in Seq(U)
        /\ Len(t) = IF k + 1 <= top THEN top - (k + 1) + 1 ELSE 0
        /\ \A i \in 1..(top - (k + 1) + 1) : t[i] = c[(k + 1) + i - 1]
        BY <1>6, <2>1, SubSeqProperties
  <2> HIDE DEF t, top
  <2>3. ASSUME NEW i \in 1..Len(t) PROVE t[i] = c[k + i]
    <3>1. i \in 1..(top - (k + 1) + 1)
          BY <1>2, <1>6, <2>2, <2>3
    <3>2. (k + 1) + i - 1 = k + i
          BY <1>2, <3>1
    <3> QED BY <2>2, <3>1, <3>2
  <2> QED BY <1>2, <1>6, <2>2, <2>3
<1> HIDE DEF t
<1>8. /\ Len(s \o t) = Len(s) + Len(t)
      /\ \A i \in 1..(Len(s) + Len(t)) :
           (s \o t)[i] = IF i <= Len(s) THEN s[i] ELSE t[i - Len(s)]
      BY <1>1, <1>7, ConcatProperties
<1>9. ASSUME NEW i \in 1..Len(s \o t)
      PROVE (s \o t)[i][2] = i \/ (holes /\ (s \o t)[i] = Hole)
  <2>1. CASE i <= Len(s)
    <3>1. i \in 1..Len(s) /\ (s \o t)[i] = s[i]
          BY <1>2, <1>6, <1>7, <1>8, <2>1
    <3> QED BY <1>5, <3>1 DEF At
  <2>2. CASE ~(i <= Len(s))
    <3>1. i - Len(s) \in 1..Len(t) /\ (s \o t)[i] = t[i - Len(s)]
          BY <1>2, <1>6, <1>7, <1>8, <2>2
    <3>2. (s \o t)[i] = c[i] /\ i \in 1..Len(c)
          BY <1>2, <1>6, <1>7, <2>2, <3>1
    <3> QED BY <1>5, <3>2 DEF At
  <2> QED BY <2>1, <2>2
<1>10. At(s \o t, holes)
       BY <1>9 DEF At
<1> QED BY <1>4, <1>10 DEF t

\* What a step leaves in a file that is only PUT.
LEMMA PlacedFile ==
  ASSUME Typing, Reached, Placed, NEW r \in Request, Moves(r),
         Only("PUT", FileOf(r)), files'[FileOf(r)] # Absent
  PROVE  At(files'[FileOf(r)], ~locked)
<1> DEFINE f == FileOf(r)
           k == job[r].stored
<1>1. f \in File /\ (files[f] # Absent => At(files[f], ~locked))
      BY InputFacts DEF Typing, Placed
<1>2. CASE files' = files
      BY <1>1, <1>2
<1>3. CASE files'[f] = <<>>
      BY <1>3 DEF At
<1>4. ASSUME NEW n \in Nat, ~IsGet(r), pc[r] \in {"first", "recv"}, Write(r, n)
      PROVE  At(files'[f], ~locked)
  <2>1. files[f] # Absent /\ (pc[r] = "first" => k = 0)
        BY <1>4, OpenFile
  <2>2. input[r].op = "PUT"
        BY <1>4 DEF Only
  <2>3. Offset(r) = k /\ k \in Nat
        BY <2>2 DEF Offset, Typing, TypeOK
  <2> DEFINE c == files[f]
             top == IF k + n > Len(c) THEN k + n ELSE Len(c)
  <2>4. /\ Len(c) \in Nat
        /\ Len(files'[f]) = top
        /\ \A i \in 1..top : files'[f][i] = IF i > k /\ i <= k + n THEN Unit(r, k + (i - k))
                                            ELSE IF i <= Len(c) THEN c[i] ELSE Hole
        BY <1>4, <2>1, <2>3, WriteEffects
  <2>5. locked => k <= Len(c)
        BY <1>4, <2>1, <2>2, <2>4 DEF Reached
  <2>6. At(c, ~locked)
        BY <1>1, <2>1
  <2> HIDE DEF c, k
  <2>7. ASSUME NEW i \in 1..Len(files'[f])
        PROVE  files'[f][i][2] = i \/ (~locked /\ files'[f][i] = Hole)
    <3>1. CASE i > k /\ i <= k + n
      <4>1. k + (i - k) = i /\ i \in 1..top
            BY <2>3, <2>4, <2>7
      <4>2. files'[f][i] = Unit(r, i)
            BY <2>4, <3>1, <4>1
      <4> QED BY <4>2 DEF Unit
    <3>2. CASE ~(i > k /\ i <= k + n) /\ i <= Len(c)
      <4>1. files'[f][i] = c[i] /\ i \in 1..Len(c)
            BY <2>4, <2>7, <3>2
      <4> QED BY <2>6, <4>1 DEF At
    <3>3. CASE ~(i > k /\ i <= k + n) /\ ~(i <= Len(c))
      <4>1. files'[f][i] = Hole
            BY <2>4, <2>7, <3>3
      <4>2. ~(k <= Len(c))
            BY <2>3, <2>4, <2>7, <3>3
      <4> QED BY <2>5, <4>1, <4>2
    <3> QED BY <3>1, <3>2, <3>3
  <2> QED BY <2>7 DEF At
<1> QED BY <1>2, <1>3, <1>4, Effects

LEMMA NextPlaced == Typing /\ Reached /\ Placed /\ [Steps]_allVars => Placed'
<1> SUFFICES ASSUME Typing, Reached, Placed, [Steps]_allVars PROVE Placed'
    OBVIOUS
<1>1. locked' = locked
      BY StepsMove
<1>2. CASE UNCHANGED vars
      BY <1>1, <1>2 DEF vars, Placed, Only, FileOf, IsGet
<1>3. ASSUME NEW r \in Request, Moves(r) PROVE Placed'
  <2>1. input' = input /\ \A q \in Request : FileOf(q)' = FileOf(q)
        BY <1>3, Effects DEF FileOf
  <2>2. SUFFICES ASSUME NEW f \in File, Only("PUT", f)
        PROVE  /\ files'[f] # Absent => At(files'[f], ~locked)
               /\ \A q \in Request : FileOf(q) = f => At(job'[q].sent, ~locked)
        BY <1>1, <2>1, OnlyStays DEF Placed
  <2>3. files'[f] # Absent => At(files'[f], ~locked)
    <3>1. CASE f = FileOf(r)
          BY <1>3, <2>2, <3>1, PlacedFile
    <3>2. CASE f # FileOf(r)
          BY <1>3, <2>2, <3>2, Effects DEF Placed
    <3> QED BY <3>1, <3>2
  <2>4. ASSUME NEW q \in Request, FileOf(q) = f PROVE At(job'[q].sent, ~locked)
    <3>1. CASE job'[q].sent = job[q].sent
          BY <2>2, <2>4, <3>1 DEF Placed
    <3>2. CASE q = r /\ SendChunk(r)
      <4>1. files[f] # Absent
            BY <2>4, <3>2 DEF Typing, Control, SendChunk
      <4>2. files[f] \in Content
            BY <4>1 DEF Typing, TypeOK
      <4>3. At(files[f], ~locked) /\ At(job[r].sent, ~locked)
            BY <2>2, <2>4, <3>2, <4>1 DEF Placed
      <4> QED BY <2>4, <3>2, <4>2, <4>3, PlacedChunk
    <3> QED BY <1>3, <3>1, <3>2, Effects
  <2> QED BY <2>3, <2>4
<1> QED BY <1>2, <1>3, StepsMove

LEMMA InitPlaced == Start => Typing /\ Reached /\ Placed
<1> SUFFICES ASSUME Start PROVE Typing /\ Reached /\ Placed
    OBVIOUS
<1>1. Typing /\ Exclusive
      BY InitTyping, InitCreation DEF Start
<1>2. Reached
      BY <1>1 DEF Reached, Start, Init
<1>3. \A f \in File : files[f] # Absent => files[f] = Units(Disk, 0, InitialSize)
      BY DEF Start, Init
<1>4. At(Units(Disk, 0, InitialSize), ~locked)
  <2>1. /\ Len(Units(Disk, 0, InitialSize)) = InitialSize
        /\ \A i \in 1..InitialSize : Units(Disk, 0, InitialSize)[i] = <<Disk, i>>
        BY FilesAssumption DEF Units, Unit
  <2> QED BY <2>1 DEF At
<1>5. \A r \in Request : job[r].sent = <<>>
      BY DEF Start, Init
<1>6. At(<<>>, ~locked)
      BY DEF At
<1>7. Placed
      BY <1>3, <1>4, <1>5, <1>6 DEF Placed
<1> QED BY <1>1, <1>2, <1>7

\* In a file that is only PUT, and in what GETs send of it, every unit is at its own
\* place; there are holes only where no lock keeps PUTs from truncating each other's file.
THEOREM UnitsStayInPlace == FairHandlers => []UnitsInPlace
<1> DEFINE I == Typing /\ Reached /\ Placed
<1>1. Start => I
      BY InitPlaced
<1>2. I /\ [Steps]_allVars => I'
      BY StepsTyping, NextReached, NextPlaced
<1>3. I => UnitsInPlace
      BY DEF Placed, UnitsInPlace, At
<1> QED BY <1>1, <1>2, <1>3, PTL DEF FairHandlers

-----------------------------------------------------------------------------
(* What a GET sends of a file that grows.                                  *)

\* A file that is only appended to keeps what it has.
LEMMA Grows ==
  ASSUME Typing, NEW r \in Request, Moves(r), NEW f \in File, Only("APPEND", f),
         files[f] # Absent
  PROVE  files[f] \in Content /\ \E s \in Content : files'[f] = files[f] \o s
<1>1. files[f] \in Content /\ files \in [File -> {Absent} \cup Content]
      BY DEF Typing, TypeOK
<1>2. CASE files'[f] = files[f]
  <2>1. <<>> \in Content /\ files[f] \o <<>> = files[f]
        BY <1>1, ConcatEmptySeq DEF Content
  <2> QED BY <1>1, <1>2, <2>1
<1>3. ASSUME NEW n \in Nat, f = FileOf(r), ~IsGet(r), Write(r, n)
      PROVE  \E s \in Content : files'[f] = files[f] \o s
  <2> DEFINE s == Units(r, job[r].stored, n)
  <2>1. s \in Content
        BY UnitsType DEF Typing, TypeOK
  <2>2. Offset(r) = Len(files[f])
        BY <1>3, "APPEND" # "PUT" DEF Only, Offset
  <2>3. files'[f] = Overwrite(files[f], Len(files[f]), s)
        BY <1>1, <1>3, <2>2 DEF Write
  <2>4. files'[f] = files[f] \o s
        BY <1>1, <2>1, <2>3, OverwriteEnd
  <2> QED BY <2>1, <2>4
<1>4. ~(f = FileOf(r) /\ input[r].op = "PUT")
      BY "PUT" # "APPEND", "PUT" # "GET" DEF Only, IsGet
<1> QED BY <1>1, <1>2, <1>3, <1>4, Effects

LEMMA ContentConcat ==
  ASSUME NEW c \in Content, NEW s \in Content PROVE c \o s \in Content
BY ConcatProperties DEF Content

\* A prefix stays a prefix when more is appended.
LEMMA PrefixStays ==
  ASSUME NEW c \in Content, NEW s \in Content, NEW n \in Nat, n <= Len(c)
  PROVE  /\ c \o s \in Content /\ Len(c) <= Len(c \o s)
         /\ SubSeq(c \o s, 1, n) = SubSeq(c, 1, n)
<1> DEFINE U == (Request \cup {Disk}) \X Nat
<1>1. c \in Seq(U) /\ s \in Seq(U)
      BY DEF Content
<1> HIDE DEF U
<1>2. c \o s \in Seq(U) /\ Len(c \o s) = Len(c) + Len(s) /\ Len(s) \in Nat /\ Len(c) \in Nat
      BY <1>1, ConcatProperties, LenProperties
<1>3. SubSeq(c \o s, 1, n) = SubSeq(c, 1, n)
  <2>1. CASE n = 0
        BY <2>1, SubSeqEmpty
  <2>2. CASE n # 0
    <3>1. n \in 1..Len(c) /\ 1 \in 1..Len(c)
          BY <1>2, <2>2
    <3> QED BY <1>1, <3>1, SubSeqOfConcat1
  <2> QED BY <2>1, <2>2
<1>4. Len(c) <= Len(c \o s)
      BY <1>2
<1> QED BY <1>2, <1>3, <1>4 DEF U, Content

\* A prefix and the chunk behind it are a prefix.
LEMMA PrefixGrows ==
  ASSUME Typing, NEW r \in Request, SendChunk(r), files[FileOf(r)] \in Content,
         totalGotten(r) <= Len(files[FileOf(r)]),
         job[r].sent = SubSeq(files[FileOf(r)], 1, totalGotten(r))
  PROVE  /\ Len(job'[r].sent) <= Len(files[FileOf(r)])
         /\ job'[r].sent = SubSeq(files[FileOf(r)], 1, Len(job'[r].sent))
<1> DEFINE c == files[FileOf(r)]
           k == totalGotten(r)
           top == IF k + BUF_SIZE < Len(c) THEN k + BUF_SIZE ELSE Len(c)
           U == (Request \cup {Disk}) \X Nat
<1>1. c \in Seq(U) /\ job[r].sent \in Seq(U)
      BY DEF Typing, TypeOK, Content
<1>2. k \in Nat /\ Len(c) \in Nat /\ BUF_SIZE \in Nat /\ k <= Len(c)
      BY <1>1, LenProperties, FilesAssumption DEF totalGotten
<1>3. job'[r].sent = SubSeq(c, 1, k) \o SubSeq(c, k + 1, top)
  <2>1. job \in [Request -> Jobs]
        BY DEF Typing, TypeOK, Jobs, Codes
  <2>2. job'[r].sent = job[r].sent \o Chunk(r)
        BY <2>1 DEF SendChunk, Jobs
  <2> QED BY <2>2 DEF Chunk
<1> HIDE DEF c, k, U
<1>4. top \in k..Len(c)
      BY <1>2
<1> HIDE DEF top
<1>5. SubSeq(c, 1, k) \o SubSeq(c, k + 1, top) = SubSeq(c, 1, top)
  <2>1. 1 \in 1..(Len(c) + 1) /\ k \in (1 - 1)..Len(c)
        BY <1>2
  <2> QED BY <1>1, <1>4, <2>1, ConcatAdjacentSubSeq
<1>6. Len(SubSeq(c, 1, top)) = top
  <2>1. \A i \in 1..top : c[i] \in U
        BY <1>1, <1>2, <1>4, ElementOfSeq
  <2>2. 1 \in Int /\ top \in Int
        BY <1>2, <1>4
  <2>3. Len(SubSeq(c, 1, top)) = IF 1 <= top THEN top - 1 + 1 ELSE 0
        BY <2>1, <2>2, SubSeqProperties
  <2> QED BY <1>2, <1>4, <2>3
<1>7. job'[r].sent = SubSeq(c, 1, top) /\ Len(job'[r].sent) = top /\ top <= Len(c)
      BY <1>2, <1>3, <1>4, <1>5, <1>6
<1> QED BY <1>7 DEF c

\* What r has sent is a prefix of its file, and the header promised no more than that has.
SendsPrefix(r) ==
  LET c == files[FileOf(r)]
  IN /\ c # Absent
     /\ job[r].fileSize <= Len(c) /\ totalGotten(r) <= Len(c)
     /\ job[r].sent = SubSeq(c, 1, totalGotten(r))

\* A GET has sent nothing before its header, and all that the header promised when it is
\* past its loop.
Sending ==
  \A r \in Request : IsGet(r) =>
    /\ pc[r] \in {"start", "open", "stat"} => job[r].status = 0 /\ job[r].sent = <<>>
    /\ pc[r] = "read" => job[r].status = RES_OK
    /\ pc[r] \in {"log", "unlock", "done"} /\ job[r].status = RES_OK =>
         totalGotten(r) >= job[r].fileSize
    /\ job[r].status = RES_OK /\ Only("APPEND", FileOf(r)) => SendsPrefix(r)

\* A step that leaves a GET what it has sent keeps it a prefix.
LEMMA PrefixKept ==
  ASSUME Typing, NEW q \in Request, Moves(q), NEW r \in Request,
         Only("APPEND", FileOf(r)), SendsPrefix(r),
         job'[r].sent = job[r].sent, job'[r].fileSize = job[r].fileSize
  PROVE  SendsPrefix(r)'
<1>1. input' = input /\ FileOf(r)' = FileOf(r) /\ FileOf(r) \in File
      BY Effects, InputFacts DEF FileOf, Typing
<1> DEFINE c == files[FileOf(r)]
           k == totalGotten(r)
<1>2. c # Absent /\ job[r].fileSize <= Len(c) /\ k <= Len(c) /\ job[r].sent = SubSeq(c, 1, k)
      BY DEF SendsPrefix
<1>3. c \in Content
      BY <1>1, <1>2, Grows
<1>4. PICK s \in Content : files'[FileOf(r)] = c \o s
      BY <1>1, <1>2, Grows
<1>5. job[r].sent \in Content /\ job[r].fileSize \in Int
      BY DEF Typing, TypeOK
<1>6. k \in Nat /\ Len(c) \in Nat /\ Len(c \o s) \in Nat
      BY <1>3, <1>5, LenProperties, ConcatProperties DEF totalGotten, Content
<1>7. totalGotten(r)' = k
      BY DEF totalGotten
<1> HIDE DEF c, k
<1>8. /\ c \o s # Absent /\ Len(c) <= Len(c \o s)
      /\ SubSeq(c \o s, 1, k) = SubSeq(c, 1, k)
      BY <1>2, <1>3, <1>4, <1>6, PrefixStays, FilesAssumption
<1>9. job[r].fileSize <= Len(c \o s) /\ k <= Len(c \o s)
      BY <1>2, <1>5, <1>6, <1>8
<1> QED BY <1>1, <1>2, <1>4, <1>7, <1>8, <1>9 DEF SendsPrefix

\* The steps a GET takes, and what they do to its locals.
LEMMA GetMoves ==
  ASSUME Typing, NEW r \in Request, Moves(r), IsGet(r)
  PROVE  \/ /\ job' = job
            /\ \/ pc[r] \in {"start", "open"} /\ pc'[r] \in {"open", "stat"}
               \/ pc[r] \in {"log", "unlock"} /\ pc'[r] \in {"unlock", "done"}
               \/ pc[r] = "read" /\ pc'[r] = "log" /\ ~MoreToRead(r)
         \/ pc[r] = "open" /\ pc'[r] \in {"log", "unlock"} /\ job'[r].status # RES_OK
         \/ SendHeader(r)
         \/ SendChunk(r)
         \/ UNCHANGED vars
<1>1. pc \in [Request -> GetPc \cup UploadPc] /\ job \in [Request -> Jobs] /\ pc[r] \in GetPc
      BY DEF Typing, TypeOK, Control, GetPc, UploadPc, Jobs, Codes
<1>2. CASE CallProcess(r) \/ Return(r)
      BY <1>2, OnlyMoves
<1>3. CASE LockRead(r) \/ GetOpens(r) \/ GetReturns(r) \/ Log(r) \/ Unlock(r)
      BY <1>1, <1>3 DEF LockRead, GetOpens, GetReturns, Log, Unlock, Goto
<1>4. CASE GetFails(r)
      BY <1>1, <1>4 DEF GetFails, OpenFails, Goto, Respond, Jobs, RES_OK, RES_FORBIDDEN,
         RES_NOT_FOUND, RES_INTERNAL_SE
<1>5. CASE Spin(r)
      BY <1>5 DEF Spin
<1>6. ~(\/ NothingToStore(r) \/ LockWrite(r) \/ Access(r) \/ UploadFails(r) \/ UploadOpens(r)
        \/ WriteFirst(r) \/ BodyComplete(r) \/ SendStored(r) \/ StoreChunk(r) \/ BodyEnds(r))
      BY <1>1 DEF NothingToStore, LockWrite, Access, UploadFails, OpenFails, UploadOpens,
         WriteFirst, BodyComplete, SendStored, StoreChunk, BodyEnds, Goto, GetPc
<1> QED BY <1>2, <1>3, <1>4, <1>5, <1>6 DEF Moves, ServerStep, ClientStep

LEMMA NextSending == Typing /\ Sending /\ [Steps]_allVars => Sending'
<1> SUFFICES ASSUME Typing, Sending, [Steps]_allVars PROVE Sending'
    OBVIOUS
<1>1. CASE UNCHANGED vars
      BY <1>1 DEF vars, Sending, SendsPrefix, Only, FileOf, IsGet, totalGotten
<1>2. ASSUME NEW q \in Request, Moves(q) PROVE Sending'
  <2>1. input' = input
        BY <1>2, Effects
  <2>2. SUFFICES ASSUME NEW r \in Request, IsGet(r)
        PROVE  /\ pc'[r] \in {"start", "open", "stat"} =>
                    job'[r].status = 0 /\ job'[r].sent = <<>>
               /\ pc'[r] = "read" => job'[r].status = RES_OK
               /\ pc'[r] \in {"log", "unlock", "done"} /\ job'[r].status = RES_OK =>
                    totalGotten(r)' >= job'[r].fileSize
               /\ job'[r].status = RES_OK /\ Only("APPEND", FileOf(r)) => SendsPrefix(r)'
    <3>1. \A r \in Request : /\ IsGet(r)' <=> IsGet(r)
                             /\ Only("APPEND", FileOf(r))' <=> Only("APPEND", FileOf(r))
          BY <2>1 DEF IsGet, Only, FileOf
    <3> QED BY <3>1 DEF Sending
  <2>3. /\ pc[r] \in {"start", "open", "stat"} => job[r].status = 0 /\ job[r].sent = <<>>
        /\ pc[r] = "read" => job[r].status = RES_OK
        /\ pc[r] \in {"log", "unlock", "done"} /\ job[r].status = RES_OK =>
             totalGotten(r) >= job[r].fileSize
        /\ job[r].status = RES_OK /\ Only("APPEND", FileOf(r)) => SendsPrefix(r)
        BY <2>2 DEF Sending
  <2>4. /\ job \in [Request -> Jobs] /\ pc \in [Request -> GetPc \cup UploadPc]
        /\ job[r].fileSize \in Int /\ totalGotten(r) \in Nat
        /\ ToInt(totalGotten(r)) \in Int /\ ToInt(totalGotten(r)) <= totalGotten(r)
    <3>1. job[r].sent \in Content
          BY DEF Typing, TypeOK
    <3>2. totalGotten(r) \in Nat
          BY <3>1, LenProperties DEF totalGotten, Content
    <3> QED BY <3>2, ToIntFacts DEF Typing, TypeOK, Jobs, Codes, GetPc, UploadPc
  <2>5. 0 # RES_OK
        BY DEF RES_OK
  <2>6. CASE job'[r] = job[r]
    <3>1. job'[r].status = RES_OK /\ Only("APPEND", FileOf(r)) => SendsPrefix(r)'
          BY <1>2, <2>3, <2>6, PrefixKept
    <3>2. totalGotten(r)' = totalGotten(r)
          BY <2>6 DEF totalGotten
    <3>3. CASE q # r
      <4>1. pc'[r] = pc[r]
            BY <1>2, <3>3, Effects
      <4> QED BY <2>3, <2>6, <3>1, <3>2, <4>1
    <3>4. CASE q = r
      <4>1. CASE pc[r] \in {"start", "open"} /\ pc'[r] \in {"open", "stat"}
            BY <2>3, <2>5, <2>6, <3>1, <4>1
      <4>2. CASE pc[r] \in {"log", "unlock"} /\ pc'[r] \in {"unlock", "done"}
            BY <2>3, <2>6, <3>1, <3>2, <4>2
      <4>3. CASE pc[r] = "read" /\ pc'[r] = "log" /\ ~MoreToRead(r)
            BY <2>4, <2>6, <3>1, <3>2, <4>3 DEF MoreToRead
      <4>4. CASE pc[r] = "open" /\ pc'[r] \in {"log", "unlock"} /\ job'[r].status # RES_OK
            BY <4>4
      <4>5. CASE SendHeader(r)
        <5>1. pc[r] = "stat" /\ job'[r].status = RES_OK
              BY <2>4, <4>5 DEF SendHeader, Goto, Jobs
        <5> QED BY <2>3, <2>5, <2>6, <5>1
      <4>6. CASE SendChunk(r) \/ UNCHANGED vars
        <5>1. pc'[r] = pc[r]
              BY <4>6 DEF SendChunk, vars
        <5> QED BY <2>3, <2>6, <3>1, <3>2, <5>1
      <4> QED BY <1>2, <2>2, <3>4, <4>1, <4>2, <4>3, <4>4, <4>5, <4>6, GetMoves
    <3> QED BY <3>3, <3>4
  <2>7. CASE q = r /\ pc[r] = "open" /\ pc'[r] \in {"log", "unlock"} /\ job'[r].status # RES_OK
        BY <2>7
  <2>8. CASE q = r /\ SendHeader(r)
    <3> DEFINE c == files[FileOf(r)]
    <3>1. c # Absent /\ c \in Content
      <4>1. FileOf(r) \in File /\ c # Absent
            BY <2>8, InputFacts DEF Typing, Control, SendHeader, Goto
      <4> QED BY <4>1 DEF Typing, TypeOK
    <3>2. /\ pc'[r] = "read" /\ files' = files /\ job'[r].sent = <<>>
          /\ job'[r].status = RES_OK /\ job'[r].fileSize = ToInt(Len(c))
          BY <2>3, <2>4, <2>8 DEF SendHeader, Goto, Jobs
    <3>3. Len(c) \in Nat /\ SubSeq(c, 1, 0) = <<>> /\ ToInt(Len(c)) <= Len(c)
          BY <3>1, LenProperties, SubSeqEmpty, ToIntFacts DEF Content
    <3>4. totalGotten(r)' = 0 /\ FileOf(r)' = FileOf(r)
          BY <2>1, <3>2 DEF totalGotten, FileOf
    <3>5. SendsPrefix(r)'
          BY <3>1, <3>2, <3>3, <3>4 DEF SendsPrefix
    <3> QED BY <3>2, <3>5
  <2>9. CASE q = r /\ SendChunk(r)
    <3>1. /\ pc[r] = "read" /\ pc'[r] = "read" /\ files' = files
          /\ job'[r].status = job[r].status /\ job'[r].fileSize = job[r].fileSize
          BY <2>4, <2>9 DEF SendChunk, Jobs
    <3>2. ASSUME Only("APPEND", FileOf(r)) PROVE SendsPrefix(r)'
      <4>1. SendsPrefix(r)
            BY <2>3, <3>1, <3>2
      <4>2. FileOf(r) \in File
            BY InputFacts DEF Typing
      <4>3. files[FileOf(r)] \in Content
            BY <4>1, <4>2 DEF SendsPrefix, Typing, TypeOK
      <4>4. /\ Len(job'[r].sent) <= Len(files[FileOf(r)])
            /\ job'[r].sent = SubSeq(files[FileOf(r)], 1, Len(job'[r].sent))
            BY <2>9, <4>1, <4>3, PrefixGrows DEF SendsPrefix
      <4>5. totalGotten(r)' = Len(job'[r].sent) /\ FileOf(r)' = FileOf(r)
            BY <2>1 DEF totalGotten, FileOf
      <4> QED BY <3>1, <4>1, <4>4, <4>5 DEF SendsPrefix
    <3> QED BY <2>3, <3>1, <3>2
  <2>10. job' = job \/ q # r => job'[r] = job[r]
         BY <1>2, Effects
  <2>11. UNCHANGED vars => job'[r] = job[r]
         BY DEF vars
  <2> QED BY <1>2, <2>2, <2>6, <2>7, <2>8, <2>9, <2>10, <2>11, GetMoves
<1> QED BY <1>1, <1>2, StepsMove

\* A GET of a file that is only appended to sends a prefix of it, as long as its header
\* says or longer, with locks or without.
THEOREM GetsSendPrefixes == FairHandlers => []GetSendsPrefix
<1> DEFINE I == Typing /\ Sending
<1>1. Start => I
  <2>1. Init => Sending
        BY 0 # RES_OK DEF Init, Sending, RES_OK
  <2> QED BY <2>1, InitTyping DEF Start
<1>2. I /\ [Steps]_allVars => I'
      BY StepsTyping, NextSending
<1>3. I => GetSendsPrefix
      BY DEF Sending, SendsPrefix, GetSendsPrefix
<1> QED BY <1>1, <1>2, <1>3, PTL DEF FairHandlers

-----------------------------------------------------------------------------
(* What APPENDs leave of each other.                                       *)

\* The units of r in c are the first k of its body, each once and in order.
Owns(c, r, k) ==
  /\ \A i \in 1..Len(c) : c[i][1] = r => c[i] \in {Unit(r, n) : n \in 1..k}
  /\ \A n \in 1..k : \E i \in 1..Len(c) : c[i] = Unit(r, n)
  /\ \A i, j \in 1..Len(c) : c[i][1] = r /\ c[j][1] = r /\ i < j => c[i][2] < c[j][2]

\* AppendsKept, of what was stored so far if only nothing.
Kept ==
  \A r \in Request : input[r].op = "APPEND" /\ Only("APPEND", FileOf(r)) =>
    IF files[FileOf(r)] = Absent THEN job[r].stored = 0
    ELSE Owns(files[FileOf(r)], r, job[r].stored)

\* A piece of a body behind the content: of the writer's own units there are n more, of
\* another's there are as many as before.
LEMMA OwnsConcat ==
  ASSUME NEW c \in Content, NEW q \in Request, NEW m \in Nat, NEW n \in Nat,
         NEW r \in Request, NEW k \in Nat, Owns(c, r, k), q = r => m = k
  PROVE  Owns(c \o Units(q, m, n), r, IF q = r THEN k + n ELSE k)
<1> DEFINE s == Units(q, m, n)
           d == c \o s
           K == IF q = r THEN k + n ELSE k
<1>1. s \in Content /\ Len(s) = n /\ \A i \in 1..n : s[i] = <<q, m + i>>
      BY UnitsType
<1> HIDE DEF s
<1>2. /\ Len(c) \in Nat /\ Len(d) = Len(c) + n
      /\ \A i \in 1..(Len(c) + n) : d[i] = IF i <= Len(c) THEN c[i] ELSE s[i - Len(c)]
      BY <1>1, ConcatProperties, LenProperties DEF Content
<1>3. \A i \in 1..Len(c) : i \in 1..Len(d) /\ d[i] = c[i]
      BY <1>2
<1>4. ASSUME NEW i \in 1..Len(d), ~(i <= Len(c))
      PROVE  i - Len(c) \in 1..n /\ d[i] = <<q, m + (i - Len(c))>>
  <2>1. i - Len(c) \in 1..n
        BY <1>2, <1>4
  <2> QED BY <1>1, <1>2, <1>4, <2>1
<1>5. \A i \in 1..n : Len(c) + i \in 1..Len(d) /\ d[Len(c) + i] = <<q, m + i>>
  <2> TAKE i \in 1..n
  <2>1. Len(c) + i \in 1..Len(d) /\ ~(Len(c) + i <= Len(c)) /\ (Len(c) + i) - Len(c) = i
        BY <1>2
  <2> QED BY <1>4, <2>1
<1> HIDE DEF d
<1>6. K \in Nat /\ k <= K
      OBVIOUS
<1>7. ASSUME NEW i \in 1..Len(d), d[i][1] = r
      PROVE  \E x \in 1..K : d[i] = Unit(r, x) /\ (i <= Len(c) => x <= k) /\ (i > Len(c) => x = k + (i - Len(c)))
  <2>1. CASE i <= Len(c)
    <3>1. i \in 1..Len(c) /\ c[i] = d[i]
          BY <1>2, <1>3, <2>1
    <3>2. PICK x \in 1..k : c[i] = Unit(r, x)
          BY <1>7, <3>1 DEF Owns
    <3>3. x \in 1..K /\ x <= k /\ ~(i > Len(c))
          BY <1>2, <1>6, <2>1, <3>2
    <3> QED BY <3>1, <3>2, <3>3
  <2>2. CASE ~(i <= Len(c))
    <3>1. i - Len(c) \in 1..n /\ d[i] = <<q, m + (i - Len(c))>>
          BY <1>4, <2>2
    <3>2. q = r /\ m = k /\ K = k + n
          BY <1>7, <3>1
    <3>3. k + (i - Len(c)) \in 1..K
          BY <1>2, <3>1, <3>2
    <3> QED BY <2>2, <3>1, <3>2, <3>3 DEF Unit
  <2> QED BY <2>1, <2>2
<1>8. ASSUME NEW x \in 1..K PROVE \E i \in 1..Len(d) : d[i] = Unit(r, x)
  <2>1. CASE x <= k
    <3>1. x \in 1..k
          BY <1>6, <2>1
    <3>2. PICK i \in 1..Len(c) : c[i] = Unit(r, x)
          BY <3>1 DEF Owns
    <3> QED BY <1>3, <3>2
  <2>2. CASE ~(x <= k)
    <3>1. q = r /\ m = k /\ K = k + n
          BY <1>6, <1>8, <2>2
    <3>2. x - k \in 1..n /\ m + (x - k) = x
          BY <2>2, <3>1
    <3>3. Len(c) + (x - k) \in 1..Len(d) /\ d[Len(c) + (x - k)] = <<q, m + (x - k)>>
          BY <1>5, <3>2
    <3> QED BY <3>1, <3>2, <3>3 DEF Unit
  <2> QED BY <2>1, <2>2
<1>9. ASSUME NEW i \in 1..Len(d), NEW j \in 1..Len(d), d[i][1] = r, d[j][1] = r, i < j
      PROVE  d[i][2] < d[j][2]
  <2>1. PICK x \in 1..K : /\ d[i] = Unit(r, x) /\ (i <= Len(c) => x <= k)
                          /\ (i > Len(c) => x = k + (i - Len(c)))
        BY <1>7, <1>9
  <2>2. PICK y \in 1..K : /\ d[j] = Unit(r, y) /\ (j <= Len(c) => y <= k)
                          /\ (j > Len(c) => y = k + (j - Len(c)))
        BY <1>7, <1>9
  <2>3. x < y
    <3>1. CASE j <= Len(c)
      <4>1. i \in 1..Len(c) /\ j \in 1..Len(c)
            BY <1>2, <1>9, <3>1
      <4>2. d[i] = c[i] /\ d[j] = c[j]
            BY <1>3, <4>1
      <4>3. c[i][2] < c[j][2]
            BY <1>9, <4>1, <4>2 DEF Owns
      <4> QED BY <2>1, <2>2, <4>2, <4>3 DEF Unit
    <3>2. CASE j > Len(c)
          BY <1>2, <1>6, <1>9, <2>1, <2>2, <3>2
    <3> QED BY <1>2, <1>9, <3>1, <3>2
  <2> QED BY <2>1, <2>2, <2>3 DEF Unit
<1>10. \A i \in 1..Len(d) : d[i][1] = r => d[i] \in {Unit(r, x) : x \in 1..K}
       BY <1>7
<1>11. Owns(d, r, K)
       BY <1>8, <1>9, <1>10 DEF Owns
<1> QED BY <1>11 DEF d, s

LEMMA NextKept == Typing /\ Kept /\ [Steps]_allVars => Kept'
<1> SUFFICES ASSUME Typing, Kept, [Steps]_allVars PROVE Kept'
    OBVIOUS
<1>1. CASE UNCHANGED vars
      BY <1>1 DEF vars, Kept, Only, FileOf, IsGet
<1>2. ASSUME NEW q \in Request, Moves(q) PROVE Kept'
  <2>1. input' = input
        BY <1>2, Effects
  <2>2. SUFFICES ASSUME NEW r \in Request, input[r].op = "APPEND", Only("APPEND", FileOf(r))
        PROVE  IF files'[FileOf(r)] = Absent THEN job'[r].stored = 0
               ELSE Owns(files'[FileOf(r)], r, job'[r].stored)
    <3>1. \A r \in Request : Only("APPEND", FileOf(r))' <=> Only("APPEND", FileOf(r))
          BY <2>1 DEF IsGet, Only, FileOf
    <3> QED BY <2>1, <3>1 DEF Kept, FileOf
  <2> DEFINE f == FileOf(r)
             c == files[f]
             k == job[r].stored
  <2>3. f \in File /\ IF c = Absent THEN k = 0 ELSE Owns(c, r, k)
        BY <2>2, InputFacts DEF Typing, Kept
  <2>4. k \in Nat /\ job[q].stored \in Nat
        BY DEF Typing, TypeOK
  <2>5. CASE files'[f] = c /\ job'[r].stored = k
        BY <2>3, <2>5
  <2>6. ASSUME NEW n \in Nat, ~IsGet(q), pc[q] \in {"first", "recv"}, Write(q, n),
               job'[q].stored = job[q].stored + n, FileOf(q) = f
        PROVE  IF files'[f] = Absent THEN job'[r].stored = 0
               ELSE Owns(files'[f], r, job'[r].stored)
    <3>1. c # Absent /\ c \in Content
          BY <2>6, OpenFile
    <3>2. Offset(q) = Len(c)
          BY <2>2, <2>6, "APPEND" # "PUT" DEF Only, Offset
    <3> DEFINE s == Units(q, job[q].stored, n)
    <3>3. s \in Content
          BY <2>4, UnitsType
    <3>4. files'[f] = c \o s
      <4>1. files \in [File -> {Absent} \cup Content]
            BY DEF Typing, TypeOK
      <4>2. files'[f] = Overwrite(c, Len(c), s)
            BY <2>3, <2>6, <3>2, <4>1 DEF Write
      <4> QED BY <3>1, <3>3, <4>2, OverwriteEnd
    <3>5. job'[r].stored = IF q = r THEN k + n ELSE k
          BY <1>2, <2>6, Effects
    <3>6. Owns(c \o s, r, IF q = r THEN k + n ELSE k)
          BY <2>3, <2>4, <3>1, OwnsConcat
    <3>7. c \o s # Absent
      <4> HIDE DEF c, s
      <4>1. c \o s \in Content
            BY <3>1, <3>3, ContentConcat
      <4> QED BY <4>1, FilesAssumption
    <3> QED BY <3>4, <3>5, <3>6, <3>7
  <2>7. ~(f = FileOf(q) /\ input[q].op = "PUT")
        BY <2>2, "PUT" # "APPEND", "PUT" # "GET" DEF Only, IsGet
  <2> HIDE DEF c, k
  <2>8. CASE f # FileOf(q)
    <3>1. files'[f] = c /\ q # r
          BY <1>2, <2>3, <2>8, Effects DEF c
    <3>2. job'[r].stored = k
          BY <1>2, <3>1, Effects DEF k
    <3> QED BY <2>5, <3>1, <3>2
  <2>9. CASE f = FileOf(q)
    <3>1. CASE files' = files /\ job'[q].stored = job[q].stored
      <4>1. files'[f] = c /\ job'[r].stored = k
            BY <1>2, <3>1, Effects DEF c, k
      <4> QED BY <2>5, <4>1
    <3> QED BY <1>2, <2>6, <2>7, <2>9, <3>1, Effects
  <2> QED BY <2>8, <2>9
<1> QED BY <1>1, <1>2, StepsMove

LEMMA InitKept == Start => Kept
<1> SUFFICES ASSUME Start, NEW r \in Request, input[r].op = "APPEND"
             PROVE  /\ job[r].stored = 0
                    /\ files[FileOf(r)] # Absent => Owns(files[FileOf(r)], r, 0)
    BY DEF Kept
<1>1. job[r].stored = 0
      BY DEF Start, Init
<1>2. ASSUME files[FileOf(r)] # Absent PROVE Owns(files[FileOf(r)], r, 0)
  <2> DEFINE c == files[FileOf(r)]
  <2>1. FileOf(r) \in File
        BY InitTyping, InputFacts DEF Start, Typing
  <2>2. c = Units(Disk, 0, InitialSize)
        BY <1>2, <2>1 DEF Start, Init
  <2>3. Len(c) = InitialSize /\ \A i \in 1..InitialSize : c[i] = <<Disk, i>>
        BY <2>2, FilesAssumption DEF Units, Unit
  <2>4. \A i \in 1..Len(c) : c[i][1] # r
        BY <2>3, FilesAssumption
  <2> HIDE DEF c
  <2>5. Owns(c, r, 0)
        BY <2>4 DEF Owns
  <2> QED BY <2>5 DEF c
<1> QED BY <1>1, <1>2

\* APPENDs of a file lose no unit of each other's and none of their own, whether
\* they exclude one another or not.
THEOREM AppendsLoseNothing == FairHandlers => []AppendsKept
<1> DEFINE I == Typing /\ Kept
<1>1. Start => I
      BY InitTyping, InitKept DEF Start
<1>2. I /\ [Steps]_allVars => I'
      BY StepsTyping, NextKept
<1>3. I => AppendsKept
  <2> SUFFICES ASSUME I, NEW r \in Request, input[r].op = "APPEND", Only("APPEND", FileOf(r)),
                      job[r].stored > 0
      PROVE  LET c == files[FileOf(r)]
                 Own == {i \in 1..Len(c) : c[i][1] = r}
             IN /\ {c[i] : i \in Own} = {Unit(r, n) : n \in 1..job[r].stored}
                /\ \A i, j \in Own : i < j => c[i][2] < c[j][2]
      BY DEF AppendsKept
  <2> DEFINE c == files[FileOf(r)]
             k == job[r].stored
             Own == {i \in 1..Len(c) : c[i][1] = r}
  <2>1. Owns(c, r, k)
        BY DEF Kept
  <2> HIDE DEF c, k
  <2>2. \A n \in 1..k : \E i \in Own : c[i] = Unit(r, n)
    <3> TAKE n \in 1..k
    <3>1. PICK i \in 1..Len(c) : c[i] = Unit(r, n)
          BY <2>1 DEF Owns
    <3>2. c[i][1] = r
          BY <3>1 DEF Unit
    <3> QED BY <3>1, <3>2
  <2>3. {c[i] : i \in Own} = {Unit(r, n) : n \in 1..k}
        BY <2>1, <2>2 DEF Owns
  <2>4. \A i, j \in Own : i < j => c[i][2] < c[j][2]
        BY <2>1 DEF Owns
  <2> QED BY <2>3, <2>4 DEF c, k
<1> QED BY <1>1, <1>2, <1>3, PTL DEF FairHandlers
=============================================================================
