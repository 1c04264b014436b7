------------------------------- MODULE Split -------------------------------
(***************************************************************************)
(* asgn0/split.c: copies its arguments to the standard output with the      *)
(* delimiter replaced by a newline, a step per system call.  Each call may  *)
(* fail, and write() may be short.                                         *)
(***************************************************************************)
EXTENDS Integers, Sequences, SequencesExt

CONSTANTS
  Byte, DELIM, NEWLINE,
  Arguments,       \* the command lines: sequences of FileArg, Stdin, ...
  Input,           \* what the standard input may hold
  BUFFSIZE,
  MayFail          \* which of "read", "write", "close" may fail, and "short"

FileArg(bytes) == [kind |-> "file", bytes |-> bytes]
Stdin == [kind |-> "stdin", bytes |-> <<>>]          \* an argument that starts with -
Missing == [kind |-> "missing", bytes |-> <<>>]      \* open() fails
Directory == [kind |-> "directory", bytes |-> <<>>]  \* open() succeeds, read() fails

ArgumentType == [kind : {"file", "stdin", "missing", "directory"}, bytes : Seq(Byte)]

ASSUME SplitAssumption ==
  /\ DELIM \in Byte /\ NEWLINE \in Byte
  /\ BUFFSIZE \in Nat \ {0}
  /\ Arguments \subseteq Seq(ArgumentType) /\ Input \subseteq Seq(Byte)
  /\ MayFail \subseteq {"read", "write", "short", "close"}

ENOENT == 2
EIO == 5
EISDIR == 21
EINVAL == 22
ENOSPC == 28

VARIABLES
  argv,            \* the arguments behind the delimiter
  delimLength,     \* strlen(argv[1])
  input, stdin,    \* the standard input, and what is left of it
  pc,              \* "start", "open", "read", "write", "close", "exit"
  totalArgs,       \* the argument in hand
  offset,          \* how much of its file has been read
  buffer,          \* the chunk between read() and write()
  errno,
  status,          \* the exit status
  written,         \* what was written of each argument, in the arguments' order
  failed, short    \* history: the arguments for which a call failed, or was short

vars == <<argv, delimLength, input, stdin, pc, totalArgs, offset, buffer, errno, status,
          written, failed, short>>

Given == <<argv, delimLength, input>>

\* Mutant: the loop stops before the last byte.
ReplacedMutant(s) == [i \in 1..Len(s) |-> IF s[i] = DELIM /\ i < Len(s) THEN NEWLINE ELSE s[i]]

\* The loop over the buffer.
Replaced(s) == [i \in 1..Len(s) |-> IF s[i] = DELIM THEN NEWLINE ELSE s[i]]

InHand == argv[totalArgs]

\* Failures set errno, which nobody resets.
Fail(code) == errno' = code /\ failed' = failed \cup {totalArgs}

\* Too few arguments, or a delimiter of several characters.
WrongUsage ==
  /\ pc = "start"
  /\ argv = <<>> \/ delimLength > 1
  /\ pc' = "exit" /\ status' = EINVAL
  /\ UNCHANGED <<Given, stdin, totalArgs, offset, buffer, errno, written, failed, short>>

Start ==
  /\ pc = "start"
  /\ argv # <<>> /\ delimLength <= 1
  /\ pc' = "open"
  /\ UNCHANGED <<Given, stdin, totalArgs, offset, buffer, errno, status, written,
                 failed, short>>

MoreArguments == totalArgs <= Len(argv)

\* Mutant: errno is reset for each file.
OpenedErrnoMutant == 0

OpenedErrno == errno

\* Mutant: the next file is read from where the one before it ended.
StartOffsetMutant == offset

StartOffset == 0

\* The standard input is open already.
Open ==
  /\ pc = "open" /\ MoreArguments
  /\ InHand.kind # "missing"
  /\ pc' = "read" /\ offset' = StartOffset /\ errno' = OpenedErrno
  /\ UNCHANGED <<Given, stdin, totalArgs, buffer, status, written, failed, short>>

OpenFails ==
  /\ pc = "open" /\ MoreArguments
  /\ InHand.kind = "missing"
  /\ Fail(ENOENT)
  /\ pc' = "open" /\ totalArgs' = totalArgs + 1
  /\ UNCHANGED <<Given, stdin, offset, buffer, status, written, short>>

\* What a read() of the argument in hand can return.
Unread ==
  IF InHand.kind = "stdin" THEN stdin
  ELSE SubSeq(InHand.bytes, offset + 1, Len(InHand.bytes))

\* read() of at most BUFFSIZE bytes, less from a pipe, and the loop over them.
Read ==
  /\ pc = "read" /\ InHand.kind # "directory"
  /\ \E n \in 1..Len(Unread) :
       /\ n <= BUFFSIZE
       /\ buffer' = Replaced(SubSeq(Unread, 1, n))
       /\ IF InHand.kind = "stdin"
          THEN stdin' = SubSeq(stdin, n + 1, Len(stdin)) /\ UNCHANGED offset
          ELSE offset' = offset + n /\ UNCHANGED stdin
  /\ pc' = "write"
  /\ UNCHANGED <<Given, totalArgs, errno, status, written, failed, short>>

\* Mutant: ">=" in the condition of the loop.
AfterEndMutant == "read"

AfterEnd == "close"

\* read() returns 0.
ReadEnds ==
  /\ pc = "read" /\ InHand.kind # "directory" /\ Unread = <<>>
  /\ pc' = AfterEnd
  /\ UNCHANGED <<Given, stdin, totalArgs, offset, buffer, errno, status, written,
                 failed, short>>

ReadFails ==
  /\ pc = "read"
  /\ \/ InHand.kind = "directory" /\ Fail(EISDIR)
     \/ InHand.kind # "directory" /\ "read" \in MayFail /\ Fail(EIO)
  /\ pc' = "close"
  /\ UNCHANGED <<Given, stdin, totalArgs, offset, buffer, status, written, short>>

\* write() takes all of the buffer, or less; the code does not look which.
Write ==
  /\ pc = "write"
  /\ \E n \in 1..Len(buffer) :
       /\ n = Len(buffer) \/ "short" \in MayFail
       /\ written' = [written EXCEPT ![totalArgs] = @ \o SubSeq(buffer, 1, n)]
       /\ short' = IF n = Len(buffer) THEN short ELSE short \cup {totalArgs}
  /\ pc' = "read"
  /\ UNCHANGED <<Given, stdin, totalArgs, offset, buffer, errno, status, failed>>

WriteFails ==
  /\ pc = "write" /\ "write" \in MayFail
  /\ Fail(ENOSPC)
  /\ pc' = "close"
  /\ UNCHANGED <<Given, stdin, totalArgs, offset, buffer, status, written, short>>

\* close(), except of the standard input, and on to the next argument.
Close ==
  /\ pc = "close"
  /\ \/ UNCHANGED <<errno, failed>>
     \/ InHand.kind # "stdin" /\ "close" \in MayFail /\ Fail(EIO)
  /\ pc' = "open" /\ totalArgs' = totalArgs + 1
  /\ UNCHANGED <<Given, stdin, offset, buffer, status, written, short>>

Exit ==
  /\ pc = "open" /\ ~MoreArguments
  /\ pc' = "exit" /\ status' = errno
  /\ UNCHANGED <<Given, stdin, totalArgs, offset, buffer, errno, written, failed, short>>

Init ==
  /\ argv \in Arguments
  /\ delimLength \in 1..2
  /\ input \in Input
  /\ stdin = input
  /\ pc = "start"
  /\ totalArgs = 1 /\ offset = 0 /\ buffer = <<>>
  /\ errno = 0 /\ status = 0
  /\ written = [i \in 1..Len(argv) |-> <<>>]
  /\ failed = {} /\ short = {}

Terminated == pc = "exit" /\ UNCHANGED vars

Next ==
  \/ WrongUsage \/ Start \/ Open \/ OpenFails \/ Read \/ ReadEnds \/ ReadFails
  \/ Write \/ WriteFails \/ Close \/ Exit \/ Terminated

Spec == Init /\ [][Next]_vars

\* What the program does when no call fails that need not.
Advance ==
  \/ WrongUsage \/ Start \/ Open \/ OpenFails \/ Read \/ ReadEnds \/ Write \/ Close \/ Exit
  \/ ReadFails /\ InHand.kind = "directory"

\* The program is sequential; the standard input is finite.
FairSpec == Spec /\ WF_vars(Advance)

-----------------------------------------------------------------------------
(* Properties.                                                             *)

TypeOK ==
  /\ argv \in Arguments /\ delimLength \in 1..2
  /\ input \in Input /\ stdin \in Seq(Byte) /\ buffer \in Seq(Byte)
  /\ pc \in {"start", "open", "read", "write", "close", "exit"}
  /\ totalArgs \in 1..(Len(argv) + 1)
  /\ pc \in {"read", "write", "close"} => totalArgs <= Len(argv)
  /\ offset \in Nat
  /\ pc \in {"read", "write", "close"} => offset <= Len(InHand.bytes)
  /\ errno \in {0, ENOENT, EIO, EISDIR, ENOSPC}
  /\ status \in {0, ENOENT, EIO, EISDIR, ENOSPC, EINVAL}
  /\ written \in [1..Len(argv) -> Seq(Byte)]
  /\ failed \subseteq 1..Len(argv) /\ short \subseteq 1..Len(argv)

\* A failing argument costs the others nothing: each file for which no call failed or
\* was short is written whole, with its delimiters replaced, and so is the standard
\* input, to the first argument that asks for it.
OthersAreWhole ==
  pc = "exit" /\ argv # <<>> /\ delimLength <= 1 =>
    \A i \in (1..Len(argv)) \ (failed \cup short) :
      /\ argv[i].kind = "file" => written[i] = ReplaceAll(argv[i].bytes, DELIM, NEWLINE)
      /\ argv[i].kind = "stdin" /\ (\A j \in 1..(i - 1) : argv[j].kind # "stdin") =>
           written[i] = ReplaceAll(input, DELIM, NEWLINE)

\* asgn0/README.md:60-73: the exit status is 0 if and only if no call failed, also
\* when many calls have succeeded since.
ExitTellsFailure ==
  pc = "exit" => (status = 0 <=> failed = {} /\ argv # <<>> /\ delimLength <= 1)

\* The program ends.
Terminates == <>(pc = "exit")
=============================================================================
