----------------------------- MODULE MCShutdown -----------------------------
(* An instance of Shutdown for TLC: the uploads that a signal interrupts. *)
EXTENDS Shutdown, TLC

CONSTANTS plain, other, denied     \* two paths to write, which may be absent

\* Content-Length, units sent, units that came with the header.
Upload(op, f, contLen, body, bodyVal) ==
  [op |-> op, file |-> f, contLen |-> contLen, body |-> body, bodyVal |-> bodyVal]

\* In chunks and cut short; longer than announced, in the header's read or a later one;
\* cut short with nothing stored; without a body; a path that open() denies.
\* Of the others open() may fail as well, as it does of a directory.
Uploads ==
  {Upload("PUT", plain, 3, 2, 0), Upload("APPEND", plain, 3, 2, 1),
   Upload("PUT", other, 1, 2, 2), Upload("APPEND", plain, 2, 3, 1),
   Upload("PUT", plain, 2, 0, 0), Upload("PUT", plain, 0, 0, 0),
   Upload("PUT", denied, 1, 1, 1)}

Symmetry == Permutations(Request)
=============================================================================
