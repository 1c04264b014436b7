----------------------------- MODULE MCJobQueue -----------------------------
(* An instance of JobQueue for TLC. *)
EXTENDS JobQueue

MCEmptyQueue == -86   \* threadPool.c
=============================================================================
