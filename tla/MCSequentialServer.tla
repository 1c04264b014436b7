------------------------- MODULE MCSequentialServer -------------------------
(* Instances of SequentialServer for TLC: what the clients ask for. *)
EXTENDS SequentialServer

CONSTANTS plain, denied, dir     \* a path of each kind; plain is absent at first

Ask(p, f, patient) == [parts |-> p, file |-> f, patient |-> patient, reads |-> TRUE]

\* An upload with its Content-Length and the length of its body.
Body(m, n, body) ==
  <<Line(m), ContentLength(n, "plain"), Blank>> \o [i \in 1..body |-> Byte]

\* Longer than announced, shorter with a client that waits or closes, of length 0;
\* refused by open(); a request that has no body, and a client that does not read.
Requests ==
  {Ask(Body("APPEND", 1, 2), plain, FALSE), Ask(Body("PUT", 2, 1), plain, FALSE),
   Ask(Body("PUT", 2, 0), plain, TRUE),
   Ask(Body("PUT", 0, 1), plain, FALSE), Ask(Body("PUT", 0, 0), plain, TRUE),
   Ask(Body("PUT", 1, 0), denied, FALSE),
   Ask(<<Line("GET"), RequestId(2, FALSE), Blank>>, plain, TRUE),
   [Ask(<<Line("GET"), Blank>>, plain, TRUE) EXCEPT !.reads = FALSE],
   Ask(<<Line("GET"), Blank>>, dir, FALSE), Ask(<<>>, plain, TRUE)}

MixedParts == {ContentLength(2, "plain")}
=============================================================================
