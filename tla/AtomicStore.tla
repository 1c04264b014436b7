----------------------------- MODULE AtomicStore -----------------------------
(***************************************************************************)
(* What "multithreadded httpserver with atomicity" promises (the title of   *)
(* asgn4/README.md and its lines 94-99): each request takes effect in one   *)
(* step on a store of files, in the order of the lines of the log.          *)
(***************************************************************************)
EXTENDS Integers, Sequences

CONSTANTS
  Absent,            \* the content of a file that does not exist
  Directory,         \* the paths that are directories
  BUF_SIZE           \* how far a chunk may overshoot the end of a body

VARIABLES
  input,             \* the request that each client sends
  store,             \* the content of each file
  history            \* what was answered to whom, in order

vars == <<input, store, history>>

\* How much of its body may get stored: all of it, or what came with the header
\* and as many chunks as reach Content-Length.
Storable(in) ==
  IF in.bodyVal >= in.contLen THEN {in.bodyVal}
  ELSE {n \in in.bodyVal..in.body :
          (n >= in.contLen \/ n = in.body) /\ n < in.contLen + BUF_SIZE}

Received(r) == {[i \in 1..n |-> <<r, i>>] : n \in Storable(input[r])}

Answer(r, code, body) ==
  history' = Append(history, [req |-> r, status |-> code,
                              length |-> Len(body), body |-> body])

Put(r, f) ==
  /\ input[r].op = "PUT"
  /\ f \notin Directory
  /\ \E new \in Received(r) : store' = [store EXCEPT ![f] = new]
  /\ Answer(r, IF store[f] = Absent THEN 201 ELSE 200, <<>>)

AppendTo(r, f) ==
  /\ input[r].op = "APPEND"
  /\ f \notin Directory /\ store[f] # Absent
  /\ \E new \in Received(r) : store' = [store EXCEPT ![f] = store[f] \o new]
  /\ Answer(r, 200, <<>>)

Get(r, f) ==
  /\ input[r].op = "GET"
  /\ f \notin Directory /\ store[f] # Absent
  /\ Answer(r, 200, store[f])
  /\ UNCHANGED store

NotFound(r, f) ==
  /\ input[r].op \in {"GET", "APPEND"}
  /\ store[f] = Absent
  /\ Answer(r, 404, <<>>)
  /\ UNCHANGED store

\* Whatever the request is, the server may be unable to open the file.
Fails(r) ==
  /\ Answer(r, 500, <<>>)
  /\ UNCHANGED store

Serve(r, f) ==
  /\ \A k \in 1..Len(history) : history[k].req # r
  /\ Put(r, f) \/ AppendTo(r, f) \/ Get(r, f) \/ NotFound(r, f) \/ Fails(r)
  /\ UNCHANGED input

Next == \E r \in DOMAIN input : Serve(r, input[r].file)

\* Nothing has been answered yet, whatever the requests and the files are.
Init == history = <<>>

Spec == Init /\ [][Next]_vars
=============================================================================
