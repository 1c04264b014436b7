------------------------- MODULE MCUnlockedHandlers -------------------------
(* An instance of UnlockedHandlers for TLC. *)
EXTENDS UnlockedHandlers

CONSTANTS plain, denied     \* plain may be absent

Upload(op, contLen, body, bodyVal) ==
  [op |-> op, file |-> plain, contLen |-> contLen, body |-> body, bodyVal |-> bodyVal]

\* Uploads that are cut short or longer than announced, in chunks.
Inputs ==
  {[op |-> "GET", file |-> f, contLen |-> 0, body |-> 0, bodyVal |-> 0] :
     f \in {plain, denied}}
    \cup {Upload(op, b[1], b[2], b[3]) :
            op \in {"PUT", "APPEND"}, b \in {<<4, 3, 1>>, <<2, 3, 0>>}}
=============================================================================
