--------------------------- MODULE MCFileHandlers ---------------------------
(* Instance of FileHandlers for TLC: a GET that meets PUTs of its file. *)
EXTENDS FileHandlers

CONSTANTS plain, denied, dir     \* a path of each kind; plain may be absent

Ask(op, contLen, body, bodyVal) ==
  [op |-> op, file |-> plain, contLen |-> contLen, body |-> body, bodyVal |-> bodyVal]

\* PUTs that are cut short, and longer than announced.
GetAndPut ==
  {Ask("GET", 0, 0, 0), Ask("PUT", 3, 2, 0), Ask("PUT", 2, 3, 1)}
=============================================================================
