---------------------------- MODULE MCServerPool ----------------------------
(* Instance of ServerPool for TLC. *)
EXTENDS ServerPool
=============================================================================
