------------------------------ MODULE MCSplit ------------------------------
(* An instance of Split for TLC. *)
EXTENDS Split

\* Files of one chunk and of several, with delimiters at the ends and side by side.
Arg ==
  {FileArg(<<"d">>), FileArg(<<"x", "d", "d", "n", "x">>), Stdin, Missing, Directory}

CommandLines ==
  {<<>>} \cup {<<a>> : a \in Arg} \cup {<<a, b>> : a, b \in Arg}
    \cup {<<Stdin, a, b>> : a, b \in Arg}

Inputs == {<<>>, <<"d", "x", "d">>}
=============================================================================
