-------------------------- MODULE MCRequestParser --------------------------
(* Instances of RequestParser for TLC: what the clients send. *)
EXTENDS RequestParser

\* Numbers at, above and far above INT_MAX = 3: refused, wrapped to 2, saturated.
Numbers == {0, 2, 3, 4, 10, 40}

Headers ==
  {Header, RequestId(2, FALSE), RequestId(2, TRUE)}
    \cup {ContentLength(n, "plain") : n \in Numbers}
    \cup {ContentLength(1, f) : f \in {"glued", "letters", "colon"}}

\* Two headers of a kind, in both orders, and of different kinds.
Paired ==
  {Header, RequestId(1, FALSE), RequestId(2, TRUE), ContentLength(2, "plain"),
   ContentLength(1, "glued")}

Heads == {<<>>} \cup {<<h>> : h \in Headers} \cup {<<h, g>> : h, g \in Paired}

\* No end of the head; bodies that fit in the buffer, or not; bodies that look like
\* headers.
Rests ==
  {<<>>, <<Blank>>, <<Blank, Byte>>, <<Blank, Byte, Byte, Byte>>,
   <<Blank, RequestId(1, FALSE)>>, <<Blank, ContentLength(3, "plain"), Blank, Byte>>}

\* Empty lines, a header or other bytes in front of the request line; the last ones
\* have a head that fills the buffer.
Streams ==
  {<<>>, <<Header>>, <<Blank>>, <<Blank, Blank>>}
    \cup {<<p, Line(m)>> \o r :
            p \in {Blank, Header, Byte, RequestId(1, FALSE)}, m \in {"GET", "bad"}, r \in Rests}
    \cup {<<Blank, Line("PUT"), ContentLength(n, "plain")>> \o r : n \in {0, 2}, r \in Rests}
    \cup {<<Line(m)>> \o h \o r : m \in {"PUT", "GET"}, h \in Heads, r \in Rests}
    \cup {<<Line(m), ContentLength(2, "plain")>> \o r :
            m \in {"APPEND", "other", "bad"}, r \in Rests}
    \cup {<<Line("PUT"), Header, Header, ContentLength(n, "plain")>> \o r :
            n \in {0, 2}, r \in Rests}

\* A request that fits in the buffer.
ShortStreams == {<<Line("GET"), Header, Blank>>}
=============================================================================
