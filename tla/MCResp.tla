------------------------------- MODULE MCResp --------------------------------
(***************************************************************************)
(* Streams for the parser: what the encoders write, the same with one      *)
(* character changed, and inline lines.                                    *)
(***************************************************************************)
EXTENDS Resp

a == 97

\* Arguments that look like parts of the protocol.
Payloads == {<<>>, <<a>>, <<CR, LF>>, <<LF, CR>>, <<DOLLAR, ZERO + 1, CR, LF>>,
             <<STAR, ZERO + 1, CR, LF>>}
Commands == {<<<<E>>, p>> : p \in Payloads} \cup {<<<<M>>, <<a>>, <<>>>>, <<<<P>>>>}

Encoded == {[bytes |-> respArray(c) \o respArray(d), intended |-> <<<<c, d>>>>] :
              c \in Commands, d \in {<<<<E>>, <<CR, LF>>>>, <<<<P>>>>}}

\* A character of an encoded command becomes another one.
Changed ==
    LET s == respArray(<<<<E>>, <<CR, a>>>>) \o respArray(<<<<P>>>>)
    IN  {[bytes |-> [s EXCEPT ![i] = ch], intended |-> <<>>] :
           i \in DOMAIN s, ch \in {ZERO, ZERO + 2, MINUS, CR, LF, STAR}}

\* An argument quoted by reply_format.cpp and typed on a line.
Quotable == {7, 8, TAB, CR, LF, SPACE, DOUBLEQUOTE, SINGLEQUOTE, BACKSLASH, 110, 120, 127, 255}
Quoted ==
    {[bytes |-> <<E, SPACE>> \o quote(p) \o <<LF>>, intended |-> <<<<<<<<E>>, p>>>>>>] :
       p \in [1 .. 2 -> Quotable]}

\* Lines of all kinds, one of them too long.
Lines ==
    {[bytes |-> s \o <<LF, P, LF>>, intended |-> <<>>] :
       s \in UNION {[1 .. n -> {a, SPACE, DOUBLEQUOTE, SINGLEQUOTE, BACKSLASH}] : n \in 1 .. 3}}
    \cup {[bytes |-> <<P, LF, Q, LF, P, LF>>, intended |-> <<>>],
          [bytes |-> <<P, LF>> \o [i \in 1 .. 14 |-> a] \o <<LF>>, intended |-> <<>>]}

MCStreams == Encoded \cup Changed \cup Quoted \cup Lines
=============================================================================
