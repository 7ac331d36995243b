-------------------------- MODULE MCResponseParser --------------------------
(***************************************************************************)
(* Instances of ResponseParser for TLC: bodies with and without line ends  *)
(* in them, in no, one and two chunks, one as long as the limit allows.    *)
(***************************************************************************)
EXTENDS ResponseParser

B(i) == <<"data", i>>

ChunkLists == {<<>>, <<<<B(1)>>>>, <<<<CR, LF>>>>, <<<<B(1), CR>>, <<LF, CR, LF>>>>,
               <<<<B(1), B(2), B(3), B(4), B(5)>>>>}

R(framing, chunks, others, pad) ==
    [status |-> 200, framing |-> framing, chunks |-> chunks,
     others |-> others, pad |-> pad]

MCResponses ==
    {R(f, c, o, FALSE) : f \in {"length", "chunked"}, c \in ChunkLists, o \in 0..1}
        \cup {R("none", <<>>, 1, FALSE)}
        \cup {R("kmip", c, 0, FALSE) : c \in ChunkLists}
        \cup {R(f, <<<<B(1)>>>>, 0, TRUE) : f \in {"length", "chunked"}}

SomeExtras == {<<>>, <<B(9)>>, <<CR, LF>>}
=============================================================================
