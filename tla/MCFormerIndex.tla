---------------------------- MODULE MCFormerIndex -----------------------------
(* FormerIndex over names of up to four letters, one with a blank, one too long. *)
EXTENDS FormerIndex

MCChars == {"a", "b", "c", "p", "q", "/"}
P == <<"/", "p">>
Q == <<"/", "q">>
Entry(path, name) == [path |-> <<path>>, name |-> name]

MCFiles ==
    {<<>>,
     <<Entry(P, <<<<"a", "b">>>>), Entry(Q, <<<<"b">>>>), Entry(P, <<<<"b", "a", "b">>>>), Entry(Q, <<<<"a">>>>)>>,
     <<Entry(Q, <<<<"a", "a">>>>), Entry(P, <<<<"b">>, <<"a">>>>), Entry(Q, <<<<"b", "b">>>>)>>,
     <<Entry(P, <<<<"b", "a">>>>), Entry(Q, <<<<"a", "b", "a", "b">>>>), Entry(P, <<<<"a">>>>)>>}

MCQueries == {{<<"a">>}, {<<"b">>}, {<<"a", "b">>, <<"a", "a">>}, {<<"b", "a">>, <<"b", "b">>, <<"c">>}}
===============================================================================
