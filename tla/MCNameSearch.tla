------------------------------ MODULE MCNameSearch ----------------------------
(* NameSearch over two letters, one in both cases, a separator and the slash, and blocks
   of three bytes. *)
EXTENDS NameSearch

MCChars == {"a", "A", "b", " ", "/", "nul", "high"}
MCLetters == {"a", "A", "b"}
MCLower == [ch \in MCChars |-> IF ch = "A" THEN "a" ELSE ch]

Root == <<"/">>
Texts(n) == UNION {[1..k -> MCLetters \cup {" "}] : k \in 1..n}

NoFile == [block |-> FALSE, size |-> 2, bytes |-> <<"a", "b", " ">>]
Doc(parent, name, dir) == [parent |-> parent, name |-> name, dir |-> dir, file |-> NoFile]

\* Files shorter than a block, of a block, and longer.
Files == [block : {TRUE}, size : {0, 2, 3, 5}, bytes : [1..3 -> {"a", " ", "nul", "high"}]]
FileDoc(file) == [parent |-> Root, name |-> <<"b">>, dir |-> FALSE, file |-> file]
Other == [block |-> TRUE, size |-> 4, bytes |-> <<"b", "A", "b">>]
Below == <<"/", "a", "/">>

\* A file in the root; a directory and what is in it, among others; long words.
MCContents ==
    {{Doc(Root, t, FALSE)} : t \in Texts(3)}
        \cup {{Doc(Root, <<"a">>, TRUE), Doc(Below, t, FALSE), Doc(Root, t, TRUE)} : t \in Texts(2)}
        \cup {{Doc(Root, <<"a", "b", "a", "b", "a">>, FALSE)},
              {Doc(Root, <<"b", "A", "a", "a", " ", "b">>, TRUE)}}
        \cup {{FileDoc(file)} : file \in Files}
        \cup {{FileDoc(Other), [FileDoc(file) EXCEPT !.dir = TRUE], Doc(Root, <<"A">>, FALSE)} :
                file \in {f \in Files : f.size = 2 /\ f.bytes[1] = "a"}}

MCQueries == Texts(2) \cup [1..3 -> MCLetters] \cup {<<"b", " ", "a">>, <<" ", "a", " ">>,
                <<"a", " ", "b", "b">>, <<"b", " ", " ", "a">>, <<"a", "b", "a", "b">>, <<>>}
===============================================================================
