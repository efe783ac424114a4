--------------------------- MODULE MCDirectoryBlocks --------------------------
(* DirectoryBlocks over every block of up to four entries. *)
EXTENDS DirectoryBlocks

CONSTANTS Dot, a, b, long

\* What the entries are called, by their places: as in a first block, as in another, with
\* a name that kills the walk, and with a subdirectory lost+found.
Namings == { <<Dot, DotDot, a, b>>, <<b, a, LostFound, DotDot>>, <<Dot, long, a, LostFound>> }

\* Entries at some of four places, with records that end anywhere, one place behind the
\* end included, or have no length.
MCContents ==
    UNION {{{[at |-> at, recLen |-> f[at], name |-> naming[at + 1]] : at \in places} :
                f \in {g \in [places -> 0..BlockSize] : \A at \in places : at + g[at] <= BlockSize + 1},
                naming \in Namings} :
           places \in {p \in SUBSET (0..(BlockSize - 1)) : 0 \in p}}
===============================================================================
