------------------------------ MODULE MCSuperBlock ----------------------------
(* SuperBlock with words of eight bits: every shift, and numbers around zero, around
   the limits of int and unsigned int, and between. *)
EXTENDS SuperBlock

Numbers == 0..34 \cup 48..49 \cup 62..66 \cup 124..132 \cup 248..255

Fields(counts, groupSizes, sizes, logs, frags) ==
    {[inodesCount |-> n, inodesPerGroup |-> g, inodeSize |-> z,
      logBlock |-> k, logFrag |-> k + f, desc |-> TRUE, linux |-> TRUE] :
        n \in counts, g \in groupSizes, z \in sizes, k \in logs, f \in frags}

MCSuperBlocks ==
    Fields(Numbers, Numbers, {SizeofInode}, 0..7, {0})
        \cup Fields({0, 8, 16, 130}, {0, 4, 8, 16, 130}, {1, 2, 4}, 0..8, {0, 1})
        \cup {[s EXCEPT !.desc = FALSE] : s \in Fields({16}, {8}, {SizeofInode}, 0..8, {0})}
        \cup {[s EXCEPT !.linux = FALSE] : s \in Fields({0, 16}, {0, 8}, {SizeofInode}, 0..8, {0})}
===============================================================================
