----------------------------- MODULE MCBlocknrVector --------------------------
(* BlocknrVector with block numbers of four bits: 0, and with each pattern of the two
   top bits. *)
EXTENDS BlocknrVector

MCInputs == {0, 3, 4, 11, 12}

\* Their numbers are also encodings of blocks but for the lowest bit.
MCPointers == {6, 8, 32}
===============================================================================
