-------------------------- MODULE MCJournalDescriptors ------------------------
(* JournalDescriptors with words of five bits, a header of two words and lists of two. *)
EXTENDS JournalDescriptors

\* One below the sign bit, one above it.
MCBlocks == {3, 29}
MCLists == {<<3, 29>>, <<29, 29>>}
===============================================================================
