--------------------------- MODULE JournalDescriptors -------------------------
(***************************************************************************)
(* Descriptors of the journal and the transaction they belong to           *)
(* (src/blocknr_vector_type.h 107-270).                                    *)
(*                                                                         *)
(* A tag says that a block of the journal is a copy of a block of the file *)
(* system; a revoke block lists blocks whose older copies must not be      *)
(* replayed.  The length of that list comes from the disk, in bytes, header*)
(* included, and is all that keeps the constructor inside the block.       *)
(*                                                                         *)
(* The caller, which would read the journal, is not in the repository: here*)
(* it makes any descriptors and appends each to the one transaction.       *)
(* add_block_descriptors is left out: of the two functions it calls for    *)
(* every block, add_block_descriptor and add_block_in_journal_descriptor,  *)
(* the repository only has the declarations (108, 109), so there is nothing*)
(* to say what it changes.  contains_tag_for_block changes nothing.        *)
(***************************************************************************)
EXTENDS Integers, SequencesExt

CONSTANTS Word,          \* number of values of a uint32_t
          WordBytes,     \* its size
          HeaderBytes,   \* sizeof(journal_revoke_header_t)
          BlockBytes,    \* block_size_
          Blocks,        \* block numbers of the file system
          Lists,         \* what may follow the header of a revoke block
          JournalBlocks, \* block numbers of the journal
          Garbage,       \* what is in memory behind a block
          MaxDescriptors \* bound on the descriptors of the transaction

VARIABLES descriptors,   \* M_descriptor
          committed,     \* M_committed
          pc             \* "live", or "died" of an assertion

vars == <<descriptors, committed, pc>>

ListWords == (BlockBytes - HeaderBytes) \div WordBytes

ASSUME JournalAssumption ==
    /\ Word \in Nat /\ WordBytes \in Nat \ {0} /\ Word % WordBytes = 0
    /\ BlockBytes \in 0..(Word - 1) /\ HeaderBytes \in 1..BlockBytes
    /\ Blocks \subseteq 0..(Word - 1)
    /\ Lists \subseteq [1..ListWords -> Blocks]
    /\ Garbage \notin Blocks
    /\ MaxDescriptors \in Nat

-------------------------------------------------------------------------------
(* Definitions named ..._Mutant are what a plausible mistake would make of the
   definition that follows them. Nothing here uses them. *)

\* Only the upper end is checked.
CountAccepted_Mutant(count) ==
    /\ count <= BlockBytes
    /\ (count - HeaderBytes) % WordBytes = 0

\* The two assertions on r_count.
CountAccepted(count) ==
    /\ HeaderBytes <= count /\ count <= BlockBytes
    /\ (count - HeaderBytes) % WordBytes = 0

\* The list as the loop of the constructor reads it; count is unsigned.
Revoked(count, list) ==
    [b \in 1..(((count - HeaderBytes) % Word) \div WordBytes) |->
        IF b <= ListWords THEN list[b] ELSE Garbage]

Tag(at, block) == [type |-> "TAG", at |-> at, blocks |-> <<block>>]
Revoke(at, blocks) == [type |-> "REVOKE", at |-> at, blocks |-> blocks]

\* print_blocks: where a copy is and of what block (its flags are left out), or the list.
PrintBlocks(d) == IF d.type = "TAG" THEN <<[at |-> d.at, block |-> d.blocks[1]]>> ELSE d.blocks

\* dt stays what it was first set to.
StartsLine_Mutant(lines, d) == lines = <<>> \/ lines[1].type # d.type

\* dt is the type of the line being printed, dt_unknown before the first.
StartsLine(lines, d) == lines = <<>> \/ Last(lines).type # d.type

\* One pass of its loop: a line is begun or goes on.
PrintNext(lines, d) ==
    IF StartsLine(lines, d)
    THEN Append(lines, [type |-> d.type, blocks |-> PrintBlocks(d)])
    ELSE [lines EXCEPT ![Len(lines)].blocks = @ \o PrintBlocks(d)]

\* print_descriptors: a line for each run of descriptors of one type.
PrintDescriptors ==
    LET printed[n \in 0..Len(descriptors)] ==
            IF n = 0 THEN <<>> ELSE PrintNext(printed[n - 1], descriptors[n])
    IN  printed[Len(descriptors)]

-------------------------------------------------------------------------------
Init ==
    /\ descriptors = <<>>
    /\ committed = FALSE
    /\ pc = "live"

\* Transaction::init, which keeps the descriptors; its block and sequence are left out.
InitTransaction ==
    /\ committed' = FALSE
    /\ UNCHANGED <<descriptors, pc>>

\* A tag is constructed and appended.
AppendTag(at, block) ==
    /\ descriptors' = Append(descriptors, Tag(at, block))
    /\ UNCHANGED <<committed, pc>>

\* A revoke block is constructed and appended, or has a length that cannot be.
AppendRevoke(at, count, list) ==
    /\ IF CountAccepted(count)
       THEN descriptors' = Append(descriptors, Revoke(at, Revoked(count, list))) /\ UNCHANGED pc
       ELSE pc' = "died" /\ UNCHANGED descriptors
    /\ UNCHANGED committed

SetCommitted ==
    /\ IF committed THEN pc' = "died" /\ UNCHANGED committed
       ELSE committed' = TRUE /\ UNCHANGED pc
    /\ UNCHANGED descriptors

Next ==
    /\ pc = "live"
    /\ \/ /\ Len(descriptors) < MaxDescriptors
          /\ \E at \in JournalBlocks :
                \/ \E block \in Blocks : AppendTag(at, block)
                \/ \E count \in 0..(Word - 1) : \E list \in Lists : AppendRevoke(at, count, list)
       \/ InitTransaction
       \/ SetCommitted

Spec == Init /\ [][Next]_vars

-------------------------------------------------------------------------------
(* Properties. *)

\* Whatever length the disk gives, every block of a revoke block is read from the list
\* behind its header and from nowhere else: a wrong length dies, it does not run out
\* of the block, neither at its end nor by wrapping round at 0.
RevokesFromTheList ==
    \A i \in DOMAIN descriptors :
        descriptors[i].type = "REVOKE" =>
            \E list \in Lists : IsPrefix(descriptors[i].blocks, list)

\* The report tells which journal block replaces which block and which are revoked, in
\* the order of the journal, on which replaying depends: a line holds what was printed
\* under its own type only, and a new one begins where, and only where, the type changes.
PrintedInOrder ==
    /\ \A l \in DOMAIN PrintDescriptors \ {1} : PrintDescriptors[l].type # PrintDescriptors[l - 1].type
    /\ \A type \in {"TAG", "REVOKE"} :
          FlattenSeq([l \in DOMAIN PrintDescriptors |->
                         IF PrintDescriptors[l].type = type THEN PrintDescriptors[l].blocks ELSE <<>>])
            = FlattenSeq([i \in DOMAIN descriptors |->
                             IF descriptors[i].type = type THEN PrintBlocks(descriptors[i]) ELSE <<>>])
-------------------------------------------------------------------------------
\* The inductive invariant behind them: a descriptor is a tag of one block or the
\* beginning of a list.
Descriptors ==
    [type : {"TAG"}, at : JournalBlocks, blocks : {<<b>> : b \in Blocks}]
        \cup [type : {"REVOKE"}, at : JournalBlocks,
              blocks : {blocks \in Seq(Blocks) : \E list \in Lists : IsPrefix(blocks, list)}]

IInv == descriptors \in Seq(Descriptors)
===============================================================================
