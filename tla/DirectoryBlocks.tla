---------------------------- MODULE DirectoryBlocks ---------------------------
(***************************************************************************)
(* DirectoryBlock::read_block and exactly_equal (src/directory_struction.h *)
(* 20-159): the entries of a directory block, deleted ones too, are        *)
(* collected, sorted by their place in the block, and linked by their      *)
(* record lengths.                                                         *)
(*                                                                         *)
(* iterate_over_directory is not in the repository and external: it        *)
(* delivers the entries of the block, each once, in any order, by way of   *)
(* read_block_action.  An entry is a record of its place `at' in the       *)
(* buffer, its recLen and its name, which stands for name, inode and type  *)
(* together.  Deleted entries lie inside the record of the one before them.*)
(* recLen is what the disk says: 0, or beyond the end of the block, too.   *)
(*                                                                         *)
(* Several DirectoryBlocks are read from the same block, one after the     *)
(* other: they share one static buffer.  The walk of read_inode has its own*)
(* way to read a directory block (CurrentDirectory).                       *)
(***************************************************************************)
EXTENDS Integers, FiniteSets, SequencesExt

CONSTANTS Objects,       \* DirectoryBlocks
          Nobody,        \* no object
          BlockSize,     \* block_size_
          Contents,      \* what may be in the block: sets of entries
          DotDot, LostFound,   \* names: "..", "lost+found",
          LongNames,     \* and those of 255 bytes
          Killed         \* the end of the program, among the names of a directory

VARIABLES content,       \* the block on the device
          good,          \* device.good()
          reading,       \* using_static_buffer, and whose read_block that is
          seen,          \* the entries delivered to it
          dirEntries,    \* M_dir_entry of each object
          done,          \* objects whose read_block has returned
          died           \* an assertion failed

directoryVars == <<content, good, reading, seen, dirEntries, done, died>>

ASSUME DirectoryAssumption ==
    /\ Nobody \notin Objects /\ BlockSize \in Nat
    /\ \A c \in Contents :
          /\ IsFiniteSet(c)
          /\ \A e \in c : e.at \in 0..(BlockSize - 1) /\ e.recLen \in Nat
          /\ \A e, f \in c : e.at = f.at => e = f
          /\ \E e \in c : e.at = 0        \* where any reader begins

-------------------------------------------------------------------------------
(* Definitions named ..._Mutant are what a plausible mistake would make of the
   definition that follows them. Nothing here uses them. *)

\* DirEntrySortPred, on the pointers into the buffer.
Before(d, e) == d.at < e.at

\* read_dir_entry, before cur and next are known.
DirEntry(e) == [at |-> e.at, recLen |-> e.recLen, name |-> e.name, cur |-> 0, next |-> 0]

\* The first entry at or behind the end of the record.
NextOf_Mutant(sorted, i) ==
    LET after == {j \in DOMAIN sorted : sorted[j].at >= sorted[i].at + sorted[i].recLen}
    IN  IF after = {} THEN 0 ELSE (CHOOSE j \in after : \A k \in after : j <= k) - 1

\* The index of the entry where the record of the i-th ends, 0 if there is none.
NextOf(sorted, i) ==
    LET after == {j \in DOMAIN sorted : sorted[j].at = sorted[i].at + sorted[i].recLen}
    IN  IF after = {} THEN 0 ELSE (CHOOSE j \in after : \A k \in after : j <= k) - 1

Linked(sorted) ==
    [i \in DOMAIN sorted |-> [sorted[i] EXCEPT !.cur = i - 1, !.next = NextOf(sorted, i)]]

\* Without the one on where a record ends.
Asserted_Mutant(linked) == Len(linked) >= 2

\* The assertions: `.' and `..', and every record ends at an entry or at the end.
Asserted(linked) ==
    /\ Len(linked) >= 2
    /\ \A i \in DOMAIN linked :
          linked[i].next > 0 \/ linked[i].at + linked[i].recLen = BlockSize

\* What read_current_directory keeps of an entry: not the parent and not lost+found.
KeptName(e) == IF e.name \in {DotDot, LostFound} THEN <<>> ELSE <<e.name>>

\* The loop of read_current_directory: the names it keeps, each entry where the record of
\* the one before it ends. A long name fails an assertion; a rec_len of 0 ends the loop, and
\* that entry is not kept. (Where no entry begins it would take something else for one.)
CurrentDirectory ==
    LET from[base \in 0..(BlockSize - 1)] ==
            LET here == {e \in content : e.at = base}
            IN  IF here = {} THEN <<>>
                ELSE LET e == CHOOSE x \in here : TRUE
                         end == base + e.recLen
                     IN  IF e.name \in LongNames THEN <<Killed>>
                         ELSE IF e.recLen = 0 THEN <<>>
                         ELSE KeptName(e) \o (IF end < BlockSize THEN from[end] ELSE <<>>)
    IN  from[0]

\* exactly_equal of entries (whose cur it asserts to be equal) and of blocks.
ExactlyEqual(p, q) ==
    /\ Len(p) = Len(q)
    /\ \A i \in DOMAIN p : p[i].cur = q[i].cur /\ p[i].name = q[i].name /\ p[i].next = q[i].next

-------------------------------------------------------------------------------
DirectoryInit ==
    /\ content \in Contents
    /\ good = TRUE
    /\ reading = Nobody
    /\ seen = {}
    /\ dirEntries = [o \in Objects |-> <<>>]
    /\ done = {}
    /\ died = FALSE

\* get_block reads into the static buffer and asserts that the device is still good.
GetBlock(o) ==
    \/ good' = TRUE /\ reading' = o /\ seen' = {} /\ UNCHANGED died
    \/ good' = FALSE /\ died' = TRUE /\ UNCHANGED <<reading, seen>>

\* read_block begins: the static buffer must be free.
BeginRead(o) ==
    /\ o \notin done /\ o # reading
    /\ IF reading # Nobody THEN died' = TRUE /\ UNCHANGED <<good, reading, seen>> ELSE GetBlock(o)
    /\ UNCHANGED <<content, dirEntries, done>>

\* iterate_over_directory calls read_block_action.
ReadDirEntry ==
    /\ reading # Nobody
    /\ \E e \in content \ seen :
          /\ seen' = seen \cup {e}
          /\ dirEntries' = [dirEntries EXCEPT ![reading] = Append(@, DirEntry(e))]
    /\ UNCHANGED <<content, good, reading, done, died>>

\* Not sorted.
Sorted_Mutant(entries) == entries
\* std::sort: the same entries, and none before one that the predicate puts behind it.
Sorted(entries) ==
    LET order == CHOOSE p \in Bijection(DOMAIN entries, DOMAIN entries) :
                    \A i, j \in DOMAIN entries : i < j => ~Before(entries[p[j]], entries[p[i]])
    IN  [i \in DOMAIN entries |-> entries[order[i]]]

\* The rest of read_block: sort, assert, link, and the buffer is free.
EndRead ==
    /\ reading # Nobody /\ seen = content
    /\ LET linked == Linked(Sorted(dirEntries[reading]))
       IN  IF Asserted(linked)
           THEN /\ dirEntries' = [dirEntries EXCEPT ![reading] = linked]
                /\ done' = done \cup {reading}
                /\ reading' = Nobody
                /\ UNCHANGED died
           ELSE died' = TRUE /\ UNCHANGED <<dirEntries, done, reading>>
    /\ UNCHANGED <<content, good, seen>>

\* One thread: the next call comes when the last has returned.
DirectoryNext ==
    /\ ~died
    /\ \/ (reading = Nobody \/ reading \in done) /\ \E o \in Objects : BeginRead(o)
       \/ ReadDirEntry
       \/ EndRead

DirectorySpec == DirectoryInit /\ [][DirectoryNext]_directoryVars

-------------------------------------------------------------------------------
(* Properties. *)

EndOf(d) == d.at + d.recLen
LeadsNowhere(d) == d.next # 0 /\ d.next = d.cur

\* next is where the record of an entry ends, and 0 means the end of the block and never
\* the first entry; no link leads back, and one leads nowhere, to the entry itself, exactly
\* if rec_len is 0, which no assertion excludes; what next passes over lies inside the record.
NextFollowsRecords ==
    \A o \in done : \A i \in DOMAIN dirEntries[o] :
        LET all == dirEntries[o]
            d == all[i]
        IN  IF d.next = 0
            THEN EndOf(d) = BlockSize
            ELSE /\ d.next >= d.cur
                 /\ d.next = d.cur <=> d.recLen = 0
                 /\ all[d.next + 1].at = EndOf(d)
                 /\ \A k \in (i + 1)..d.next : all[k].at < EndOf(d)

\* Whoever follows the links from the first entry to the end, or to a link that leads
\* nowhere, finds in the same order what the loop of the walk keeps, which never looks for
\* deleted entries, and meets a name that kills it exactly where the loop does.
LinksAreTheDirectory ==
    \A o \in done :
        LET all == dirEntries[o]
            from[i \in DOMAIN all] ==
                LET d == all[i]
                IN  IF d.name \in LongNames THEN <<Killed>>
                    ELSE IF LeadsNowhere(d) THEN <<>>
                    ELSE KeptName(d) \o (IF d.next = 0 THEN <<>> ELSE from[d.next + 1])
        IN  from[1] = CurrentDirectory

\* Two reads of the same block are exactly equal, in whatever order its entries were
\* delivered: the sort has no ties, and nothing depends on where they were found.
ReadsAgree ==
    \A o, p \in done : ExactlyEqual(dirEntries[o], dirEntries[p])
===============================================================================
