-------------------------------- MODULE Volume --------------------------------
(***************************************************************************)
(* What read_inode sees of an ext2/ext3 volume: the inodes in the tables   *)
(* of its groups, and the directory entries in the first block of every    *)
(* directory.                                                              *)
(*                                                                         *)
(* A volume is a record                                                    *)
(*   accepted   the superblock and the group descriptors pass the          *)
(*              assertions of read_inode and init_consts                   *)
(*   extJournal s_journal_dev # 0: the journal is on another device        *)
(*   journal    s_journal_inum, 0 on an ext2 volume                        *)
(*   logs       the blocks that hold a journal superblock the code accepts *)
(*   faulty     the device can fail to deliver what is read from it        *)
(*   inodes     inode number -> is it a directory, and its block()[0]      *)
(*   dirs       block -> the entries in it, up to a rec_len of 0           *)
(*   data       block -> what it gives as the content of a file (Empty when*)
(*              it does not start with ASCII; FileContent of module        *)
(*              NameSearch)                                                *)
(***************************************************************************)
EXTENDS Naturals, Sequences, FiniteSets

CONSTANTS Blocks,          \* what block()[0] can be, other than 0
          Beyond,          \* those of them that lie beyond the end of the device
          Names,           \* names of directory entries
          Texts,           \* contents of files
          Empty,           \* the empty content, one of Texts
          Dot, DotDot, LostFound,      \* ".", ".." and "lost+found"
          NInodes,         \* number of inodes of a volume
          InodesPerGroup,  \* inodes_per_group_
          BlockBits,       \* 8U * block_size_
          UInt             \* number of values of an unsigned int

ASSUME VolumeAssumption ==
    /\ NInodes \in Nat \ {0, 1} /\ InodesPerGroup \in Nat \ {0} /\ BlockBits \in Nat /\ UInt \in Nat
    \* asserted by read_inode: the inode bitmap has to fit in a single block
    /\ InodesPerGroup <= BlockBits
    /\ BlockBits < UInt
    /\ Empty \in Texts
    /\ 0 \notin Blocks /\ Beyond \subseteq Blocks

Inodes == 1..NInodes
RootInode == 2

Inode == [dir : BOOLEAN, block : Blocks \cup {0}]

\* rec_len is left out: it only says where the next entry starts.
Entry == [inode : 0..NInodes, type : 0..7, name : Names, nameLen : 1..255]

VolumeType == [accepted : BOOLEAN, extJournal : BOOLEAN, journal : 0..NInodes,
               logs : SUBSET Blocks, faulty : BOOLEAN, inodes : [Inodes -> Inode],
               dirs : [Blocks -> SUBSET Entry], data : [Blocks -> Texts]]

\* The group of an inode, and its index there. C divides towards zero, so inode
\* 0 falls in group 0 with index -1, which an unsigned int turns into UInt - 1.
Group(ino) == IF ino = 0 THEN 0 ELSE (ino - 1) \div InodesPerGroup
Groups == {Group(ino) : ino \in Inodes}
Bit(ino) == IF ino = 0 THEN UInt - 1 ELSE (ino - 1) % InodesPerGroup

\* The entries read_current_directory keeps. (It keeps "." too, to print it, and
\* does nothing else with it.)
Kept(entries) == {e \in entries : e.name \notin {Dot, DotDot, LostFound}}

\* `file_type & 2': directories (2), but also character devices (3), sockets (6)
\* and symbolic links (7).
TakenForDirectory(e) == (e.type \div 2) % 2 = 1

\* assert(entry.name_len < 255)
NameTooLong(e) == e.nameLen >= 255
===============================================================================
