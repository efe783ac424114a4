------------------------------- MODULE SuperBlock -----------------------------
(***************************************************************************)
(* read_inode up to the journal (src/read_inode.cpp 85-117) and init_consts:*)
(* open the device, read the superblock, compute the constants the rest of *)
(* the program works with, read the group descriptors, and only then assert*)
(* that this is a volume the program can read.                             *)
(*                                                                         *)
(* The fields of a superblock are unsigned 32-bit numbers, the constants   *)
(* are ints; both wrap round at Word.  A superblock is a record            *)
(*   inodesCount, inodesPerGroup, inodeSize   the fields of these names    *)
(*   logBlock, logFrag   the shifts of block and fragment size             *)
(*   desc                its descriptors have the size of ext3_group_desc  *)
(*   linux               magic number, creator and block group number are  *)
(*                       those of a first superblock of an ext2/3 volume   *)
(***************************************************************************)
EXTENDS Integers

CONSTANTS SuperBlocks,   \* what the device may hold where a superblock should be
          Word,          \* number of values of a 32-bit word
          WordBits,      \* its bits: a shift count counts modulo this on x86
          MinBlockSize,  \* EXT2_MIN_BLOCK_SIZE, and SUPER_BLOCK_OFFSET
          ByteBits,      \* bits of a byte
          SizeofInode    \* sizeof(Inode)

VARIABLES sb,            \* super_block
          pc,            \* where read_inode is
          consts         \* what init_consts assigned

vars == <<sb, pc, consts>>

SuperBlockType ==
    [inodesCount : 0..(Word - 1), inodesPerGroup : 0..(Word - 1), inodeSize : 0..(Word - 1),
     logBlock : 0..(Word - 1), logFrag : 0..(Word - 1), desc : BOOLEAN, linux : BOOLEAN]

ASSUME SuperBlockAssumption ==
    /\ Word \in Nat \ {0} /\ Word % 2 = 0
    /\ WordBits \in Nat \ {0}
    /\ \A k \in 0..(WordBits - 1) : 2^k \in Nat
    /\ MinBlockSize \in Nat \ {0}
    /\ ByteBits \in Nat \ {0} /\ SizeofInode \in Nat \ {0}
    /\ MinBlockSize % SizeofInode = 0
    /\ SuperBlocks \subseteq SuperBlockType

-------------------------------------------------------------------------------
(* Arithmetic of C. *)

Half == Word \div 2

\* The int, or the unsigned int, that a result becomes.
AsInt(n) == IF n % Word < Half THEN n % Word ELSE (n % Word) - Word
AsUInt(n) == n % Word

Ints == (-Half)..(Half - 1)

Magnitude(n) == IF n < 0 THEN -n ELSE n

\* Division towards zero.
CDiv(m, n) ==
    LET q == Magnitude(m) \div Magnitude(n)
    IN  IF (m < 0) = (n < 0) THEN q ELSE -q

-------------------------------------------------------------------------------
(* The accessors of ostream.h, and get_inode's arithmetic. *)

(* Definitions named ..._Mutant are what a plausible mistake would make of the
   definition that follows them. Nothing here uses them. *)

\* Without the conversion to int.
Shifted_Mutant(log) == MinBlockSize * 2^(log % WordBits)

Shifted(log) == AsInt(MinBlockSize * 2^(log % WordBits))

BlockSize == Shifted(sb.logBlock)
FragmentSize == Shifted(sb.logFrag)
InodesPerGroup == AsInt(sb.inodesPerGroup)
InodeCount == AsInt(sb.inodesCount)
GroupCount == AsInt(CDiv(InodeCount, InodesPerGroup))

\* Bytes of the inode table of a group, and the blocks they should take.
TableBytes(c) == AsInt(c.inodesPerGroup * c.inodeSize)
InodeBlocksPerGroup(c) == CDiv(TableBytes(c), c.blockSize)

GroupOf(ino, c) == CDiv(ino - 1, c.inodesPerGroup)
BitOf(ino, c) == AsUInt(ino - 1 - GroupOf(ino, c) * c.inodesPerGroup)

-------------------------------------------------------------------------------
NoConsts == [groups |-> 0, blockSize |-> 0, inodesPerGroup |-> 0, inodeSize |-> 0]
Consts == [groups : Ints, blockSize : Ints, inodesPerGroup : Ints, inodeSize : 0..(Word - 1)]

Locations == {"open", "superblock", "consts", "descriptors", "asserts", "accepted", "died"}

TypeOK ==
    /\ sb \in SuperBlockType
    /\ pc \in Locations
    /\ consts \in Consts

Init ==
    /\ sb \in SuperBlocks
    /\ pc = "open"
    /\ consts = NoConsts

\* An asserted open, seek or read: it succeeds, or the program dies.
Checked(from, to) ==
    /\ pc = from
    /\ pc' \in {to, "died"}

OpenDevice == Checked("open", "superblock") /\ UNCHANGED <<sb, consts>>

ReadSuperBlock == Checked("superblock", "consts") /\ UNCHANGED <<sb, consts>>

\* init_consts up to its reads. It divides and allocates before anything has been
\* said about the volume: a division by zero, an array of negative length or one of
\* its own assertions ends the program here.
InitConsts ==
    /\ pc = "consts"
    /\ IF InodesPerGroup = 0 \/ BlockSize = 0
       THEN pc' = "died" /\ UNCHANGED consts
       ELSE /\ consts' = [groups |-> GroupCount, blockSize |-> BlockSize,
                          inodesPerGroup |-> InodesPerGroup, inodeSize |-> sb.inodeSize]
            /\ pc' = IF /\ GroupCount >= 0
                        /\ sb.inodeSize = SizeofInode
                        /\ TableBytes(consts') >= 0
                        /\ sb.desc
                     THEN "descriptors" ELSE "died"
    /\ UNCHANGED sb

ReadDescriptors == Checked("descriptors", "asserts") /\ UNCHANGED <<sb, consts>>

\* Not asserted.
InodesInGroups_Mutant(c) == TRUE
InodesInGroups(c) == AsUInt(AsUInt(c.groups) * InodesPerGroup) = AsUInt(InodeCount)

\* An inode bitmap that is quite full does not fit.
BitmapFits_Mutant(c) == c.inodesPerGroup < AsInt(ByteBits * c.blockSize)
BitmapFits(c) == c.inodesPerGroup <= AsInt(ByteBits * c.blockSize)

\* Not asserted.
TableSizesAgree_Mutant(c) == TRUE
TableSizesAgree(c) == CDiv(TableBytes(c) - 1, c.blockSize) + 1 = InodeBlocksPerGroup(c)

\* The assertions of read_inode on the superblock.
Accepted(c) ==
    /\ sb.linux
    /\ InodesInGroups(c)
    /\ c.blockSize = FragmentSize
    /\ BitmapFits(c)
    /\ CDiv(c.blockSize, c.inodeSize) * c.inodeSize = c.blockSize
    /\ TableSizesAgree(c)

CheckSuperBlock ==
    /\ pc = "asserts"
    /\ pc' = IF Accepted(consts) THEN "accepted" ELSE "died"
    /\ UNCHANGED <<sb, consts>>

Next ==
    \/ OpenDevice
    \/ ReadSuperBlock
    \/ InitConsts
    \/ ReadDescriptors
    \/ CheckSuperBlock

Spec == Init /\ [][Next]_vars

-------------------------------------------------------------------------------
(* Properties. *)

\* On an accepted volume of fewer inodes than an int can count, get_inode finds a
\* slot for every inode: its group is one of groups_, its index is inside the table
\* that load_inodes reads for that group, and get_inode's assertion holds. Nothing
\* in get_inode checks the first two: they rest on the assertions of read_inode
\* being the right ones, in their mixture of signed and unsigned arithmetic.
InodesHaveSlots ==
    pc = "accepted" /\ sb.inodesCount < Half =>
        \A ino \in 1..sb.inodesCount :
            /\ GroupOf(ino, consts) \in 0..(consts.groups - 1)
            /\ BitOf(ino, consts) \in 0..(consts.inodesPerGroup - 1)
            /\ BitOf(ino, consts) < AsUInt(ByteBits * consts.blockSize)

\* The inode table of a group fills its blocks, so that what load_inodes reads is
\* the table and not also the blocks behind it.
TablesFillBlocks ==
    pc = "accepted" /\ sb.inodesCount \in 1..(Half - 1) =>
        /\ TableBytes(consts) > 0
        /\ TableBytes(consts) = InodeBlocksPerGroup(consts) * consts.blockSize

\* What mke2fs makes with inodes of SizeofInode bytes, in sizes that an int holds.
WellFormed ==
    /\ sb.linux /\ sb.desc
    /\ sb.inodeSize = SizeofInode
    /\ sb.logFrag = sb.logBlock
    /\ sb.logBlock < WordBits /\ ByteBits * MinBlockSize * 2^sb.logBlock < Half
    /\ LET bs == MinBlockSize * 2^sb.logBlock
       IN  /\ sb.inodesPerGroup \in 1..(ByteBits * bs)
           /\ sb.inodesPerGroup * SizeofInode < Half
           /\ (sb.inodesPerGroup * SizeofInode) % bs = 0
    /\ sb.inodesCount < Half
    /\ sb.inodesCount % sb.inodesPerGroup = 0

\* The assertions and the arithmetic before them refuse no volume that is well
\* formed: it can only die of a read that fails.
WellFormedPass ==
    [][WellFormed /\ pc \in {"consts", "asserts"} => pc' # "died"]_vars

-------------------------------------------------------------------------------
\* The inductive invariant behind InodesHaveSlots: the constants are those of the
\* superblock that is checked.
ConstsInv ==
    /\ pc \in {"descriptors", "asserts", "accepted"} =>
          /\ consts.groups = GroupCount /\ consts.groups >= 0
          /\ consts.inodesPerGroup = InodesPerGroup /\ consts.inodesPerGroup # 0
    /\ pc = "accepted" => Accepted(consts)

\* The same behind TablesFillBlocks and WellFormedPass: what init_consts asserted of
\* them before anything was read with them.
AssertedInv ==
    pc \in {"descriptors", "asserts", "accepted"} =>
        /\ consts.blockSize = BlockSize /\ consts.blockSize # 0
        /\ consts.inodeSize = SizeofInode
        /\ TableBytes(consts) >= 0
===============================================================================
