---------------------------- MODULE SuperBlockProofs --------------------------
(***************************************************************************)
(* Proofs about SuperBlock: whatever the 32-bit fields of a superblock are,*)
(* the assertions of read_inode let get_inode find every inode in a table. *)
(***************************************************************************)
EXTENDS SuperBlock, BasicLemmas

(***************************************************************************)
(* Arithmetic.                                                             *)
(***************************************************************************)

\* A number below the modulus is its own remainder.
LEMMA SmallRemainder ==
    ASSUME NEW m \in Nat, m < Word
    PROVE  m % Word = m
BY SuperBlockAssumption

\* The words and their halves.
LEMMA WordFacts ==
    /\ Word \in Nat \ {0}
    /\ Half \in Nat \ {0}
    /\ Word = 2 * Half
BY SuperBlockAssumption DEF Half

\* Every number wraps round to an int.
LEMMA AsIntType ==
    ASSUME NEW n \in Int
    PROVE  AsInt(n) \in Ints
<1>1. n % Word \in 0..(Word - 1)
  BY WordFacts
<1>. QED
  BY <1>1, WordFacts DEF AsInt, Ints

\* An int is not changed.
LEMMA AsIntIdentity ==
    ASSUME NEW n \in Ints
    PROVE  AsInt(n) = n
<1>1. CASE n >= 0
  BY <1>1, WordFacts, SmallRemainder DEF AsInt, Ints
<1>2. CASE n < 0
  <2>1. n % Word = n + Word
    BY <1>2, WordFacts DEF Ints
  <2>. QED
    BY <1>2, <2>1, WordFacts DEF AsInt, Ints
<1>. QED
  BY <1>1, <1>2, WordFacts DEF Ints

\* Division of C: the magnitude of the quotient, and its sign.
LEMMA CDivFacts ==
    ASSUME NEW m \in Nat, NEW n \in Int, n # 0
    PROVE  /\ CDiv(m, n) \in Int
           /\ n > 0 => CDiv(m, n) = m \div n
           /\ n < 0 => CDiv(m, n) \in (-m)..0
<1>1. CASE n > 0
  BY <1>1, DivisionFacts DEF CDiv, Magnitude
<1>2. CASE n < 0
  <2>1. m \div (-n) \in 0..m
    BY <1>2, DivisionFacts
  <2>. QED
    BY <1>2, <2>1 DEF CDiv, Magnitude
<1>. QED
  BY <1>1, <1>2

(***************************************************************************)
(* The heart of it: constants that agree with the fields, and pass the     *)
(* assertions, give every inode a group and a place in its table.          *)
(***************************************************************************)

\* The group count that passes is the true quotient, and positive with its divisor:
\* a negative inodes_per_group_ gives no groups at all, and so no inodes.
LEMMA GroupsFacts ==
    ASSUME NEW n \in 1..(Half - 1), NEW p \in Ints, p # 0,
           NEW g \in Nat, g = AsInt(CDiv(n, p)),
           AsUInt(AsUInt(g) * p) = AsUInt(n)
    PROVE  /\ p > 0
           /\ g * p = n
<1>1. n \in Nat /\ p \in Int /\ AsUInt(n) = n
  BY WordFacts, SmallRemainder DEF AsUInt, Ints
<1>2. p > 0
  <2>1. SUFFICES ASSUME p < 0 PROVE FALSE
    BY <1>1
  <2>2. CDiv(n, p) \in (-n)..0
    BY <1>1, <2>1, CDivFacts
  <2>3. AsInt(CDiv(n, p)) = CDiv(n, p)
    BY <2>2, <1>1, WordFacts, AsIntIdentity DEF Ints
  <2>4. g = 0
    BY <2>2, <2>3
  <2>5. AsUInt(AsUInt(g) * p) = 0
    BY <2>4, <1>1, WordFacts, SmallRemainder DEF AsUInt
  <2>. QED
    BY <1>1, <2>5
<1>3. /\ CDiv(n, p) = n \div p
      /\ n \div p \in 0..n
      /\ n = (n \div p) * p + (n % p)
      /\ n % p \in 0..(p - 1)
  BY <1>1, <1>2, CDivFacts, DivisionFacts
<1>4. g = n \div p
  BY <1>1, <1>3, WordFacts, AsIntIdentity DEF Ints
<1>5. g * p \in 0..n
  <2>1. g * p = n - (n % p)
    BY <1>1, <1>3, <1>4
  <2>2. 0 <= g * p
    BY <1>2, <1>1
  <2>. QED
    BY <2>1, <2>2, <1>1, <1>3
<1>6. AsUInt(g) = g
  BY <1>3, <1>4, <1>1, WordFacts, SmallRemainder DEF AsUInt
<1>7. AsUInt(g * p) = g * p
  BY <1>5, <1>1, WordFacts, SmallRemainder DEF AsUInt
<1>. QED
  BY <1>1, <1>2, <1>6, <1>7

\* Every number below g * p has a quotient below g and a remainder below p, and
\* get_inode computes both without wrapping round.
LEMMA SlotFacts ==
    ASSUME NEW c \in Consts, NEW ino \in 1..(c.groups * c.inodesPerGroup),
           c.groups \in Nat, c.inodesPerGroup \in Nat \ {0},
           c.groups * c.inodesPerGroup < Half
    PROVE  /\ GroupOf(ino, c) \in 0..(c.groups - 1)
           /\ BitOf(ino, c) \in 0..(c.inodesPerGroup - 1)
<1> DEFINE g == c.groups
           p == c.inodesPerGroup
           k == ino - 1
           q == k \div p
           r == k % p
<1>1. k \in Nat /\ k < g * p /\ g * p < Half /\ g \in Nat /\ p \in Nat \ {0}
  OBVIOUS
<1>2. q \in 0..k /\ r \in 0..(p - 1) /\ k = q * p + r
  BY <1>1, DivisionFacts
<1>3. GroupOf(ino, c) = q
  BY <1>1, CDivFacts DEF GroupOf
<1>4. BitOf(ino, c) = AsUInt(k - q * p)
  BY <1>3 DEF BitOf
<1> HIDE DEF g, p, k, q, r
<1>5. q < g
  <2>1. SUFFICES ASSUME g <= q PROVE FALSE
    BY <1>1, <1>2
  <2>2. g * p <= q * p
    BY <1>1, <1>2, <2>1, ProductMonotone
  <2>3. q * p <= k
    BY <1>1, <1>2
  <2>4. g * p \in Int /\ q * p \in Int
    BY <1>1, <1>2
  <2>. QED
    BY <1>1, <2>2, <2>3, <2>4
<1>6. AsUInt(k - q * p) = r
  <2>1. k - q * p = r
    BY <1>1, <1>2
  <2>2. r \in Nat /\ r < Word
    BY <1>1, <1>2, WordFacts
  <2>. QED
    BY <2>1, <2>2, SmallRemainder DEF AsUInt
<1>7. q \in 0..(g - 1)
  BY <1>1, <1>2, <1>5
<1>. QED
  BY <1>2, <1>3, <1>4, <1>6, <1>7 DEF g, p

(***************************************************************************)
(* The invariants.                                                         *)
(***************************************************************************)

\* The accessors yield ints.
LEMMA AccessorTypes ==
    ASSUME TypeOK
    PROVE  BlockSize \in Ints /\ InodesPerGroup \in Ints
<1>1. sb.logBlock \in Nat /\ sb.inodesPerGroup \in Int
  BY SuperBlockAssumption DEF TypeOK, SuperBlockType
<1>2. sb.logBlock % WordBits \in 0..(WordBits - 1)
  BY <1>1, DivisionFacts, SuperBlockAssumption
<1>3. 2^(sb.logBlock % WordBits) \in Nat
  BY <1>2, SuperBlockAssumption
<1>4. MinBlockSize * 2^(sb.logBlock % WordBits) \in Int
  BY <1>3, SuperBlockAssumption
<1>. QED
  BY <1>1, <1>4, AsIntType DEF BlockSize, Shifted, InodesPerGroup

\* A quotient of ints is an integer, so what groups() returns is an int.
LEMMA GroupCountType ==
    ASSUME TypeOK, InodesPerGroup # 0
    PROVE  GroupCount \in Ints
<1>1. InodesPerGroup \in Int /\ InodeCount \in Int
  BY AccessorTypes, AsIntType, SuperBlockAssumption, WordFacts
     DEF TypeOK, SuperBlockType, InodeCount, Ints
<1>2. Magnitude(InodeCount) \in Nat /\ Magnitude(InodesPerGroup) \in Nat \ {0}
  BY <1>1 DEF Magnitude
<1>3. Magnitude(InodeCount) \div Magnitude(InodesPerGroup) \in Int
  BY <1>2, DivisionFacts
<1>4. CDiv(InodeCount, InodesPerGroup) \in Int
  BY <1>3 DEF CDiv
<1>. QED
  BY <1>4, AsIntType DEF GroupCount

\* Every variable keeps its type: the constants wrap round, they never grow.
THEOREM TypeCorrect == Spec => []TypeOK
<1>1. Init => TypeOK
  BY WordFacts, SuperBlockAssumption
     DEF Init, TypeOK, Locations, Consts, NoConsts, Ints
<1>2. TypeOK /\ [Next]_vars => TypeOK'
  <2> SUFFICES ASSUME TypeOK, [Next]_vars PROVE TypeOK'
    OBVIOUS
  <2>1. CASE OpenDevice \/ ReadSuperBlock \/ ReadDescriptors
    BY <2>1 DEF TypeOK, OpenDevice, ReadSuperBlock, ReadDescriptors, Checked, Locations
  <2>2. CASE InitConsts
    <3>1. sb' = sb /\ pc' \in Locations
      BY <2>2 DEF InitConsts, Locations
    <3>2. CASE InodesPerGroup = 0 \/ BlockSize = 0
      BY <2>2, <3>1, <3>2 DEF InitConsts, TypeOK
    <3>3. CASE ~(InodesPerGroup = 0 \/ BlockSize = 0)
      <4>1. consts' = [groups |-> GroupCount, blockSize |-> BlockSize,
                       inodesPerGroup |-> InodesPerGroup, inodeSize |-> sb.inodeSize]
        BY <2>2, <3>3 DEF InitConsts
      <4>2. sb.inodeSize \in 0..(Word - 1)
        BY DEF TypeOK, SuperBlockType
      <4>3. consts' \in Consts
        BY <3>3, <4>1, <4>2, AccessorTypes, GroupCountType DEF Consts
      <4>. QED
        BY <3>1, <4>3 DEF TypeOK
    <3>. QED
      BY <3>2, <3>3
  <2>3. CASE CheckSuperBlock
    BY <2>3 DEF TypeOK, CheckSuperBlock, Locations
  <2>4. CASE UNCHANGED vars
    BY <2>4 DEF TypeOK, vars
  <2>. QED
    BY <2>1, <2>2, <2>3, <2>4 DEF Next
<1>. QED
  BY <1>1, <1>2, PTL DEF Spec

\* The constants are computed once, from the superblock that is then checked.
LEMMA ConstsStep == ConstsInv /\ [Next]_vars => ConstsInv'
<1> SUFFICES ASSUME ConstsInv, [Next]_vars PROVE ConstsInv'
  OBVIOUS
<1> USE DEF ConstsInv, GroupCount, InodeCount, InodesPerGroup, Accepted, InodesInGroups, BitmapFits, TableSizesAgree, FragmentSize, Shifted
<1>1. CASE OpenDevice \/ ReadSuperBlock
  BY <1>1 DEF OpenDevice, ReadSuperBlock, Checked
<1>2. CASE InitConsts
  BY <1>2 DEF InitConsts
<1>3. CASE ReadDescriptors
  BY <1>3 DEF ReadDescriptors, Checked
<1>4. CASE CheckSuperBlock
  BY <1>4 DEF CheckSuperBlock
<1>5. CASE UNCHANGED vars
  BY <1>5 DEF vars
<1>. QED
  BY <1>1, <1>2, <1>3, <1>4, <1>5 DEF Next

\* What has been accepted has a slot for each of its inodes.
LEMMA SlotsOfAccepted ==
    ASSUME TypeOK, ConstsInv
    PROVE  InodesHaveSlots
<1> DEFINE n == sb.inodesCount
           p == consts.inodesPerGroup
           g == consts.groups
<1> SUFFICES ASSUME pc = "accepted", n < Half, NEW ino \in 1..n
             PROVE  /\ GroupOf(ino, consts) \in 0..(g - 1)
                    /\ BitOf(ino, consts) \in 0..(p - 1)
                    /\ BitOf(ino, consts) < AsUInt(ByteBits * consts.blockSize)
  BY DEF InodesHaveSlots
<1>1. n \in 1..(Half - 1)
  BY WordFacts DEF TypeOK, SuperBlockType
<1>2. consts \in Consts /\ p \in Ints /\ g \in Ints /\ consts.blockSize \in Ints
  BY DEF TypeOK, Consts
<1>3. InodeCount = n
  BY <1>1, WordFacts, AsIntIdentity DEF InodeCount, Ints
<1>4. p # 0 /\ g \in Nat /\ g = AsInt(CDiv(n, p))
  BY <1>2, <1>3, WordFacts DEF ConstsInv, GroupCount, Ints
<1>5. /\ AsUInt(AsUInt(g) * p) = AsUInt(n)
      /\ p <= AsInt(ByteBits * consts.blockSize)
  BY <1>3 DEF ConstsInv, Accepted, InodesInGroups, BitmapFits, TableSizesAgree
<1>6. p > 0 /\ g * p = n
  BY <1>1, <1>2, <1>4, <1>5, GroupsFacts
<1>7. p \in Nat \ {0}
  BY <1>2, <1>6 DEF Ints
<1>8. /\ GroupOf(ino, consts) \in 0..(g - 1)
      /\ BitOf(ino, consts) \in 0..(p - 1)
  BY <1>1, <1>2, <1>4, <1>6, <1>7, SlotFacts
<1>9. AsInt(ByteBits * consts.blockSize) = AsUInt(ByteBits * consts.blockSize)
  <2>1. AsInt(ByteBits * consts.blockSize) > 0
    <3>1. ByteBits * consts.blockSize \in Int
      BY <1>2, SuperBlockAssumption, WordFacts DEF Ints
    <3>2. AsInt(ByteBits * consts.blockSize) \in Ints
      BY <3>1, AsIntType
    <3>. QED
      BY <3>2, <1>5, <1>7, WordFacts DEF Ints
  <2>2. (ByteBits * consts.blockSize) % Word \in 0..(Word - 1)
    BY <1>2, SuperBlockAssumption, WordFacts DEF Ints
  <2>. QED
    BY <2>1, <2>2, WordFacts DEF AsInt, AsUInt
<1>10. AsUInt(ByteBits * consts.blockSize) \in Int
  BY <1>2, SuperBlockAssumption, WordFacts DEF AsUInt, Ints
<1>. QED
  BY <1>5, <1>7, <1>8, <1>9, <1>10

\* get_inode finds a slot for every inode of a volume that read_inode accepts, for
\* every superblock and every width of the words.
THEOREM SlotsForAll == Spec => []InodesHaveSlots
<1>1. Init => ConstsInv
  BY DEF Init, ConstsInv
<1>2. TypeOK /\ ConstsInv => InodesHaveSlots
  BY SlotsOfAccepted
<1>. QED
  BY <1>1, <1>2, ConstsStep, TypeCorrect, PTL DEF Spec

(***************************************************************************)
(* The inode tables.                                                       *)
(***************************************************************************)

\* What init_consts asserts stays true of the constants.
LEMMA AssertedStep == AssertedInv /\ [Next]_vars => AssertedInv'
<1> SUFFICES ASSUME AssertedInv, [Next]_vars PROVE AssertedInv'
  OBVIOUS
<1> USE DEF AssertedInv, BlockSize, Shifted
<1>1. CASE OpenDevice \/ ReadSuperBlock
  BY <1>1 DEF OpenDevice, ReadSuperBlock, Checked
<1>2. CASE InitConsts
  BY <1>2 DEF InitConsts
<1>3. CASE ReadDescriptors
  BY <1>3 DEF ReadDescriptors, Checked
<1>4. CASE CheckSuperBlock
  BY <1>4 DEF CheckSuperBlock
<1>5. CASE UNCHANGED vars
  BY <1>5 DEF vars
<1>. QED
  BY <1>1, <1>2, <1>3, <1>4, <1>5 DEF Next

\* If rounding a size that is not 0 up and rounding it down give the same number of
\* blocks, the size is that many blocks; and blocks of negative size never agree.
LEMMA RoundingAgrees ==
    ASSUME NEW t \in Nat \ {0}, NEW b \in Int, b # 0,
           CDiv(t - 1, b) + 1 = CDiv(t, b)
    PROVE  t = CDiv(t, b) * b
<1>1. CASE b > 0
  <2> DEFINE q == t \div b
             r == t % b
  <2>1. q \in Nat /\ r \in 0..(b - 1) /\ t = q * b + r
    BY <1>1, DivisionFacts
  <2>2. CDiv(t, b) = q /\ CDiv(t - 1, b) = (t - 1) \div b
    BY <1>1, CDivFacts
  <2> HIDE DEF q, r
  <2>3. r = 0
    <3> SUFFICES ASSUME r >= 1 PROVE FALSE
      BY <2>1
    <3>1. t - 1 = q * b + (r - 1) /\ r - 1 \in 0..(b - 1)
      BY <2>1
    <3>2. (t - 1) \div b = q
      BY <1>1, <2>1, <3>1, Division
    <3>. QED
      BY <2>1, <2>2, <3>2
  <2>. QED
    BY <2>1, <2>2, <2>3
<1>2. CASE b < 0
  <2> DEFINE d == -b
             s == t - 1
             q == t \div d
             p == s \div d
  <2>4. d \in Nat \ {0} /\ s \in Nat /\ s <= t
    BY <1>2
  <2>2. CDiv(t, b) = -q /\ CDiv(t - 1, b) = -p
    BY <1>2 DEF CDiv, Magnitude
  <2> HIDE DEF d, s
  <2>1. q \in Nat /\ p \in Nat
    <3>1. t \in Nat /\ s \in Nat /\ d \in Nat \ {0}
      BY <2>4
    <3>2. q \in 0..t /\ p \in 0..s
      BY <3>1, DivisionFacts, Zenon
    <3> HIDE DEF p, q
    <3>. QED
      BY <3>1, <3>2
  <2>3. p <= q
    BY <2>4, QuotientMonotone
  <2> HIDE DEF p, q
  <2>. QED
    BY <2>1, <2>2, <2>3
<1>. QED
  BY <1>1, <1>2

\* Nor do they agree on a size of 0, unless a block is a single byte.
LEMMA EmptyRounding ==
    ASSUME NEW b \in Int, b # 0, CDiv(0 - 1, b) + 1 = CDiv(0, b)
    PROVE  b = 1
<1>1. CASE b = -1
  <2>1. 1 \div 1 = 1 /\ 0 \div 1 = 0
    OBVIOUS
  <2>. QED
    BY <1>1, <2>1 DEF CDiv, Magnitude
<1>2. CASE b < -1
  <2> DEFINE d == -b
  <2>1. 1 = 0 * d + 1 /\ 0 = 0 * d + 0 /\ d \in Nat \ {0} /\ 1 \in 0..(d - 1) /\ 0 \in 0..(d - 1)
    BY <1>2
  <2>2. 1 \div d = 0 /\ 0 \div d = 0
    BY <2>1, Division
  <2>. QED
    BY <1>2, <2>2 DEF CDiv, Magnitude
<1>3. CASE b > 1
  <2>1. 1 = 0 * b + 1 /\ 0 = 0 * b + 0 /\ b \in Nat \ {0} /\ 1 \in 0..(b - 1) /\ 0 \in 0..(b - 1)
    BY <1>3
  <2>2. 1 \div b = 0 /\ 0 \div b = 0
    BY <2>1, Division
  <2>. QED
    BY <1>3, <2>2 DEF CDiv, Magnitude
<1>. QED
  BY <1>1, <1>2, <1>3

\* The table of an accepted volume that has inodes.
LEMMA TablesOfAccepted ==
    ASSUME TypeOK, ConstsInv, AssertedInv
    PROVE  TablesFillBlocks
<1> DEFINE n == sb.inodesCount
           p == consts.inodesPerGroup
           g == consts.groups
           b == consts.blockSize
           t == TableBytes(consts)
<1> SUFFICES ASSUME pc = "accepted", n \in 1..(Half - 1)
             PROVE  t > 0 /\ t = InodeBlocksPerGroup(consts) * b
  BY DEF TablesFillBlocks
<1>1. consts \in Consts /\ p \in Ints /\ g \in Ints /\ b \in Ints
  BY DEF TypeOK, Consts
<1>2. InodeCount = n
  BY WordFacts, AsIntIdentity DEF InodeCount, Ints
<1>3. p # 0 /\ g \in Nat /\ g = AsInt(CDiv(n, p))
  BY <1>1, <1>2, WordFacts DEF ConstsInv, GroupCount, Ints
<1>4. /\ AsUInt(AsUInt(g) * p) = AsUInt(n)
      /\ CDiv(b, consts.inodeSize) * consts.inodeSize = b
      /\ CDiv(t - 1, b) + 1 = CDiv(t, b)
  BY <1>2 DEF ConstsInv, Accepted, InodesInGroups, TableSizesAgree, InodeBlocksPerGroup
<1>5. p > 0
  BY <1>1, <1>3, <1>4, GroupsFacts
<1>6. /\ b # 0 /\ b \in Int
      /\ consts.inodeSize = SizeofInode /\ SizeofInode \in Nat \ {0}
      /\ t >= 0
  BY <1>1, SuperBlockAssumption, WordFacts DEF AssertedInv, Ints
<1>7. t \in Nat
  <2>1. p * consts.inodeSize \in Int
    BY <1>1, <1>6, WordFacts DEF Ints
  <2>2. t \in Ints
    BY <2>1, AsIntType DEF TableBytes
  <2>. QED
    BY <2>2, <1>6, WordFacts DEF Ints
<1>8. t # 0
  <2> SUFFICES ASSUME t = 0 PROVE FALSE
    OBVIOUS
  <2>1. b = 1
    <3>1. CDiv(0 - 1, b) + 1 = CDiv(0, b)
      BY <1>4
    <3>. QED
      BY <1>6, <3>1, EmptyRounding
  <2>2. SizeofInode = 1
    <3> SUFFICES ASSUME SizeofInode > 1 PROVE FALSE
      BY <1>6
    <3>1. 1 = 0 * SizeofInode + 1 /\ 1 \in 0..(SizeofInode - 1)
      BY <1>6
    <3>2. 1 \div SizeofInode = 0
      BY <1>6, <3>1, Division
    <3>3. CDiv(b, consts.inodeSize) = 0
      BY <1>6, <2>1, <3>2, CDivFacts
    <3>. QED
      BY <1>4, <1>6, <2>1, <3>3
  <2>3. t = p
    BY <1>1, <1>6, <2>2, WordFacts, AsIntIdentity DEF TableBytes, Ints
  <2>. QED
    BY <1>5, <2>3
<1>9. t = CDiv(t, b) * b
  BY <1>4, <1>6, <1>7, <1>8, RoundingAgrees
<1>. QED
  BY <1>7, <1>8, <1>9 DEF InodeBlocksPerGroup

\* The inode table of an accepted volume fills its blocks, for every superblock and
\* every width of the words.
THEOREM TablesForAll == Spec => []TablesFillBlocks
<1>1. Init => ConstsInv /\ AssertedInv
  BY DEF Init, ConstsInv, AssertedInv
<1>2. TypeOK /\ ConstsInv /\ AssertedInv => TablesFillBlocks
  BY TablesOfAccepted
<1>. QED
  BY <1>1, <1>2, ConstsStep, AssertedStep, TypeCorrect, PTL DEF Spec

(***************************************************************************)
(* Well-formed volumes.                                                    *)
(***************************************************************************)

\* Without wrapping round, the accessors yield the fields of a well-formed superblock.
LEMMA WellFormedFacts ==
    ASSUME TypeOK, WellFormed
    PROVE  /\ BlockSize \in 1..(Half - 1) /\ BlockSize % SizeofInode = 0
           /\ FragmentSize = BlockSize
           /\ InodesPerGroup = sb.inodesPerGroup /\ InodesPerGroup \in 1..(Half - 1)
           /\ InodesPerGroup <= ByteBits * BlockSize /\ ByteBits * BlockSize < Half
           /\ InodeCount = sb.inodesCount /\ InodeCount \in 0..(Half - 1)
           /\ GroupCount \in 0..(Half - 1) /\ GroupCount * InodesPerGroup = InodeCount
           /\ InodesPerGroup * SizeofInode \in 1..(Half - 1)
           /\ (InodesPerGroup * SizeofInode) % BlockSize = 0
<1> DEFINE x == 2^sb.logBlock
           bs == MinBlockSize * x
           p == sb.inodesPerGroup
           n == sb.inodesCount
<1>1. /\ sb.logBlock \in 0..(WordBits - 1) /\ sb.logBlock % WordBits = sb.logBlock
      /\ sb.logFrag = sb.logBlock
  <2>1. sb.logBlock \in Nat /\ WordBits \in Nat \ {0}
    BY SuperBlockAssumption DEF TypeOK, SuperBlockType
  <2>2. sb.logBlock < WordBits /\ sb.logFrag = sb.logBlock
    BY Zenon DEF WellFormed
  <2>3. sb.logBlock = 0 * WordBits + sb.logBlock /\ sb.logBlock \in 0..(WordBits - 1)
    BY <2>1, <2>2
  <2>4. sb.logBlock % WordBits = sb.logBlock
    BY <2>1, <2>3, Division
  <2>. QED
    BY <2>2, <2>3, <2>4
<1>2. x \in Nat
  BY <1>1, SuperBlockAssumption
<1>3. /\ ByteBits * MinBlockSize * x < Half
      /\ p \in 1..(ByteBits * bs) /\ p * SizeofInode < Half /\ (p * SizeofInode) % bs = 0
      /\ n < Half /\ n % p = 0 /\ n \in Nat
  BY DEF WellFormed, TypeOK, SuperBlockType
<1>4. BlockSize = AsInt(bs) /\ FragmentSize = AsInt(bs)
  BY <1>1 DEF BlockSize, FragmentSize, Shifted
<1> HIDE DEF x
<1>5. bs \in Nat /\ ByteBits * bs < Half /\ ByteBits * bs >= 1
  BY <1>2, <1>3, SuperBlockAssumption, WordFacts
<1>6. bs % SizeofInode = 0
  <2> DEFINE m == MinBlockSize \div SizeofInode
  <2>1. m \in Nat /\ MinBlockSize = m * SizeofInode
    BY DivisionFacts, SuperBlockAssumption
  <2> HIDE DEF m
  <2>2. bs = (m * x) * SizeofInode + 0 /\ m * x \in Int
    BY <1>2, <2>1, SuperBlockAssumption
  <2> HIDE DEF bs
  <2>. QED
    BY <1>5, <2>2, Division, SuperBlockAssumption
<1> HIDE DEF bs
<1>7. bs # 0 /\ bs <= ByteBits * bs
  <2>1. ByteBits \in Nat \ {0}
    BY SuperBlockAssumption
  <2>2. 1 * bs <= ByteBits * bs
    BY <1>5, <2>1, ProductMonotone
  <2>3. ByteBits * 0 = 0
    BY <2>1
  <2>. QED
    BY <1>5, <2>2, <2>3
<1> DEFINE bits == ByteBits * bs
<1>15. bits \in Nat
  BY <1>5, SuperBlockAssumption
<1>8. bs \in 1..(Half - 1) /\ BlockSize = bs /\ FragmentSize = bs
  <2>1. bs \in 1..(Half - 1)
    <3>1. bits < Half /\ bs <= bits /\ bs \in Nat /\ bs # 0
      BY <1>5, <1>7
    <3> HIDE DEF bits
    <3>. QED
      BY <3>1, <1>15, WordFacts
  <2>2. AsInt(bs) = bs
    BY <2>1, WordFacts, AsIntIdentity DEF Ints
  <2>. QED
    BY <1>4, <2>1, <2>2
<1>9. p \in 1..(Half - 1) /\ InodesPerGroup = p
  <2>1. p \in 1..(Half - 1)
    <3>1. bits < Half /\ p \in 1..bits
      BY <1>3, <1>5
    <3> HIDE DEF bits, p
    <3>. QED
      BY <3>1, <1>15, WordFacts
  <2>2. AsInt(p) = p
    BY <2>1, WordFacts, AsIntIdentity DEF Ints
  <2>. QED
    BY <2>1, <2>2 DEF InodesPerGroup
<1>10. n \in 0..(Half - 1) /\ InodeCount = n
  BY <1>3, WordFacts, AsIntIdentity DEF InodeCount, Ints
<1>11. n \div p \in 0..n /\ n = (n \div p) * p
  <2>1. n \in Nat /\ p \in Nat \ {0} /\ n % p = 0
    BY <1>3, <1>9, WordFacts
  <2> HIDE DEF n, p
  <2>2. n \div p \in 0..n /\ n = (n \div p) * p + (n % p)
    BY <2>1, DivisionFacts
  <2> DEFINE q == n \div p
  <2>3. q \in Int /\ n = q * p + 0
    BY <2>1, <2>2
  <2> HIDE DEF q
  <2>4. n = q * p
    BY <2>1, <2>3
  <2>. QED
    BY <2>2, <2>4 DEF q
<1>12. GroupCount = n \div p
  <2>1. CDiv(n, p) = n \div p
    BY <1>3, <1>9, CDivFacts
  <2>. QED
    BY <1>9, <1>10, <1>11, <2>1, WordFacts, AsIntIdentity DEF GroupCount, Ints
<1>13. GroupCount \in 0..(Half - 1) /\ GroupCount * p = n
  <2>1. GroupCount \in 0..n /\ GroupCount * p = n
    BY <1>11, <1>12
  <2> HIDE DEF n
  <2>. QED
    BY <1>10, <2>1, WordFacts
<1>14. p * SizeofInode \in 1..(Half - 1)
  <2>1. 1 * SizeofInode <= p * SizeofInode
    BY <1>9, SuperBlockAssumption, ProductMonotone
  <2>. QED
    BY <1>3, <1>9, <2>1, SuperBlockAssumption, WordFacts
<1>. QED
  BY <1>3, <1>5, <1>6, <1>8, <1>9, <1>10, <1>13, <1>14

\* Rounding up and rounding down agree on a whole number of blocks.
LEMMA WholeBlocks ==
    ASSUME NEW t \in Nat \ {0}, NEW b \in Nat \ {0}, t % b = 0
    PROVE  CDiv(t - 1, b) + 1 = CDiv(t, b)
<1> DEFINE q == t \div b
<1>1. q \in Nat /\ t = q * b
  BY DivisionFacts
<1>2. CDiv(t, b) = q /\ CDiv(t - 1, b) = (t - 1) \div b
  BY CDivFacts
<1> HIDE DEF q
<1>3. t - 1 = (q - 1) * b + (b - 1) /\ q - 1 \in Int /\ b - 1 \in 0..(b - 1)
  BY <1>1
<1>4. (t - 1) \div b = q - 1
  BY <1>3, Division
<1>. QED
  BY <1>1, <1>2, <1>4

\* A well-formed volume is not refused by init_consts.
LEMMA WellFormedConsts ==
    ASSUME TypeOK, WellFormed, InitConsts
    PROVE  pc' # "died"
<1>1. /\ BlockSize # 0 /\ InodesPerGroup # 0 /\ GroupCount >= 0
      /\ InodesPerGroup * SizeofInode \in 1..(Half - 1)
  BY WellFormedFacts, WordFacts
<1>2. sb.inodeSize = SizeofInode /\ sb.desc
  BY DEF WellFormed
<1>3. consts' = [groups |-> GroupCount, blockSize |-> BlockSize,
                 inodesPerGroup |-> InodesPerGroup, inodeSize |-> sb.inodeSize]
  BY <1>1 DEF InitConsts
<1>4. TableBytes(consts') >= 0
  <2>1. TableBytes(consts') = AsInt(InodesPerGroup * SizeofInode)
    BY <1>2, <1>3 DEF TableBytes
  <2>. QED
    BY <1>1, <2>1, AsIntIdentity, WordFacts DEF Ints
<1>. QED
  BY <1>1, <1>2, <1>4 DEF InitConsts

\* Nor by the assertions behind it.
LEMMA WellFormedAccepted ==
    ASSUME TypeOK, WellFormed, ConstsInv, AssertedInv, pc = "asserts"
    PROVE  Accepted(consts)
<1> DEFINE p == InodesPerGroup
           t == p * SizeofInode
           b == BlockSize
<1>1. /\ consts.groups = GroupCount /\ consts.inodesPerGroup = p
      /\ consts.blockSize = b /\ consts.inodeSize = SizeofInode
  BY DEF ConstsInv, AssertedInv
<1>2. /\ b \in 1..(Half - 1) /\ b % SizeofInode = 0 /\ FragmentSize = b
      /\ p \in 1..(Half - 1) /\ p <= ByteBits * b /\ ByteBits * b < Half
      /\ InodeCount \in 0..(Half - 1)
      /\ GroupCount \in 0..(Half - 1) /\ GroupCount * p = InodeCount
      /\ t \in 1..(Half - 1) /\ t % b = 0
  BY WellFormedFacts
<1> HIDE DEF p, t, b
<1>3. InodesInGroups(consts)
  <2>1. AsUInt(GroupCount) = GroupCount /\ AsUInt(InodeCount) = InodeCount
    BY <1>2, WordFacts, SmallRemainder DEF AsUInt
  <2>. QED
    BY <1>1, <1>2, <2>1 DEF InodesInGroups, p
<1>4. BitmapFits(consts)
  <2>1. ByteBits * b \in Ints
    BY <1>2, SuperBlockAssumption, WordFacts DEF Ints
  <2>2. AsInt(ByteBits * b) = ByteBits * b
    BY <2>1, AsIntIdentity
  <2>. QED
    BY <1>1, <1>2, <2>2 DEF BitmapFits
<1>5. CDiv(consts.blockSize, consts.inodeSize) * consts.inodeSize = consts.blockSize
  <2>1. b \in Nat /\ SizeofInode \in Nat \ {0}
    BY <1>2, SuperBlockAssumption
  <2>2. CDiv(b, SizeofInode) = b \div SizeofInode
    BY <2>1, CDivFacts
  <2>3. b = (b \div SizeofInode) * SizeofInode + (b % SizeofInode) /\ b \div SizeofInode \in 0..b
    BY <2>1, DivisionFacts
  <2>. QED
    BY <1>1, <1>2, <2>1, <2>2, <2>3
<1>6. TableSizesAgree(consts)
  <2>1. TableBytes(consts) = t
    <3>1. TableBytes(consts) = AsInt(t)
      BY <1>1 DEF TableBytes, t
    <3>. QED
      BY <1>2, <3>1, AsIntIdentity, WordFacts DEF Ints
  <2>2. CDiv(t - 1, b) + 1 = CDiv(t, b)
    BY <1>2, WholeBlocks, WordFacts
  <2>. QED
    BY <1>1, <2>1, <2>2 DEF TableSizesAgree, InodeBlocksPerGroup
<1>7. sb.linux
  BY DEF WellFormed
<1>. QED
  BY <1>1, <1>2, <1>3, <1>4, <1>5, <1>6, <1>7 DEF Accepted

\* The assertions refuse no well-formed volume, whatever the sizes are.
THEOREM WellFormedForAll == Spec => WellFormedPass
<1>1. Init => ConstsInv /\ AssertedInv
  BY DEF Init, ConstsInv, AssertedInv
<1>2. TypeOK /\ ConstsInv /\ AssertedInv /\ [Next]_vars
        => [WellFormed /\ pc \in {"consts", "asserts"} => pc' # "died"]_vars
  <2> SUFFICES ASSUME TypeOK, ConstsInv, AssertedInv, Next,
                      WellFormed, pc \in {"consts", "asserts"}
               PROVE  pc' # "died"
    BY DEF vars
  <2>1. CASE InitConsts
    BY <2>1, WellFormedConsts
  <2>2. CASE CheckSuperBlock
    <3>1. pc = "asserts"
      BY <2>2 DEF CheckSuperBlock
    <3>. QED
      BY <2>2, <3>1, WellFormedAccepted DEF CheckSuperBlock
  <2>3. ~OpenDevice /\ ~ReadSuperBlock /\ ~ReadDescriptors
    BY DEF OpenDevice, ReadSuperBlock, ReadDescriptors, Checked
  <2>. QED
    BY <2>1, <2>2, <2>3 DEF Next
<1>. QED
  BY <1>1, <1>2, ConstsStep, AssertedStep, TypeCorrect, PTL DEF Spec, WellFormedPass
===============================================================================
