-------------------------- MODULE BlocknrVectorProofs -------------------------
(***************************************************************************)
(* Proofs about BlocknrVector: what survives the encoding of a block in a  *)
(* size_t, and that the tagged union and its arrays always fit together,   *)
(* for every word size and every sequence of calls.                        *)
(***************************************************************************)
EXTENDS BlocknrVector, BasicLemmas, FiniteSetTheorems

(***************************************************************************)
(* Arithmetic.                                                             *)
(***************************************************************************)

\* The sizes, and what divides what.
LEMMA Sizes ==
    /\ Quarter \in Nat \ {0} /\ Half \in Nat \ {0} /\ Word \in Nat \ {0}
    /\ SizeWords \in Nat \ {0} /\ SizeWord \in Nat \ {0}
    /\ Half = 2 * Quarter /\ Word = 2 * Half
    /\ SizeWord = SizeWords * (2 * Word)
    /\ SizeWord >= 2 * Word
BY BlocknrVectorAssumption DEF Half, Word, SizeWord

(***************************************************************************)
(* One block in a size_t.                                                  *)
(***************************************************************************)

\* A block below Half is its own remainder, another one has its top bit taken off.
LEMMA LowBits ==
    ASSUME NEW b \in Blocknrs
    PROVE  /\ b % Half \in 0..(Half - 1)
           /\ b < Half => b % Half = b
           /\ b >= Half => b % Half = b - Half
<1>1. CASE b < Half
  BY <1>1, Sizes, Division, b = 0 * Half + b DEF Blocknrs
<1>2. CASE b >= Half
  BY <1>2, Sizes, Division, b = 1 * Half + (b - Half) DEF Blocknrs
<1>. QED
  BY <1>1, <1>2, Sizes DEF Blocknrs

\* A block below Quarter is its own remainder, too.
LEMMA SmallLowBits ==
    ASSUME NEW b \in Blocknrs, ~(b >= Quarter)
    PROVE  b % Half = b /\ b % Half < Quarter
<1>1. b \in Int /\ b < Quarter /\ b < Half
  BY Sizes DEF Blocknrs
<1>. QED
  BY <1>1, LowBits

\* Taking the low bits a second time changes nothing.
LEMMA LowBitsTwice ==
    ASSUME NEW b \in Blocknrs
    PROVE  (b % Half) % Half = b % Half
<1>1. b % Half \in Blocknrs /\ b % Half < Half
  BY LowBits, Sizes DEF Blocknrs
<1>. QED
  BY <1>1, LowBits

\* The shift of a word by one.
LEMMA Shift ==
    ASSUME NEW b \in Blocknrs
    PROVE  (2 * b) % Word = 2 * (b % Half)
<1>1. CASE b < Half
  <2>1. 2 * b = 0 * Word + 2 * b /\ 2 * b \in 0..(Word - 1)
    BY <1>1, Sizes DEF Blocknrs
  <2>2. (2 * b) % Word = 2 * b
    BY <2>1, Sizes, Division DEF Blocknrs
  <2>3. b % Half = b
    BY <1>1, LowBits
  <2>. QED
    BY <2>2, <2>3
<1>2. CASE b >= Half
  <2>1. 2 * b = 1 * Word + 2 * (b - Half) /\ 2 * (b - Half) \in 0..(Word - 1)
    BY <1>2, Sizes DEF Blocknrs
  <2>2. (2 * b) % Word = 2 * (b - Half)
    BY <2>1, Sizes, Division DEF Blocknrs
  <2>3. b % Half = b - Half
    BY <1>2, LowBits
  <2>. QED
    BY <2>2, <2>3
<1>. QED
  BY <1>1, <1>2, Sizes DEF Blocknrs

\* An odd number and its half.
LEMMA OddNumber ==
    ASSUME NEW n \in Int
    PROVE  /\ (2 * n + 1) % 2 = 1
           /\ (2 * n + 1) \div 2 = n
OBVIOUS

\* An odd number is neither 0 nor even.
LEMMA Odd ==
    ASSUME NEW n \in Int, n % 2 = 1
    PROVE  n # 0 /\ ~(n % 2 = 0)
OBVIOUS

\* What push_back and operator= store is an odd number, and gives the lower 31 bits of
\* the block back: a block of 2^31 or more is another one afterwards.
THEOREM EncodeFacts ==
    ASSUME NEW b \in Blocknrs
    PROVE  /\ Encode(b) \in 0..(SizeWord - 1)
           /\ Encode(b) % 2 = 1
           /\ Decode(Encode(b)) = b % Half
<1>1. Encode(b) = 2 * (b % Half) + 1 /\ b % Half \in 0..(Half - 1)
  BY Shift, LowBits DEF Encode
<1>2. Encode(b) \in 0..(SizeWord - 1)
  BY <1>1, Sizes
<1>3. Encode(b) % 2 = 1 /\ Encode(b) \div 2 = b % Half
  BY <1>1, OddNumber
<1>4. (b % Half) % Word = b % Half
  BY <1>1, Sizes, Division, b % Half = 0 * Word + (b % Half)
<1>. QED
  BY <1>2, <1>3, <1>4 DEF Decode

\* What remove stores is an odd number, too. It gives back a block with the same lower
\* 31 bits, and below 2^30 the same block; from there on the sign that is shifted in
\* makes a difference.
THEOREM EncodeLastFacts ==
    ASSUME NEW b \in Blocknrs
    PROVE  /\ EncodeLast(b) \in 0..(SizeWord - 1)
           /\ EncodeLast(b) % 2 = 1
           /\ Decode(EncodeLast(b)) \in Blocknrs
           /\ Decode(EncodeLast(b)) % Half = b % Half
           /\ b < Quarter => Decode(EncodeLast(b)) = b
<1> DEFINE low == b % Half
<1>1. low \in 0..(Half - 1) /\ (2 * b) % Word = 2 * low
  BY Shift, LowBits
<1> HIDE DEF low
<1>2. CASE low < Quarter
  <2>1. AsInt(2 * b) = 2 * low
    BY <1>1, <1>2, Sizes DEF AsInt
  <2>2. EncodeLast(b) = 2 * low + 1
    <3>1. 2 * low + 1 = 0 * SizeWord + (2 * low + 1) /\ 2 * low + 1 \in 0..(SizeWord - 1)
      BY <1>1, <1>2, Sizes
    <3>. QED
      BY <2>1, <3>1, Sizes, Division DEF EncodeLast
  <2>3. EncodeLast(b) % 2 = 1 /\ EncodeLast(b) \div 2 = low
    BY <1>1, <2>2, OddNumber
  <2>4. Decode(EncodeLast(b)) = low
    <3>1. low = 0 * Word + low /\ low \in 0..(Word - 1)
      BY <1>1, Sizes
    <3>. QED
      BY <2>3, <3>1, Sizes, Division DEF Decode
  <2>5. low \in Blocknrs /\ low % Half = low
    <3>1. low \in Blocknrs /\ low < Half
      BY <1>1, Sizes DEF Blocknrs
    <3>. QED
      BY <3>1, LowBits
  <2>6. b < Quarter => b = low
    BY LowBits, Sizes DEF low, Blocknrs
  <2>. QED
    BY <1>1, <2>2, <2>3, <2>4, <2>5, <2>6, Sizes DEF low
<1>3. CASE low >= Quarter
  <2>1. AsInt(2 * b) = 2 * low - Word
    BY <1>1, <1>3, Sizes DEF AsInt
  <2>2. EncodeLast(b) = 2 * low + 1 - Word + SizeWord
    <3> DEFINE n == AsInt(2 * b) + 1
               r == 2 * low + 1 - Word + SizeWord
    <3>1. n \in Int /\ r \in 0..(SizeWord - 1) /\ n = (-1) * SizeWord + r
      BY <1>1, <1>3, <2>1, Sizes
    <3> HIDE DEF n, r
    <3>2. n % SizeWord = r
      BY <3>1, Sizes, Division
    <3>. QED
      BY <3>2 DEF EncodeLast, n, r
  <2>3. EncodeLast(b) % 2 = 1 /\ EncodeLast(b) \div 2 = low - Half + SizeWords * Word
    <3>1. SizeWords * Word \in Int /\ SizeWord = 2 * (SizeWords * Word)
      BY Sizes
    <3>2. EncodeLast(b) = 2 * (low - Half + SizeWords * Word) + 1
      BY <1>1, <2>2, <3>1, Sizes
    <3>. QED
      BY <1>1, <3>1, <3>2, Sizes, OddNumber
  <2>4. Decode(EncodeLast(b)) = low + Half
    <3> DEFINE n == EncodeLast(b) \div 2
               k == SizeWords - 1
               r == low + Half
    <3>1. n \in Int /\ k \in Int /\ r \in 0..(Word - 1) /\ n = k * Word + r
      BY <1>1, <2>3, Sizes
    <3> HIDE DEF n, k, r
    <3>2. n % Word = r
      BY <3>1, Sizes, Division
    <3>. QED
      BY <3>2 DEF Decode, n, r
  <2>5. low + Half \in Blocknrs /\ (low + Half) % Half = low
    <3>1. low + Half \in Blocknrs /\ low + Half >= Half /\ (low + Half) - Half = low
      BY <1>1, Sizes DEF Blocknrs
    <3>. QED
      BY <3>1, LowBits
  <2>6. b >= Quarter
    BY <1>3, LowBits, Sizes DEF low, Blocknrs
  <2>. QED
    BY <1>1, <1>3, <2>2, <2>3, <2>4, <2>5, <2>6, Sizes DEF low, Blocknrs
<1>. QED
  BY <1>1, <1>2, <1>3, Sizes

(***************************************************************************)
(* The union and its arrays.                                               *)
(***************************************************************************)

\* Everything an action can change is of its type.
HeapOK == DOMAIN heap \subseteq Pointers /\ \A p \in DOMAIN heap : IsArray(heap[p])

\* What a vector is, and the list in it.
VectorShape ==
    /\ blocknr \in Pointers /\ blocknr \in DOMAIN heap
    /\ Size \in 2..MaxLength
    /\ heap[blocknr][0] = Size
    /\ \E n \in 1..MaxLength : Size <= n /\ heap[blocknr] \in [0..n -> Blocknrs]
    /\ Blocks \in Seq(Blocknrs) /\ Len(Blocks) = Size
    /\ \A i \in 1..Size : Blocks[i] = heap[blocknr][i]

\* The list of a vector is in its array, after the length.
LEMMA VectorFacts == TypeOK /\ Sound /\ ~Empty /\ IsVector => VectorShape
<1> SUFFICES ASSUME TypeOK, Sound, ~Empty, IsVector PROVE VectorShape
  OBVIOUS
<1>1. blocknr \in Pointers /\ blocknr \in DOMAIN heap /\ IsArray(heap[blocknr])
  BY DEF TypeOK, Sound
<1>2. Size = heap[blocknr][0] /\ Size \in 2..MaxLength /\ Size \in DOMAIN heap[blocknr]
  BY DEF Sound, Size
<1>3. PICK n \in 1..MaxLength : heap[blocknr] \in [0..n -> Blocknrs]
  BY <1>1 DEF IsArray
<1>4. Size \in Nat /\ Size <= n
  BY <1>2, <1>3, BlocknrVectorAssumption
<1>5. \A i \in 1..Size : Entry(i - 1) = heap[blocknr][i] /\ heap[blocknr][i] \in Blocknrs
  BY <1>3, <1>4 DEF Entry, FirstEntry
<1>6. Blocks = [i \in 1..Size |-> Entry(i - 1)]
  BY DEF Blocks
<1>7. Blocks \in [1..Size -> Blocknrs]
  BY <1>5, <1>6
<1>8. Blocks \in Seq(Blocknrs) /\ Len(Blocks) = Size
  BY <1>4, <1>7
<1>. QED
  BY <1>1, <1>2, <1>3, <1>4, <1>5, <1>6, <1>8 DEF VectorShape

\* The same in the next state.
LEMMA VectorFactsNext == (TypeOK /\ Sound /\ ~Empty /\ IsVector)' => VectorShape'
BY VectorFacts, PTL

\* The list of an odd number is the block it encodes.
LEMMA SingleFacts ==
    TypeOK /\ ~IsVector =>
        /\ ~Empty
        /\ Decode(blocknr) \in Blocknrs
        /\ Blocks = <<Decode(blocknr)>>
<1> SUFFICES ASSUME TypeOK, ~IsVector
             PROVE  ~Empty /\ Decode(blocknr) \in Blocknrs /\ Blocks = <<Decode(blocknr)>>
  OBVIOUS
<1>1. ~Empty
  BY DEF Empty, IsVector
<1>2. blocknr \div 2 \in Int
  BY Sizes DEF TypeOK
<1>3. Decode(blocknr) \in Blocknrs
  BY <1>2, Sizes DEF Decode, Blocknrs
<1>4. Size = 1 /\ Entry(0) = Decode(blocknr)
  BY DEF Size, Entry, FirstEntry
<1>5. Blocks = <<Decode(blocknr)>>
  BY <1>1, <1>4 DEF Blocks
<1>. QED
  BY <1>1, <1>3, <1>5

\* The same in the next state.
LEMMA SingleFactsNext ==
    (TypeOK /\ ~IsVector)' =>
        (~Empty /\ Decode(blocknr) \in Blocknrs /\ Blocks = <<Decode(blocknr)>>)'
BY SingleFacts, PTL

\* The list is one of blocks.
LEMMA BlocksType == TypeOK /\ Sound => Blocks \in Seq(Blocknrs)
<1> SUFFICES ASSUME TypeOK, Sound PROVE Blocks \in Seq(Blocknrs)
  OBVIOUS
<1>1. CASE Empty
  BY <1>1 DEF Blocks
<1>2. CASE ~Empty /\ IsVector
  BY <1>2, VectorFacts DEF VectorShape
<1>3. CASE ~IsVector
  <2>1. Decode(blocknr) \in Blocknrs /\ Blocks = <<Decode(blocknr)>>
    BY <1>3, SingleFacts
  <2>. QED
    BY <2>1
<1>. QED
  BY <1>1, <1>2, <1>3

\* The same in the next state.
LEMMA BlocksTypeNext == (TypeOK /\ Sound)' => (Blocks \in Seq(Blocknrs))'
BY BlocksType, PTL

\* A sequence of at least two blocks is an array for Replace.
LEMMA ArrayFacts ==
    ASSUME NEW vec \in Seq(Blocknrs), Len(vec) \in 1..MaxLength
    PROVE  /\ IsArray(Array(vec))
           /\ Array(vec)[0] = Len(vec)
           /\ Len(vec) \in DOMAIN Array(vec)
           /\ \A i \in 1..Len(vec) : Array(vec)[i] = vec[i]
<1>1. Len(vec) \in Blocknrs
  BY BlocknrVectorAssumption, Sizes DEF Blocknrs
<1>2. Array(vec) \in [0..Len(vec) -> Blocknrs]
  BY <1>1 DEF Array
<1>. QED
  BY <1>2 DEF Array, IsArray

\* A pointer is neither 0 nor odd.
LEMMA PointerFacts ==
    ASSUME NEW p \in Pointers
    PROVE  p \in 0..(SizeWord - 1) /\ p # 0 /\ p % 2 = 0
BY BlocknrVectorAssumption

\* What new and delete [] do when all that is allocated belongs to the object: the new
\* array is the only one.
LEMMA ReplaceFacts ==
    ASSUME TypeOK, Sound,
           NEW vec \in Seq(Blocknrs), Len(vec) \in 2..MaxLength,
           NEW p \in Pointers, blocknr' = p, Replace(Old, p, Array(vec))
    PROVE  /\ blocknr' \in 0..(SizeWord - 1) /\ HeapOK' /\ Sound'
           /\ ~Empty' /\ IsVector'
           /\ heap'[blocknr'] = Array(vec)
<1>1. DOMAIN heap \ Old = {}
  BY DEF Sound, Old
<1>2. heap' = [x \in {p} |-> Array(vec)]
  BY <1>1 DEF Replace
<1>3. ~Empty' /\ IsVector' /\ blocknr' \in 0..(SizeWord - 1)
  BY PointerFacts DEF Empty, IsVector
<1>4. IsArray(Array(vec)) /\ Array(vec)[0] = Len(vec) /\ Len(vec) \in DOMAIN Array(vec)
  BY ArrayFacts
<1>5. DOMAIN heap' = {p} /\ heap'[p] = Array(vec)
  BY <1>2
<1>6. HeapOK'
  BY <1>4, <1>5 DEF HeapOK
<1>7. Sound'
  BY <1>3, <1>4, <1>5 DEF Sound
<1>. QED
  BY <1>3, <1>5, <1>6, <1>7

\* A size_t that is no pointer, and nothing allocated.
LEMMA DeleteFacts ==
    ASSUME TypeOK, Sound, blocknr' \in 0..(SizeWord - 1),
           blocknr' = 0 \/ blocknr' % 2 = 1, Delete(Old)
    PROVE  HeapOK' /\ Sound' /\ (blocknr' # 0 => ~IsVector')
<1>1. DOMAIN heap \ Old = {}
  BY DEF Sound, Old
<1>2. DOMAIN heap' = {}
  BY <1>1 DEF Delete
<1>3. CASE blocknr' = 0
  BY <1>2, <1>3 DEF HeapOK, Sound, Empty
<1>4. CASE blocknr' % 2 = 1
  <2>1. blocknr' \in Int
    BY Sizes
  <2>2. ~IsVector'
    BY <1>4, <2>1, Odd DEF IsVector
  <2>. QED
    BY <1>2, <2>2 DEF HeapOK, Sound
<1>. QED
  BY <1>3, <1>4

\* Sequences of one and two.
LEMMA PairFacts ==
    ASSUME NEW S, NEW x \in S, NEW y \in S
    PROVE  /\ Append(<<x>>, y) = <<x, y>>
           /\ <<x>> \in Seq(S)
           /\ Len(<<x>>) = 1
<1>1. <<x>> \in Seq(S) /\ Len(<<x>>) = 1
  OBVIOUS
<1>2. <<x, y>> \in Seq(S) /\ Len(<<x, y>>) = 2
  OBVIOUS
<1>3. Append(<<x>>, y) \in Seq(S) /\ Len(Append(<<x>>, y)) = 2
  BY <1>1
<1>4. \A i \in 1..2 : Append(<<x>>, y)[i] = <<x, y>>[i]
  BY <1>1
<1>5. Append(<<x>>, y) = <<x, y>>
  BY <1>2, <1>3, <1>4, SeqEqual
<1>. QED
  BY <1>1, <1>5

\* The history of a block that is put in.
LEMMA PutsFacts ==
    ASSUME TypeOK, NEW b \in Inputs, Puts(b)
    PROVE  /\ put' \in [0..(Half - 1) -> Int]
           /\ wide' \in BOOLEAN
           /\ aborted' \in BOOLEAN
<1>1. b \in Blocknrs
  BY BlocknrVectorAssumption
<1>2. b % Half \in 0..(Half - 1)
  BY <1>1, LowBits
<1>3. put[b % Half] + 1 \in Int /\ put[b % Half] - 1 \in Int
  BY <1>2 DEF TypeOK
<1>4. put' \in [0..(Half - 1) -> Int]
  BY <1>3 DEF TypeOK, Puts
<1>. QED
  BY <1>4 DEF TypeOK, Puts

(***************************************************************************)
(* The invariant, and each method.                                         *)
(***************************************************************************)

\* Types, the union, and the range of the blocks.
Inv == TypeOK /\ Sound /\ SmallBlocksExact

\* operator= keeps the invariant, and the list it makes has the low bits of its argument.
LEMMA AssignKeeps ==
    ASSUME Inv, NEW n \in 0..MaxLength, NEW vec \in [1..n -> Inputs], Assign(vec)
    PROVE  /\ Inv'
           /\ DOMAIN Blocks' = 1..n
           /\ \A i \in 1..n : Blocks'[i] % Half = vec[i] % Half
<1>1. vec \in Seq(Blocknrs) /\ Len(vec) = n /\ DOMAIN vec = 1..n
  BY BlocknrVectorAssumption
<1>2. put' \in [0..(Half - 1) -> Int] /\ wide' \in BOOLEAN /\ aborted' \in BOOLEAN
  <2>1. \A q : IsFiniteSet({i \in DOMAIN vec : vec[i] % Half = q})
    BY <1>1, FS_Interval, FS_Subset
  <2>2. \A q : Count(vec, q) \in Nat
    BY <2>1, FS_CardinalityType DEF Count
  <2>. QED
    BY <2>2 DEF Assign, Means, Inv, TypeOK
<1>3. CASE n = 0
  <2>1. blocknr' = 0 /\ Delete(Old)
    BY <1>1, <1>3 DEF Assign
  <2>2. blocknr' \in 0..(SizeWord - 1)
    BY <2>1, Sizes
  <2>3. HeapOK' /\ Sound'
    BY <2>1, <2>2, DeleteFacts DEF Inv
  <2>4. Blocks' = <<>>
    BY <2>1 DEF Blocks, Empty
  <2>. QED
    BY <1>2, <1>3, <2>2, <2>3, <2>4 DEF Inv, TypeOK, HeapOK, SmallBlocksExact
<1>4. CASE n = 1
  <2>1. blocknr' = Encode(vec[1]) /\ Delete(Old) /\ vec[1] \in Blocknrs
    BY <1>1, <1>4 DEF Assign
  <2>2. blocknr' \in 0..(SizeWord - 1) /\ blocknr' % 2 = 1 /\ Decode(blocknr') = vec[1] % Half
    BY <2>1, EncodeFacts
  <2>3. HeapOK' /\ Sound' /\ ~IsVector'
    <3>1. blocknr' \in Int
      BY <2>2, Sizes
    <3>2. blocknr' # 0
      BY <2>2, <3>1, Odd
    <3>. QED
      BY <2>1, <2>2, <3>2, DeleteFacts DEF Inv
  <2>4. TypeOK'
    BY <1>2, <2>2, <2>3 DEF TypeOK, HeapOK
  <2>5. Blocks' = <<vec[1] % Half>>
    BY <2>2, <2>3, <2>4, SingleFactsNext
  <2>6. ~wide' => vec[1] % Half < Quarter
    <3>1. ~wide' => ~(vec[1] >= Quarter)
      BY <1>1, <1>4 DEF Assign, Means
    <3>. QED
      BY <2>1, <3>1, SmallLowBits
  <2>7. DOMAIN Blocks' = 1..n /\ \A i \in 1..n : Blocks'[i] % Half = vec[i] % Half
    <3>1. (vec[1] % Half) % Half = vec[1] % Half
      BY <2>1, LowBitsTwice
    <3>. QED
      BY <1>4, <2>5, <3>1
  <2>. QED
    BY <2>3, <2>4, <2>5, <2>6, <2>7 DEF Inv, SmallBlocksExact
<1>5. CASE n > 1
  <2>1. PICK p \in Pointers : blocknr' = p /\ Replace(Old, p, Array(vec))
    BY <1>1, <1>5 DEF Assign
  <2>2. blocknr' \in 0..(SizeWord - 1) /\ HeapOK' /\ Sound' /\ ~Empty' /\ IsVector'
        /\ heap'[blocknr'] = Array(vec)
    BY <1>1, <1>5, <2>1, ReplaceFacts DEF Inv
  <2>3. TypeOK'
    BY <1>2, <2>2 DEF TypeOK, HeapOK
  <2>4. Size' = Len(vec) /\ \A i \in 1..Len(vec) : heap'[blocknr'][i] = vec[i]
    <3>1. Array(vec)[0] = Len(vec) /\ \A i \in 1..Len(vec) : Array(vec)[i] = vec[i]
      BY <1>1, <1>5, ArrayFacts, BlocknrVectorAssumption
    <3>2. Size' = heap'[blocknr'][0]
      BY <2>2 DEF Size
    <3>. QED
      BY <2>2, <3>1, <3>2
  <2>5. DOMAIN Blocks' = 1..n /\ \A i \in 1..n : Blocks'[i] = vec[i]
    BY <1>1, <2>2, <2>3, <2>4, VectorFactsNext DEF VectorShape
  <2>6. ~wide' => \A i \in 1..n : vec[i] < Quarter
    <3>1. ~wide' => ~(\E i \in 1..n : vec[i] >= Quarter)
      BY <1>1 DEF Assign, Means
    <3>. QED
      BY <1>1, <3>1, Sizes DEF Blocknrs
  <2>. QED
    BY <2>2, <2>3, <2>5, <2>6 DEF Inv, SmallBlocksExact
<1>. QED
  BY <1>3, <1>4, <1>5, BlocknrVectorAssumption

\* push_back on a list that is there keeps the invariant: the array it makes is that of
\* the list with the block behind it.
LEMMA PushOnListKeeps ==
    ASSUME Inv, NEW b \in Inputs, Len(Blocks) < MaxLength,
           PushOnVector(b) \/ PushOnBlock(b)
    PROVE  /\ Inv'
           /\ Len(Blocks') = Len(Blocks) + 1
           /\ \A i \in DOMAIN Blocks : Blocks'[i] = Blocks[i]
           /\ Blocks'[Len(Blocks')] = b
<1> DEFINE vec == Append(Blocks, b)
<1>1. PICK p \in Pointers : blocknr' = p /\ Replace(Old, p, Array(vec))
  <2>1. CASE PushOnVector(b)
    BY <2>1 DEF PushOnVector, Old
  <2>2. CASE PushOnBlock(b)
    <3>1. Decode(blocknr) \in Blocknrs /\ Blocks = <<Decode(blocknr)>> /\ Old = {}
      BY <2>2, SingleFacts DEF Inv, PushOnBlock, Old
    <3>2. vec = <<Decode(blocknr), b>>
      BY <3>1, PairFacts, BlocknrVectorAssumption
    <3>. QED
      BY <2>2, <3>1, <3>2 DEF PushOnBlock
  <2>. QED
    BY <2>1, <2>2
<1>2. Blocks \in Seq(Blocknrs) /\ Len(Blocks) >= 1
  <2>1. CASE PushOnVector(b)
    BY <2>1, VectorFacts, BlocknrVectorAssumption DEF Inv, PushOnVector, VectorShape
  <2>2. CASE PushOnBlock(b)
    <3>1. Decode(blocknr) \in Blocknrs /\ Blocks = <<Decode(blocknr)>>
      BY <2>2, SingleFacts DEF Inv, PushOnBlock
    <3>. QED
      BY <3>1, PairFacts
  <2>. QED
    BY <2>1, <2>2
<1>3. /\ vec \in Seq(Blocknrs) /\ Len(vec) = Len(Blocks) + 1 /\ Len(vec) \in 2..MaxLength
      /\ \A i \in 1..Len(Blocks) : vec[i] = Blocks[i]
      /\ vec[Len(vec)] = b
  BY <1>2, BlocknrVectorAssumption
<1>4. Puts(b)
  BY DEF PushOnVector, PushOnBlock
<1> HIDE DEF vec
<1>5. blocknr' \in 0..(SizeWord - 1) /\ HeapOK' /\ Sound' /\ ~Empty' /\ IsVector'
      /\ heap'[blocknr'] = Array(vec)
  BY <1>1, <1>3, ReplaceFacts DEF Inv
<1>6. TypeOK'
  BY <1>4, <1>5, PutsFacts DEF Inv, TypeOK, HeapOK
<1>7. Size' = Len(vec) /\ \A i \in 1..Len(vec) : heap'[blocknr'][i] = vec[i]
  <2>1. Array(vec)[0] = Len(vec) /\ \A i \in 1..Len(vec) : Array(vec)[i] = vec[i]
    BY <1>3, ArrayFacts, BlocknrVectorAssumption
  <2>2. Size' = heap'[blocknr'][0]
    BY <1>5 DEF Size
  <2>. QED
    BY <1>5, <2>1, <2>2
<1>8. Blocks' \in Seq(Blocknrs) /\ Len(Blocks') = Len(vec) /\ \A i \in 1..Len(vec) : Blocks'[i] = vec[i]
  BY <1>5, <1>6, <1>7, VectorFactsNext DEF VectorShape
<1>9. SmallBlocksExact'
  <2>1. SUFFICES ASSUME ~wide', NEW i \in 1..Len(vec) PROVE vec[i] < Quarter
    BY <1>3, <1>8 DEF SmallBlocksExact
  <2>2. ~wide /\ b < Quarter
    <3>1. ~wide /\ ~(b >= Quarter)
      BY <1>4, <2>1 DEF Puts
    <3>. QED
      BY <3>1, BlocknrVectorAssumption, Sizes DEF Blocknrs
  <2>3. CASE i <= Len(Blocks)
    BY <1>2, <1>3, <2>2, <2>3 DEF Inv, SmallBlocksExact
  <2>4. CASE i = Len(vec)
    BY <1>3, <2>2, <2>4
  <2>. QED
    BY <1>2, <1>3, <2>3, <2>4
<1>10. Inv'
  BY <1>5, <1>6, <1>9, Zenon DEF Inv
<1>. QED
  BY <1>2, <1>3, <1>5, <1>8, <1>10

\* push_back on the empty list keeps the invariant.
LEMMA PushFirstKeeps ==
    ASSUME Inv, NEW b \in Inputs, PushFirst(b)
    PROVE  /\ Inv'
           /\ Blocks = <<>>
           /\ Blocks' = <<b % Half>>
<1>1. b \in Blocknrs
  BY BlocknrVectorAssumption
<1>2. Empty /\ Old = {} /\ blocknr' = Encode(b) /\ UNCHANGED heap /\ Puts(b)
  BY DEF PushFirst, Old
<1>3. blocknr' \in 0..(SizeWord - 1) /\ blocknr' % 2 = 1 /\ Decode(blocknr') = b % Half
  BY <1>1, <1>2, EncodeFacts
<1>4. ~IsVector'
  <2>1. blocknr' \in Int
    BY <1>3, Sizes
  <2>. QED
    BY <1>3, <2>1, Odd DEF IsVector
<1>5. DOMAIN heap' = {}
  BY <1>2 DEF Inv, Sound
<1>6. TypeOK' /\ Sound'
  BY <1>2, <1>3, <1>4, <1>5, PutsFacts DEF Inv, TypeOK, Sound
<1>7. Blocks' = <<b % Half>>
  BY <1>3, <1>4, <1>6, SingleFactsNext
<1>8. ~wide' => b % Half < Quarter
  <2>1. ~wide' => ~(b >= Quarter)
    BY <1>2 DEF Puts
  <2>. QED
    BY <1>1, <2>1, SmallLowBits
<1>. QED
  BY <1>2, <1>6, <1>7, <1>8 DEF Inv, SmallBlocksExact, Blocks

\* remove keeps the invariant: a vector of two becomes the encoding of one of them, a
\* longer one keeps its array.
LEMMA RemoveKeeps ==
    ASSUME Inv, NEW b \in Inputs, Remove(b)
    PROVE  /\ Inv'
           /\ Len(Blocks) = Size /\ Size \in 2..MaxLength
           /\ DOMAIN Blocks' = 1..(Size - 1)
           /\ \A i \in 1..(Size - 1) :
                 Blocks'[i] % Half = (IF i = Found(b) THEN Blocks[Size] ELSE Blocks[i]) % Half
<1>1. VectorShape /\ Old = {blocknr}
  BY VectorFacts DEF Inv, Remove, OneLeft, LastBlock, Holds, Old
<1>2. PICK n \in 1..MaxLength : Size <= n /\ heap[blocknr] \in [0..n -> Blocknrs]
  BY <1>1 DEF VectorShape
<1>3. Size \in 2..MaxLength /\ Size - 1 \in Blocknrs /\ n \in Nat /\ Size \in Nat
  BY <1>1, <1>2, BlocknrVectorAssumption, Sizes DEF VectorShape, Blocknrs
<1> DEFINE a == Shortened(b)
<1>4. /\ a \in [0..n -> Blocknrs]
      /\ a[0] = Size - 1
      /\ \A i \in 1..(Size - 1) :
            a[i] = IF i = Found(b) THEN heap[blocknr][Size] ELSE heap[blocknr][i]
  BY <1>2, <1>3 DEF Shortened
<1> HIDE DEF a
<1>9. /\ Len(Blocks) = Size
      /\ \A i \in 1..(Size - 1) : a[i] = IF i = Found(b) THEN Blocks[Size] ELSE Blocks[i]
  BY <1>1, <1>3, <1>4 DEF VectorShape
<1>5. /\ put' \in [0..(Half - 1) -> Int] /\ wide' = wide /\ aborted' = aborted
  <2>1. b % Half \in 0..(Half - 1)
    BY BlocknrVectorAssumption, LowBits
  <2>. QED
    BY <2>1 DEF Remove, OneLeft, LastBlock, Inv, TypeOK
<1>6. ~wide => \A i \in 1..(Size - 1) : a[i] < Quarter
  <2>1. ~wide => \A i \in 1..Size : heap[blocknr][i] < Quarter
    BY <1>1, <1>3 DEF Inv, SmallBlocksExact, VectorShape
  <2>. QED
    BY <1>3, <1>4, <2>1
<1>7. CASE Size = 2
  <2>1. blocknr' = EncodeLast(a[1]) /\ Delete(Old) /\ a[1] \in Blocknrs
    BY <1>1, <1>3, <1>4, <1>7 DEF Remove, OneLeft, LastBlock, a
  <2>2. /\ blocknr' \in 0..(SizeWord - 1) /\ blocknr' % 2 = 1
        /\ a[1] < Quarter => Decode(blocknr') = a[1]
    BY <2>1, EncodeLastFacts
  <2>3. HeapOK' /\ Sound' /\ ~IsVector'
    <3>1. blocknr' \in Int
      BY <2>2, Sizes
    <3>2. blocknr' # 0
      BY <2>2, <3>1, Odd
    <3>. QED
      BY <2>1, <2>2, <3>2, DeleteFacts DEF Inv
  <2>4. TypeOK'
    BY <1>5, <2>2, <2>3 DEF Inv, TypeOK, HeapOK
  <2>5. Blocks' = <<Decode(blocknr')>>
    BY <2>3, <2>4, SingleFactsNext
  <2>6. ~wide => a[1] < Quarter
    BY <1>6, <1>7
  <2>7. DOMAIN Blocks' = 1..1 /\ Blocks'[1] % Half = a[1] % Half
    BY <2>1, <2>5, EncodeLastFacts
  <2>8. Inv'
    BY <1>5, <2>2, <2>3, <2>4, <2>5, <2>6 DEF Inv, SmallBlocksExact
  <2>. QED
    BY <1>3, <1>7, <1>9, <2>7, <2>8
<1>8. CASE Size # 2
  <2>1. heap' = [heap EXCEPT ![blocknr] = a] /\ blocknr' = blocknr
    BY <1>8 DEF Remove, OneLeft, LastBlock, a
  <2>2. DOMAIN heap = {blocknr}
    BY DEF Inv, Sound, Remove, OneLeft, LastBlock, Holds
  <2>3. DOMAIN heap' = {blocknr} /\ heap'[blocknr] = a
    BY <2>1, <2>2
  <2>4. ~Empty' /\ IsVector'
    BY <2>1 DEF Empty, IsVector, Remove, OneLeft, LastBlock, Holds
  <2>5. IsArray(a) /\ a[0] \in 2..MaxLength /\ a[0] \in DOMAIN a
    BY <1>2, <1>3, <1>4, <1>8, BlocknrVectorAssumption DEF IsArray
  <2>6. TypeOK'
    BY <1>1, <1>5, <2>1, <2>3, <2>5 DEF Inv, TypeOK, VectorShape
  <2>7. Sound'
    BY <2>1, <2>3, <2>4, <2>5 DEF Sound
  <2>8. Size' = Size - 1 /\ VectorShape'
    BY <1>4, <2>1, <2>3, <2>4, <2>6, <2>7, VectorFactsNext DEF Size
  <2>9. Len(Blocks') = Size - 1 /\ \A i \in 1..(Size - 1) : Blocks'[i] = a[i]
    BY <2>1, <2>3, <2>8 DEF VectorShape
  <2>10. Blocks' \in Seq(Blocknrs)
    BY <2>8 DEF VectorShape
  <2>11. SmallBlocksExact'
    BY <1>3, <1>5, <1>6, <2>9, <2>10 DEF SmallBlocksExact
  <2>. QED
    BY <1>3, <1>9, <2>6, <2>7, <2>9, <2>10, <2>11 DEF Inv
<1>. QED
  BY <1>7, <1>8

\* erase keeps the invariant.
LEMMA EraseKeeps ==
    ASSUME Inv, Erase
    PROVE  Inv'
<1>1. blocknr' = 0 /\ Delete(Old) /\ blocknr' \in 0..(SizeWord - 1)
  BY Sizes DEF Erase
<1>2. HeapOK' /\ Sound'
  BY <1>1, DeleteFacts DEF Inv
<1>3. put' \in [0..(Half - 1) -> Int] /\ wide' \in BOOLEAN /\ aborted' \in BOOLEAN
  <2>1. \A q : Count(<<>>, q) = 0
    BY FS_EmptySet DEF Count
  <2>. QED
    BY <2>1 DEF Erase, Means, Inv, TypeOK
<1>4. Blocks' = <<>>
  BY <1>1 DEF Blocks, Empty
<1>. QED
  BY <1>1, <1>2, <1>3, <1>4 DEF Inv, TypeOK, HeapOK, SmallBlocksExact

\* A failed assertion leaves the list as it is.
LEMMA AbortKeeps ==
    ASSUME Inv, Aborts
    PROVE  Inv'
BY DEF Aborts, Inv, TypeOK, Sound, SmallBlocksExact, Blocks, Empty, IsVector, Size, Entry, FirstEntry

\* The invariant holds in every state, whatever is called in whichever order, for
\* every word size and every bound on the length.
THEOREM Inductive == Spec => []Inv
<1>1. Init => Inv
  <2> SUFFICES ASSUME Init PROVE Inv
    OBVIOUS
  <2>1. TypeOK
    <3>1. blocknr \in 0..(SizeWord - 1)
      BY Sizes DEF Init
    <3>2. DOMAIN heap = {}
      BY DEF Init, NoArrays
    <3>3. put \in [0..(Half - 1) -> Int]
      BY DEF Init, Nothing
    <3>. QED
      BY <3>1, <3>2, <3>3 DEF Init, TypeOK
  <2>2. Sound /\ SmallBlocksExact
    BY DEF Init, Sound, SmallBlocksExact, Blocks, Empty, NoArrays
  <2>. QED
    BY <2>1, <2>2 DEF Inv
<1>2. Inv /\ [Next]_vars => Inv'
  <2> SUFFICES ASSUME Inv, [Next]_vars PROVE Inv'
    OBVIOUS
  <2>1. ASSUME NEW n \in 0..MaxLength, NEW vec \in [1..n -> Inputs], Assign(vec) PROVE Inv'
    BY <2>1, AssignKeeps
  <2>2. ASSUME NEW b \in Inputs, PushBack(b) PROVE Inv'
    BY <2>2, PushOnListKeeps, PushFirstKeeps DEF PushBack
  <2>3. ASSUME NEW b \in Inputs, Remove(b) PROVE Inv'
    BY <2>3, RemoveKeeps
  <2>4. CASE Erase
    BY <2>4, EraseKeeps
  <2>5. CASE Aborts
    BY <2>5, AbortKeeps
  <2>6. CASE UNCHANGED vars
    BY <2>6 DEF vars, Inv, TypeOK, Sound, SmallBlocksExact, Blocks, Empty, IsVector, Size, Entry, FirstEntry
  <2>. QED
    BY <2>1, <2>2, <2>3, <2>4, <2>5, <2>6 DEF Next, PushAborts, RemoveAborts, EraseAborts
<1>. QED
  BY <1>1, <1>2, PTL DEF Spec

\* Every variable keeps its type.
THEOREM TypeCorrect == Spec => []TypeOK
<1>1. Inv => TypeOK
  BY DEF Inv
<1>. QED
  BY <1>1, Inductive, PTL

\* The union is a pointer exactly when there is an array, and then to it: no sequence of
\* calls leaks an array, loses one or leaves a vector of fewer than two.
THEOREM UnionSound == Spec => []Sound
<1>1. Inv => Sound
  BY DEF Inv
<1>. QED
  BY <1>1, Inductive, PTL

\* While only blocks below 2^30 are put in, only such blocks are read: neither encoding
\* changes them.
THEOREM SmallExact == Spec => []SmallBlocksExact
<1>1. Inv => SmallBlocksExact
  BY DEF Inv
<1>. QED
  BY <1>1, Inductive, PTL

\* What is in a list stays where it is when a block is put behind it.
THEOREM PushKeeps == Spec => PushKeepsTheRest
<1>1. ASSUME Inv, NEW b \in Inputs, PushBack(b)
      PROVE  /\ Len(Blocks') = Len(Blocks) + 1
             /\ \A i \in DOMAIN Blocks : Blocks'[i] = Blocks[i]
  <2>1. CASE PushFirst(b)
    <3>1. Blocks = <<>> /\ Blocks' = <<b % Half>>
      BY <1>1, <2>1, PushFirstKeeps
    <3>2. Len(Blocks) = 0 /\ Len(Blocks') = 1 /\ DOMAIN Blocks = {}
      BY <3>1
    <3>. QED
      BY <3>2
  <2>2. CASE ~PushFirst(b)
    BY <1>1, <2>2, PushOnListKeeps DEF PushBack
  <2>. QED
    BY <2>1, <2>2
<1>2. Inv /\ [Next]_vars => [\A b \in Inputs :
          PushBack(b) =>
              /\ Len(Blocks') = Len(Blocks) + 1
              /\ \A i \in DOMAIN Blocks : Blocks'[i] = Blocks[i]]_vars
  BY <1>1
<1>. QED
  BY <1>2, Inductive, PTL DEF Spec, PushKeepsTheRest

(***************************************************************************)
(* What the list holds.                                                    *)
(***************************************************************************)

\* A count is that of a finite set.
LEMMA CountType ==
    ASSUME NEW n \in Nat, NEW vec, DOMAIN vec = 1..n, NEW q
    PROVE  /\ IsFiniteSet({i \in DOMAIN vec : vec[i] % Half = q})
           /\ Count(vec, q) \in Nat
<1>1. IsFiniteSet({i \in DOMAIN vec : vec[i] % Half = q})
  BY FS_Interval, FS_Subset
<1>. QED
  BY <1>1, FS_CardinalityType DEF Count

\* The count depends on the low bits alone.
LEMMA CountEqual ==
    ASSUME NEW vec, NEW new, DOMAIN new = DOMAIN vec,
           \A i \in DOMAIN vec : new[i] % Half = vec[i] % Half,
           NEW q
    PROVE  Count(new, q) = Count(vec, q)
<1>1. {i \in DOMAIN new : new[i] % Half = q} = {i \in DOMAIN vec : vec[i] % Half = q}
  OBVIOUS
<1>. QED
  BY <1>1 DEF Count

\* A block more at the end is one more of its remainder.
LEMMA CountPush ==
    ASSUME NEW n \in Nat, NEW vec, DOMAIN vec = 1..n, NEW new, DOMAIN new = 1..(n + 1),
           \A i \in 1..n : new[i] % Half = vec[i] % Half,
           NEW q
    PROVE  Count(new, q) = IF new[n + 1] % Half = q THEN Count(vec, q) + 1 ELSE Count(vec, q)
<1> DEFINE S == {i \in DOMAIN vec : vec[i] % Half = q}
           T == {i \in DOMAIN new : new[i] % Half = q}
<1>1. IsFiniteSet(S)
  BY CountType
<1>2. CASE new[n + 1] % Half = q
  <2>1. T = S \cup {n + 1} /\ n + 1 \notin S
    BY <1>2
  <2>2. Cardinality(T) = Cardinality(S) + 1
    BY <1>1, <2>1, FS_AddElement
  <2>. QED
    BY <1>2, <2>2 DEF Count
<1>3. CASE new[n + 1] % Half # q
  <2>1. T = S
    BY <1>3
  <2>. QED
    BY <1>3, <2>1 DEF Count
<1>. QED
  BY <1>2, <1>3

\* The last block in the place of another one, or gone itself, is one less of the
\* remainder of that one.
LEMMA CountRemove ==
    ASSUME NEW n \in Nat, NEW vec, DOMAIN vec = 1..n, NEW j \in 1..n,
           NEW new, DOMAIN new = 1..(n - 1),
           \A i \in 1..(n - 1) : new[i] % Half = (IF i = j THEN vec[n] ELSE vec[i]) % Half,
           NEW q
    PROVE  Count(new, q) = IF vec[j] % Half = q THEN Count(vec, q) - 1 ELSE Count(vec, q)
<1> DEFINE S == {i \in DOMAIN vec : vec[i] % Half = q}
           T == {i \in DOMAIN new : new[i] % Half = q}
<1>1. IsFiniteSet(S)
  BY CountType
<1>2. IsFiniteSet(S \ {j}) /\ IsFiniteSet((S \ {j}) \ {n})
  BY <1>1, FS_Subset
<1>3. Cardinality(S \ {j}) = IF j \in S THEN Cardinality(S) - 1 ELSE Cardinality(S)
  BY <1>1, FS_RemoveElement
<1>4. Cardinality(T) = Cardinality(S \ {j})
  <2>1. CASE n = j \/ n \notin S
    <3>1. T = S \ {j}
      BY <2>1
    <3>. QED
      BY <3>1
  <2>2. CASE n # j /\ n \in S
    <3>1. T = ((S \ {j}) \ {n}) \cup {j}
      BY <2>2
    <3>2. Cardinality(T) = Cardinality((S \ {j}) \ {n}) + 1
      BY <1>2, <3>1, FS_AddElement
    <3>3. Cardinality((S \ {j}) \ {n}) = Cardinality(S \ {j}) - 1
      BY <1>2, <2>2, FS_RemoveElement
    <3>4. Cardinality(S \ {j}) \in Nat
      BY <1>2, FS_CardinalityType
    <3>. QED
      BY <3>2, <3>3, <3>4
  <2>. QED
    BY <2>1, <2>2
<1>. QED
  BY <1>3, <1>4 DEF Count

\* remove takes a block out that is in the list, the first of those that are equal.
LEMMA FoundFacts ==
    ASSUME Inv, NEW b, Holds(b)
    PROVE  Found(b) \in 1..Size /\ Blocks[Found(b)] = b
<1>1. VectorShape
  BY VectorFacts DEF Inv, Holds
<1> DEFINE T == {j \in 1..Size : heap[blocknr][j] = b}
<1>2. Size \in Nat /\ T \subseteq Nat /\ T # {}
  BY <1>1, BlocknrVectorAssumption DEF VectorShape, Holds
<1>3. PICK j \in T : \A i \in T : j <= i
  BY <1>2, LeastNumber
<1>4. \A i \in 1..(j - 1) : heap[blocknr][i] # b
  <2> SUFFICES ASSUME NEW i \in 1..(j - 1), heap[blocknr][i] = b PROVE FALSE
    OBVIOUS
  <2>1. i \in T /\ ~(j <= i)
    BY <1>2, <1>3
  <2>. QED
    BY <1>3, <2>1
<1>5. j \in 1..Size /\ heap[blocknr][j] = b
  BY <1>3
<1> HIDE DEF T
<1>6. Found(b) \in 1..Size /\ heap[blocknr][Found(b)] = b
  BY <1>4, <1>5 DEF Found
<1>. QED
  BY <1>1, <1>6 DEF VectorShape

\* A step of the object keeps the low bits of what was put in and not removed.
LEMMA LowBitsStep == Inv /\ LowBitsKept /\ [Next]_vars => LowBitsKept'
<1> SUFFICES ASSUME Inv, LowBitsKept, [Next]_vars, NEW q \in 0..(Half - 1)
             PROVE  Count(Blocks', q) = put'[q]
  BY DEF LowBitsKept
<1>1. Count(Blocks, q) = put[q] /\ put \in [0..(Half - 1) -> Int] /\ Inputs \subseteq Blocknrs
  BY BlocknrVectorAssumption DEF LowBitsKept, Inv, TypeOK
<1>2. ASSUME NEW n \in 0..MaxLength, NEW vec \in [1..n -> Inputs], Assign(vec)
      PROVE  Count(Blocks', q) = put'[q]
  <2>1. Count(Blocks', q) = Count(vec, q)
    BY <1>2, AssignKeeps, CountEqual
  <2>. QED
    BY <1>2, <2>1 DEF Assign, Means
<1>3. ASSUME NEW b \in Inputs, PushBack(b)
      PROVE  Count(Blocks', q) = put'[q]
  <2>1. b % Half \in 0..(Half - 1) /\ (b % Half) % Half = b % Half
    BY <1>1, LowBits, LowBitsTwice
  <2>2. put' = [put EXCEPT ![b % Half] = @ + 1]
    BY <1>3 DEF PushBack, PushOnVector, PushOnBlock, PushFirst, Puts
  <2>3. put'[q] = IF b % Half = q THEN put[q] + 1 ELSE put[q]
    BY <1>1, <2>1, <2>2
  <2>4. CASE PushFirst(b)
    <3>1. Blocks = <<>> /\ Blocks' = <<b % Half>>
      BY <2>4, PushFirstKeeps
    <3> DEFINE new == Blocks'
               n == 0
    <3>2. /\ DOMAIN Blocks = 1..n /\ DOMAIN new = 1..(n + 1) /\ n \in Nat
          /\ new[n + 1] % Half = b % Half
          /\ \A i \in 1..n : new[i] % Half = Blocks[i] % Half
      BY <2>1, <3>1
    <3> HIDE DEF new, n
    <3>3. Count(new, q) = IF b % Half = q THEN Count(Blocks, q) + 1 ELSE Count(Blocks, q)
      BY <3>2, CountPush
    <3> USE DEF new
    <3>. QED
      BY <1>1, <2>3, <3>3
  <2>5. CASE PushOnVector(b) \/ PushOnBlock(b)
    <3>1. /\ Len(Blocks') = Len(Blocks) + 1 /\ Blocks'[Len(Blocks')] = b
          /\ \A i \in DOMAIN Blocks : Blocks'[i] = Blocks[i]
      BY <1>3, <2>5, PushOnListKeeps DEF PushBack
    <3>2. Inv'
      BY <1>3, <2>5, PushOnListKeeps DEF PushBack
    <3>3. /\ Len(Blocks) \in Nat /\ DOMAIN Blocks = 1..Len(Blocks)
          /\ DOMAIN Blocks' = 1..(Len(Blocks) + 1)
      <4>1. Blocks \in Seq(Blocknrs)
        BY BlocksType DEF Inv
      <4>2. Blocks' \in Seq(Blocknrs)
        BY <3>2, BlocksTypeNext DEF Inv
      <4>. QED
        BY <3>1, <4>1, <4>2
    <3>4. Count(Blocks', q) = IF b % Half = q THEN Count(Blocks, q) + 1 ELSE Count(Blocks, q)
      BY <3>1, <3>3, CountPush
    <3>. QED
      BY <1>1, <2>3, <3>4
  <2>. QED
    BY <1>3, <2>4, <2>5 DEF PushBack
<1>4. ASSUME NEW b \in Inputs, Remove(b)
      PROVE  Count(Blocks', q) = put'[q]
  <2>1. b % Half \in 0..(Half - 1)
    BY <1>1, LowBits
  <2>2. put'[q] = IF b % Half = q THEN put[q] - 1 ELSE put[q]
    BY <1>1, <1>4, <2>1 DEF Remove
  <2>3. Found(b) \in 1..Size /\ Blocks[Found(b)] = b
    BY <1>4, FoundFacts DEF Remove
  <2>4. /\ Len(Blocks) = Size /\ Size \in 2..MaxLength
        /\ DOMAIN Blocks' = 1..(Size - 1)
        /\ \A i \in 1..(Size - 1) :
              Blocks'[i] % Half = (IF i = Found(b) THEN Blocks[Size] ELSE Blocks[i]) % Half
    BY <1>4, RemoveKeeps
  <2>5. DOMAIN Blocks = 1..Size /\ Size \in Nat
    BY <2>4, BlocksType, BlocknrVectorAssumption DEF Inv
  <2>6. Count(Blocks', q) = IF b % Half = q THEN Count(Blocks, q) - 1 ELSE Count(Blocks, q)
    BY <2>3, <2>4, <2>5, CountRemove
  <2>. QED
    BY <1>1, <2>2, <2>6
<1>5. CASE Erase
  <2>1. Blocks' = <<>>
    BY <1>5 DEF Erase, Blocks, Empty
  <2>. QED
    BY <1>5, <2>1 DEF Erase, Means
<1>6. CASE Aborts \/ UNCHANGED vars
  <2>1. Blocks' = Blocks /\ put' = put
    BY <1>6 DEF Aborts, vars, Blocks, Empty, IsVector, Size, Entry, FirstEntry
  <2>. QED
    BY <1>1, <2>1
<1>. QED
  BY <1>2, <1>3, <1>4, <1>5, <1>6 DEF Next, PushAborts, RemoveAborts, EraseAborts

\* Of every block that was put in and not removed the lower 31 bits are in the list, as
\* often as it was put in, and there is nothing else, for every word size and every
\* sequence of calls.
THEOREM LowBitsForAll == Spec => []LowBitsKept
<1>1. Init => LowBitsKept
  <2> SUFFICES ASSUME Init, NEW q \in 0..(Half - 1) PROVE Count(Blocks, q) = put[q]
    BY DEF LowBitsKept
  <2>1. Blocks = <<>> /\ put[q] = 0
    BY DEF Init, Nothing, Blocks, Empty
  <2>2. {i \in DOMAIN <<>> : <<>>[i] % Half = q} = {}
    OBVIOUS
  <2>. QED
    BY <2>1, <2>2, FS_EmptySet DEF Count
<1>. QED
  BY <1>1, LowBitsStep, Inductive, PTL DEF Spec
===============================================================================
