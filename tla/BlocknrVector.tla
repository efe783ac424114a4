----------------------------- MODULE BlocknrVector ----------------------------
(***************************************************************************)
(* blocknr_vector_type (src/blocknr_vector_type.h 18-105): a list of block *)
(* numbers in one size_t.  0 is the empty list; an odd number is a list of *)
(* one block, shifted left by one; anything else is a pointer to an array  *)
(* that holds the length and then the blocks.                              *)
(*                                                                         *)
(* Block numbers are uint32_t, and Word = 4 * Quarter is the number of     *)
(* their values: a shift by one loses the top bit of a block, and where the*)
(* shift is of an int, as in remove, the next one becomes the sign, which  *)
(* the conversion to size_t extends.                                       *)
(*                                                                         *)
(* The object is used by any sequence of calls of its methods.  put is not *)
(* in the code: it is what the list is meant to hold.                      *)
(***************************************************************************)
EXTENDS Integers, Sequences, FiniteSets

CONSTANTS Quarter,       \* blocks below it have neither of the two top bits
          SizeWords,     \* a size_t has 2 * SizeWords * Word values
          Pointers,      \* what new may return
          Inputs,        \* the blocks that are put in and removed
          MaxLength      \* bound on the length of a list

Half == 2 * Quarter
Word == 4 * Quarter
SizeWord == 2 * SizeWords * Word

Blocknrs == 0..(Word - 1)

VARIABLES blocknr,       \* the size_t
          heap,          \* the arrays that are allocated
          put,           \* how many blocks of each remainder by Half it should hold
          wide,          \* a block of Quarter or more was put in since it was empty
          aborted

vars == <<blocknr, heap, put, wide, aborted>>

ASSUME BlocknrVectorAssumption ==
    /\ Quarter \in Nat \ {0}
    /\ SizeWords \in Nat \ {0}
    /\ Pointers \subseteq 1..(SizeWord - 1)
    /\ \A p \in Pointers : p % 2 = 0
    /\ Inputs \subseteq Blocknrs
    /\ MaxLength \in 1..(Word - 1)

-------------------------------------------------------------------------------
(* One block in a size_t. *)

(* Definitions named ..._Mutant are what a plausible mistake would make of the
   definition that follows them. Nothing here uses them. *)

\* (bnr << 1) | 1, of unsigned ints.
Encode(b) == ((2 * b) % Word) + 1

AsInt(n) == IF (n % Word) < Half THEN n % Word ELSE (n % Word) - Word

\* Not converted to a size_t.
EncodeLast_Mutant(b) == AsInt(2 * b) + 1

\* (last_block << 1) | 1, of an int, as a size_t.
EncodeLast(b) == (AsInt(2 * b) + 1) % SizeWord

\* Not shifted back.
Decode_Mutant(n) == n % Word

\* blocknr >> 1, as a uint32_t.
Decode(n) == (n \div 2) % Word

-------------------------------------------------------------------------------
(* The methods that read. *)

Empty == blocknr = 0
IsVector == blocknr % 2 = 0
Size == IF IsVector THEN heap[blocknr][0] ELSE 1
FirstEntry == IF IsVector THEN heap[blocknr][1] ELSE Decode(blocknr)
Entry(i) == IF i = 0 THEN FirstEntry ELSE heap[blocknr][i + 1]

Blocks == IF Empty THEN <<>> ELSE [i \in 1..Size |-> Entry(i - 1)]

-------------------------------------------------------------------------------
NoArrays == [p \in {} |-> <<>>]

\* An array of the length of vec and then the blocks of vec.
Array(vec) == [i \in 0..Len(vec) |-> IF i = 0 THEN Len(vec) ELSE vec[i]]

IsArray(a) == \E n \in 1..MaxLength : a \in [0..n -> Blocknrs]

Nothing == [q \in 0..(Half - 1) |-> 0]

TypeOK ==
    /\ blocknr \in 0..(SizeWord - 1)
    /\ DOMAIN heap \subseteq Pointers
    /\ \A p \in DOMAIN heap : IsArray(heap[p])
    /\ put \in [0..(Half - 1) -> Int]
    /\ wide \in BOOLEAN
    /\ aborted \in BOOLEAN

Init ==
    /\ blocknr = 0
    /\ heap = NoArrays
    /\ put = Nothing
    /\ wide = FALSE
    /\ aborted = FALSE

\* new, on what is left after delete [] of the array of old (if there is one).
Replace(old, p, array) ==
    heap' = [x \in (DOMAIN heap \ old) \cup {p} |-> IF x = p THEN array ELSE heap[x]]

Delete(old) == heap' = [x \in DOMAIN heap \ old |-> heap[x]]

Old == IF ~Empty /\ IsVector THEN {blocknr} ELSE {}

Count(vec, q) == Cardinality({i \in DOMAIN vec : vec[i] % Half = q})

Means(vec) ==
    /\ put' = [q \in 0..(Half - 1) |-> Count(vec, q)]
    /\ wide' = (\E i \in DOMAIN vec : vec[i] >= Quarter)

\* operator=
Assign(vec) ==
    /\ CASE Len(vec) = 0 -> blocknr' = 0 /\ Delete(Old)
         [] Len(vec) = 1 -> blocknr' = Encode(vec[1]) /\ Delete(Old)
         [] OTHER -> \E p \in Pointers \ (DOMAIN heap \ Old) :
                        blocknr' = p /\ Replace(Old, p, Array(vec))
    /\ Means(vec)
    /\ UNCHANGED aborted

Puts(b) ==
    /\ put' = [put EXCEPT ![b % Half] = @ + 1]
    /\ wide' = (wide \/ b >= Quarter)
    /\ UNCHANGED aborted

\* push_back, on a vector, a single block, and nothing.
PushOnVector(b) ==
    /\ ~Empty /\ IsVector
    /\ \E p \in Pointers \ DOMAIN heap :
          /\ blocknr' = p
          /\ Replace({blocknr}, p, Array(Append(Blocks, b)))
    /\ Puts(b)

PushOnBlock(b) ==
    /\ ~IsVector
    /\ \E p \in Pointers \ DOMAIN heap :
          /\ blocknr' = p
          /\ Replace({}, p, Array(<<Decode(blocknr), b>>))
    /\ Puts(b)

PushFirst(b) ==
    /\ Empty /\ b # 0
    /\ blocknr' = Encode(b)
    /\ UNCHANGED heap
    /\ Puts(b)

PushBack(b) == Len(Blocks) < MaxLength /\ (PushOnVector(b) \/ PushOnBlock(b) \/ PushFirst(b))

\* It is a vector, and b is in it.
Holds(b) == ~Empty /\ IsVector /\ \E j \in 1..Size : heap[blocknr][j] = b

Found(b) == CHOOSE j \in 1..Size : heap[blocknr][j] = b /\ \A i \in 1..(j - 1) : heap[blocknr][i] # b

\* The array as it is left, with the last block in the place of the removed one.
Shortened(b) ==
    [heap[blocknr] EXCEPT ![Found(b)] = heap[blocknr][Size], ![0] = Size - 1]

\* A list of one stays a vector.
OneLeft_Mutant == FALSE
OneLeft == Size = 2

\* What is left is taken to be the block at the end.
LastBlock_Mutant(b) == heap[blocknr][2]
LastBlock(b) == Shortened(b)[1]

\* remove
Remove(b) ==
    /\ Holds(b)
    /\ IF OneLeft
       THEN blocknr' = EncodeLast(LastBlock(b)) /\ Delete({blocknr})
       ELSE heap' = [heap EXCEPT ![blocknr] = Shortened(b)] /\ UNCHANGED blocknr
    /\ put' = [put EXCEPT ![b % Half] = @ - 1]
    /\ UNCHANGED <<wide, aborted>>

\* erase
Erase ==
    /\ ~Empty
    /\ blocknr' = 0
    /\ Delete(Old)
    /\ Means(<<>>)
    /\ UNCHANGED aborted

Aborts ==
    /\ aborted' = TRUE
    /\ UNCHANGED <<blocknr, heap, put, wide>>

\* A failed assertion: block 0 in an empty list, a block that is not in a vector, and
\* an empty list.
PushAborts(b) == Empty /\ b = 0 /\ Aborts
RemoveAborts(b) == ~Holds(b) /\ Aborts
EraseAborts == Empty /\ Aborts

Next ==
    /\ ~aborted
    /\ \/ \E n \in 0..MaxLength : \E vec \in [1..n -> Inputs] : Assign(vec)
       \/ \E b \in Inputs : PushBack(b) \/ PushAborts(b) \/ Remove(b) \/ RemoveAborts(b)
       \/ Erase \/ EraseAborts

Spec == Init /\ [][Next]_vars

-------------------------------------------------------------------------------
(* Properties. *)

\* The lowest bit tells what the size_t is: if it is a pointer, it is to the one array
\* that is allocated, with at least two blocks; if not, there is none. So nothing
\* leaks, is used after its delete or deleted twice, whatever is called in whichever
\* order, and no remove ends with a vector of one, which the next could not find.
Sound ==
    IF ~Empty /\ IsVector
    THEN /\ DOMAIN heap = {blocknr}
         /\ heap[blocknr][0] \in 2..MaxLength
         /\ heap[blocknr][0] \in DOMAIN heap[blocknr]
    ELSE DOMAIN heap = {}

\* Of every block ever put in and not removed its lower 31 bits are still there, of
\* every one that was removed they are gone, and there is nothing else, even where the
\* shifts lose or change the top bit.
LowBitsKept ==
    \A q \in 0..(Half - 1) : Count(Blocks, q) = put[q]

\* If all of them were below Quarter (2^30), the list is exact: whichever way they went
\* through the two encodings, none of them has a top bit. remove finds what was put.
SmallBlocksExact ==
    ~wide => \A i \in DOMAIN Blocks : Blocks[i] < Quarter

\* What is in a list stays as it is and where it is when a block is put behind it,
\* though the array is a new one each time.
PushKeepsTheRest ==
    [][\A b \in Inputs :
          PushBack(b) =>
              /\ Len(Blocks') = Len(Blocks) + 1
              /\ \A i \in DOMAIN Blocks : Blocks'[i] = Blocks[i]]_vars
===============================================================================
