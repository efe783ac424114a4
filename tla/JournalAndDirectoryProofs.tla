---------------------- MODULE JournalAndDirectoryProofs -----------------------
(***************************************************************************)
(* Proofs about the two readers of single blocks that no compiled file     *)
(* includes.                                                               *)
(*                                                                         *)
(* JournalDescriptors: whatever length a revoke block claims, no block is  *)
(* read from behind its list, and the report of a transaction keeps the    *)
(* order of the journal, for every size of words, headers and blocks.      *)
(*                                                                         *)
(* DirectoryBlocks: for every block, of any size and with any entries, and *)
(* whatever order they are delivered in, what a read leaves is sorted, its *)
(* links are the records, and following them is the walk.                  *)
(***************************************************************************)
EXTENDS JournalDescriptors, DirectoryBlocks, BasicLemmas, FiniteSetTheorems, FunctionTheorems

-------------------------------------------------------------------------------
(* Journal descriptors. *)

(***************************************************************************)
(* Arithmetic.                                                             *)
(***************************************************************************)

\* The two assertions on r_count keep the length of the list inside the block; neither
\* the subtraction nor the division wraps round.
LEMMA AcceptedLength ==
    ASSUME NEW count \in 0..(Word - 1), CountAccepted(count)
    PROVE  /\ ListWords \in Nat
           /\ ((count - HeaderBytes) % Word) \div WordBytes \in 0..ListWords
<1> DEFINE m == count - HeaderBytes
           k == BlockBytes - HeaderBytes
<1>1. m \in Nat /\ k \in Nat /\ m <= k /\ m < Word /\ Word \in Nat \ {0} /\ WordBytes \in Nat \ {0}
  BY JournalAssumption DEF CountAccepted
<1> HIDE DEF m, k
<1>2. m % Word = m
  <2>1. m = 0 * Word + m /\ m \in 0..(Word - 1)
    BY <1>1
  <2>. QED
    BY <1>1, <2>1, Division
<1>3. m \div WordBytes \in 0..m /\ k \div WordBytes \in 0..k
  BY <1>1, DivisionFacts, Zenon
<1>4. m \div WordBytes <= k \div WordBytes
  BY <1>1, QuotientMonotone
<1> DEFINE p == m \div WordBytes
           q == k \div WordBytes
<1> HIDE DEF p, q
<1>5. p \in 0..q /\ q \in Nat
  BY <1>1, <1>3, <1>4 DEF p, q
<1>. QED
  BY <1>2, <1>5 DEF ListWords, m, k, p, q

(***************************************************************************)
(* The constructors.                                                       *)
(***************************************************************************)

\* The constructor of a tag makes a descriptor.
LEMMA TagFacts ==
    ASSUME NEW at \in JournalBlocks, NEW block \in Blocks
    PROVE  Tag(at, block) \in Descriptors
BY DEF Tag, Descriptors

\* The constructor of a revoke block makes one, too, if the length is accepted: the
\* blocks in it are the beginning of the list.
LEMMA RevokeFacts ==
    ASSUME NEW at \in JournalBlocks, NEW count \in 0..(Word - 1), NEW list \in Lists,
           CountAccepted(count)
    PROVE  Revoke(at, Revoked(count, list)) \in Descriptors
<1> DEFINE n == ((count - HeaderBytes) % Word) \div WordBytes
           blocks == Revoked(count, list)
<1>1. n \in 0..ListWords /\ ListWords \in Nat
  BY AcceptedLength
<1>2. list \in [1..ListWords -> Blocks]
  BY JournalAssumption
<1>3. blocks = [b \in 1..n |-> IF b <= ListWords THEN list[b] ELSE Garbage]
  BY DEF Revoked
<1> HIDE DEF n, blocks
<1>4. blocks = [b \in 1..n |-> list[b]]
  BY <1>1, <1>3
<1>5. blocks \in Seq(Blocks) /\ Len(blocks) = n
  BY <1>1, <1>2, <1>4
<1>6. list \in Seq(Blocks) /\ Len(list) = ListWords
  BY <1>1, <1>2
<1>7. IsPrefix(blocks, list)
  <2>1. /\ SubSeq(blocks, 1, n) \in Seq(Blocks) /\ Len(SubSeq(blocks, 1, n)) = n
        /\ SubSeq(list, 1, n) \in Seq(Blocks) /\ Len(SubSeq(list, 1, n)) = n
    BY <1>1, <1>5, <1>6
  <2>2. \A i \in 1..n : SubSeq(blocks, 1, n)[i] = SubSeq(list, 1, n)[i]
    BY <1>1, <1>4, <1>5, <1>6
  <2>3. SubSeq(blocks, 1, n) = SubSeq(list, 1, n)
    BY <2>1, <2>2, SeqEqual
  <2>. QED
    BY <1>1, <1>5, <1>6, <2>3 DEF IsPrefix
<1>. QED
  BY <1>5, <1>7 DEF Revoke, Descriptors, blocks

(***************************************************************************)
(* The invariant.                                                          *)
(***************************************************************************)

\* Descriptors are what the constructors make in every state.
THEOREM Inductive == Spec => []IInv
<1>1. Init => IInv
  BY DEF Init, IInv
<1>2. IInv /\ [Next]_vars => IInv'
  <2> SUFFICES ASSUME IInv, [Next]_vars PROVE IInv'
    OBVIOUS
  <2>1. ASSUME NEW d \in Descriptors, descriptors' = Append(descriptors, d)
        PROVE  IInv'
    BY <2>1 DEF IInv
  <2>2. ASSUME NEW at \in JournalBlocks, NEW block \in Blocks, AppendTag(at, block)
        PROVE  IInv'
    BY <2>1, <2>2, TagFacts DEF AppendTag
  <2>3. ASSUME NEW at \in JournalBlocks, NEW count \in 0..(Word - 1), NEW list \in Lists,
               AppendRevoke(at, count, list)
        PROVE  IInv'
    <3>1. CASE CountAccepted(count)
      BY <2>1, <2>3, <3>1, RevokeFacts DEF AppendRevoke
    <3>2. CASE ~CountAccepted(count)
      BY <2>3, <3>2 DEF AppendRevoke, IInv
    <3>. QED
      BY <3>1, <3>2
  <2>4. CASE InitTransaction \/ SetCommitted \/ UNCHANGED vars
    BY <2>4 DEF InitTransaction, SetCommitted, vars, IInv
  <2>. QED
    BY <2>2, <2>3, <2>4 DEF Next
<1>. QED
  BY <1>1, <1>2, PTL DEF Spec

\* Every block of a revoke block is read from the list behind its header.
THEOREM RevokesForAll == Spec => []RevokesFromTheList
<1>1. IInv => RevokesFromTheList
  <2> SUFFICES ASSUME IInv, NEW i \in DOMAIN descriptors, descriptors[i].type = "REVOKE"
               PROVE  \E list \in Lists : IsPrefix(descriptors[i].blocks, list)
    BY DEF RevokesFromTheList
  <2>1. descriptors[i] \in Descriptors
    BY DEF IInv
  <2>. QED
    BY <2>1 DEF Descriptors
<1>. QED
  BY <1>1, Inductive, PTL

(***************************************************************************)
(* Printing.                                                               *)
(***************************************************************************)

Types == {"TAG", "REVOKE"}
Printed == [at : JournalBlocks, block : Blocks] \cup Blocks
Line == [type : Types, blocks : Seq(Printed)]

\* What a sequence of one more makes.
LEMMA FlattenStep ==
    ASSUME NEW S, NEW s \in Seq(Seq(S)), NEW t \in Seq(Seq(S)), Len(t) = Len(s) + 1,
           \A i \in 1..Len(s) : t[i] = s[i]
    PROVE  /\ FlattenSeq(s) \in Seq(S) /\ FlattenSeq(t) \in Seq(S)
           /\ FlattenSeq(t) = FlattenSeq(s) \o t[Len(t)]
<1> DEFINE n == Len(s)
<1>1. n \in Nat /\ Len(t) = n + 1 /\ (n = 0 => s = <<>>)
  OBVIOUS
<1>2. \A u \in Seq(Seq(S)) :
        \E f \in [0..Len(u) -> Seq(S)] :
           /\ f[0] = <<>>
           /\ \A i \in 1..Len(u) : f[i] = f[i - 1] \o u[i]
           /\ FlattenSeq(u) = f[Len(u)]
  <2> SUFFICES ASSUME NEW u \in Seq(Seq(S))
               PROVE  \E f \in [0..Len(u) -> Seq(S)] :
                         /\ f[0] = <<>>
                         /\ \A i \in 1..Len(u) : f[i] = f[i - 1] \o u[i]
                         /\ FlattenSeq(u) = f[Len(u)]
    OBVIOUS
  <2>1. PICK f \in [0..Len(u) -> Seq(S)] :
                /\ f[0] = <<>>
                /\ \A i \in 1..Len(u) : f[i] = f[i - 1] \o u[i]
                /\ Len(u) # 0 =>
                      LET flatten[i \in 1..Len(u)] ==
                              IF i = 1 THEN u[i] ELSE flatten[i - 1] \o u[i]
                      IN  flatten[Len(u)] = f[Len(u)]
    BY Concatenations
  <2>2. Len(u) # 0 => FlattenSeq(u) = f[Len(u)]
    BY <2>1 DEF FlattenSeq
  <2>3. Len(u) = 0 => FlattenSeq(u) = f[Len(u)]
    <3>1. Len(u) = 0 => u = <<>>
      OBVIOUS
    <3>. QED
      BY <2>1, <3>1 DEF FlattenSeq
  <2>. QED
    BY <2>1, <2>2, <2>3
<1>3. PICK f \in [0..n -> Seq(S)] :
              /\ f[0] = <<>>
              /\ \A i \in 1..n : f[i] = f[i - 1] \o s[i]
              /\ FlattenSeq(s) = f[n]
  BY <1>2
<1>4. PICK g \in [0..(n + 1) -> Seq(S)] :
              /\ g[0] = <<>>
              /\ \A i \in 1..(n + 1) : g[i] = g[i - 1] \o t[i]
              /\ FlattenSeq(t) = g[n + 1]
  BY <1>1, <1>2
<1> HIDE DEF n
<1> DEFINE T == {i \in Nat : i <= n => g[i] = f[i]}
<1>5. 0 \in T
  BY <1>3, <1>4
<1>6. ASSUME NEW i \in Nat, i \in T PROVE i + 1 \in T
  <2> SUFFICES ASSUME i + 1 <= n PROVE g[i + 1] = f[i + 1]
    OBVIOUS
  <2>1. i + 1 \in 1..n /\ i + 1 \in 1..(n + 1) /\ (i + 1) - 1 = i /\ i <= n
    BY <1>1
  <2>2. t[i + 1] = s[i + 1] /\ g[i] = f[i]
    BY <1>6, <2>1 DEF n
  <2>. QED
    BY <1>3, <1>4, <2>1, <2>2
<1>7. \A i \in Nat : i \in T
  <2> HIDE DEF T
  <2>. QED
    BY <1>5, <1>6, Induction
<1>8. g[n] = f[n]
  BY <1>1, <1>7
<1>9. n + 1 \in 1..(n + 1) /\ (n + 1) - 1 = n /\ n \in 0..n
  BY <1>1
<1>10. g[n + 1] = f[n] \o t[n + 1] /\ f[n] \in Seq(S)
  <2>1. g[n + 1] = g[(n + 1) - 1] \o t[n + 1]
    BY <1>4, <1>9
  <2>2. f[n] \in Seq(S)
    BY <1>3, <1>9
  <2>. QED
    BY <1>8, <1>9, <2>1, <2>2
<1>11. FlattenSeq(s) \in Seq(S) /\ FlattenSeq(s) = f[n]
  BY <1>3, <1>10
<1>12. FlattenSeq(t) \in Seq(S) /\ FlattenSeq(t) = g[n + 1]
  <2>1. n + 1 \in 0..(n + 1)
    BY <1>1
  <2>. QED
    BY <1>4, <2>1
<1>. QED
  BY <1>1, <1>10, <1>11, <1>12

\* The printed blocks of a descriptor.
LEMMA BlocksPrinted ==
    ASSUME NEW d \in Descriptors
    PROVE  d.type \in Types /\ PrintBlocks(d) \in Seq(Printed)
<1>1. CASE d.type = "TAG"
  <2>1. PICK b \in Blocks : d.blocks = <<b>> /\ d.at \in JournalBlocks
    BY <1>1 DEF Descriptors
  <2>2. [at |-> d.at, block |-> b] \in Printed
    BY <2>1 DEF Printed
  <2>3. PrintBlocks(d) = <<[at |-> d.at, block |-> b]>>
    BY <1>1, <2>1 DEF PrintBlocks
  <2>4. \A x \in Printed : <<x>> \in Seq(Printed)
    OBVIOUS
  <2>. QED
    BY <1>1, <2>2, <2>3, <2>4 DEF Types
<1>2. CASE d.type # "TAG"
  <2>1. d.type = "REVOKE" /\ d.blocks \in Seq(Blocks)
    BY <1>2 DEF Descriptors
  <2>2. Blocks \subseteq Printed
    BY DEF Printed
  <2>. QED
    BY <1>2, <2>1, <2>2, SeqMonotonic DEF PrintBlocks, Types
<1>. QED
  BY <1>1, <1>2

\* A step of the loop makes lines of lines.
LEMMA NextLines ==
    ASSUME NEW lines \in Seq(Line), NEW d \in Descriptors
    PROVE  PrintNext(lines, d) \in Seq(Line)
<1> DEFINE k == Len(lines)
           pb == PrintBlocks(d)
<1>1. d.type \in Types /\ pb \in Seq(Printed)
  BY BlocksPrinted
<1> HIDE DEF pb
<1>2. CASE StartsLine(lines, d)
  <2>1. [type |-> d.type, blocks |-> pb] \in Line
    BY <1>1 DEF Line
  <2>2. PrintNext(lines, d) = Append(lines, [type |-> d.type, blocks |-> pb])
    BY <1>2 DEF PrintNext, pb
  <2>. QED
    BY <2>1, <2>2
<1>3. CASE ~StartsLine(lines, d)
  <2>1. lines # <<>> /\ k \in 1..Len(lines) /\ k \in Nat
    BY <1>3 DEF StartsLine
  <2>2. lines[k] \in Line
    BY <2>1, ElementOfSeq
  <2>3. lines[k].type \in Types /\ lines[k].blocks \in Seq(Printed) /\ lines[k] \in Line
    BY <2>2 DEF Line
  <2>4. lines[k].blocks \o pb \in Seq(Printed)
    BY <1>1, <2>3, ConcatProperties
  <2>5. [lines[k] EXCEPT !.blocks = lines[k].blocks \o pb] \in Line
    BY <2>3, <2>4 DEF Line
  <2>6. PrintNext(lines, d) = [lines EXCEPT ![k] = [lines[k] EXCEPT !.blocks = lines[k].blocks \o pb]]
    BY <1>3 DEF PrintNext, pb
  <2>. QED
    BY <2>1, <2>5, <2>6, ExceptSeq
<1>. QED
  BY <1>2, <1>3

\* The loop: the lines after n descriptors.
LEMMA PrintFacts ==
    ASSUME descriptors \in Seq(Descriptors)
    PROVE  \E f \in [0..Len(descriptors) -> Seq(Line)] :
              /\ f[0] = <<>>
              /\ \A n \in 1..Len(descriptors) : f[n] = PrintNext(f[n - 1], descriptors[n])
              /\ PrintDescriptors = f[Len(descriptors)]
<1> DEFINE L == Len(descriptors)
           S == Seq(Line)
           F == [n \in 1..L |-> [lines \in S |-> PrintNext(lines, descriptors[n])]]
           Is(f) == f = [n \in 0..L |-> IF n = 0 THEN <<>> ELSE PrintNext(f[n - 1], descriptors[n])]
<1>1. L \in Nat /\ \A n \in 1..L : descriptors[n] \in Descriptors
  OBVIOUS
<1> HIDE DEF L
<1>2. F \in [1..L -> [S -> S]]
  <2>1. \A n \in 1..L, lines \in S : PrintNext(lines, descriptors[n]) \in S
    BY <1>1, NextLines
  <2> HIDE DEF S
  <2>. QED
    BY <2>1
<1>3. <<>> \in S
  OBVIOUS
<1> HIDE DEF S
<1>4. PICK f \in [0..L -> S] : f[0] = <<>> /\ \A n \in 1..L : f[n] = F[n][f[n - 1]]
  <2> DEFINE none == <<>>
  <2> HIDE DEF F, none
  <2>1. none \in S
    BY <1>3 DEF none
  <2>3. L \in Nat
    BY <1>1
  <2>2. \E f \in [0..L -> S] : f[0] = none /\ \A n \in 1..L : f[n] = F[n][f[n - 1]]
    BY <2>3, <1>2, <2>1, RecursionExists
  <2>. QED
    BY <2>2 DEF none
<1>5. \A n \in 0..L : f[n] = IF n = 0 THEN <<>> ELSE PrintNext(f[n - 1], descriptors[n])
  <2> SUFFICES ASSUME NEW n \in 0..L, n # 0 PROVE f[n] = PrintNext(f[n - 1], descriptors[n])
    BY <1>4
  <2>1. n \in 1..L /\ f[n - 1] \in S
    BY <1>1, <1>4
  <2>. QED
    BY <1>4, <2>1
<1>6. Is(f)
  <2>1. f = [n \in 0..L |-> f[n]]
    BY <1>4
  <2>. QED
    BY <1>5, <2>1
<1>7. PICK g : Is(g) /\ g = CHOOSE h : Is(h)
  BY <1>6
<1>8. PrintDescriptors = g[L]
  BY <1>7 DEF PrintDescriptors, L
<1>9. g \in [0..L -> S] /\ g[0] = <<>> /\ \A n \in 1..L : g[n] = PrintNext(g[n - 1], descriptors[n])
  <2>1. \A n \in 0..L : g[n] = IF n = 0 THEN <<>> ELSE PrintNext(g[n - 1], descriptors[n])
    BY <1>7
  <2>2. g = [n \in 0..L |-> g[n]]
    BY <1>7
  <2> HIDE DEF Is
  <2>3. g[0] = <<>> /\ \A n \in 1..L : g[n] = PrintNext(g[n - 1], descriptors[n])
    BY <1>1, <2>1
  <2> DEFINE T == {n \in Nat : n <= L => g[n] \in S}
  <2>4. 0 \in T
    BY <1>3, <2>3
  <2>5. ASSUME NEW n \in Nat, n \in T PROVE n + 1 \in T
    <3> SUFFICES ASSUME n + 1 <= L PROVE g[n + 1] \in S
      OBVIOUS
    <3>1. n + 1 \in 1..L /\ (n + 1) - 1 = n /\ n <= L
      BY <1>1
    <3>2. g[n] \in S /\ g[n + 1] = PrintNext(g[n], descriptors[n + 1]) /\ descriptors[n + 1] \in Descriptors
      BY <1>1, <2>3, <2>5, <3>1
    <3>. QED
      BY <3>2, NextLines DEF S
  <2>6. \A n \in Nat : n \in T
    <3> HIDE DEF T
    <3>. QED
      BY <2>4, <2>5, Induction
  <2>7. \A n \in 0..L : g[n] \in S
    BY <1>1, <2>6
  <2>. QED
    BY <2>2, <2>3, <2>7
<1>. QED
  BY <1>8, <1>9 DEF L, S

\* What the lines hold under a type, and what the first n descriptors of that type print.
Held(lines, type) ==
    [l \in DOMAIN lines |-> IF lines[l].type = type THEN lines[l].blocks ELSE <<>>]
Said(type, n) ==
    [i \in 1..n |-> IF descriptors[i].type = type THEN PrintBlocks(descriptors[i]) ELSE <<>>]

\* The invariant of the loop.
InOrder(lines, n) ==
    /\ \A l \in DOMAIN lines \ {1} : lines[l].type # lines[l - 1].type
    /\ \A type \in Types : FlattenSeq(Held(lines, type)) = FlattenSeq(Said(type, n))

LEMMA SeqFacts ==
    ASSUME NEW S, NEW n \in Nat, NEW s, s \in [1..n -> Seq(S)]
    PROVE  s \in Seq(Seq(S)) /\ Len(s) = n
OBVIOUS

LEMMA HeldFacts ==
    ASSUME NEW lines \in Seq(Line), NEW type
    PROVE  Held(lines, type) \in Seq(Seq(Printed)) /\ Len(Held(lines, type)) = Len(lines)
<1>1. Len(lines) \in Nat /\ DOMAIN lines = 1..Len(lines)
  OBVIOUS
<1>2. \A l \in 1..Len(lines) : lines[l] \in Line
  BY ElementOfSeq
<1>3. \A l \in 1..Len(lines) : lines[l].blocks \in Seq(Printed)
  BY <1>2 DEF Line
<1>4. Held(lines, type) \in [1..Len(lines) -> Seq(Printed)]
  BY <1>1, <1>3 DEF Held
<1>. QED
  BY <1>1, <1>4, SeqFacts

LEMMA SaidFacts ==
    ASSUME descriptors \in Seq(Descriptors), NEW n \in 0..Len(descriptors), NEW type
    PROVE  Said(type, n) \in Seq(Seq(Printed)) /\ Len(Said(type, n)) = n
<1>1. n \in Nat /\ \A i \in 1..n : descriptors[i] \in Descriptors
  OBVIOUS
<1>2. \A i \in 1..n : PrintBlocks(descriptors[i]) \in Seq(Printed)
  BY <1>1, BlocksPrinted
<1>3. Said(type, n) \in [1..n -> Seq(Printed)]
  BY <1>2 DEF Said
<1>. QED
  BY <1>1, <1>3, SeqFacts

\* What one pass adds under a type is what the descriptor prints.
LEMMA HeldStep ==
    ASSUME NEW lines \in Seq(Line), NEW d \in Descriptors, NEW type \in Types
    PROVE  FlattenSeq(Held(PrintNext(lines, d), type))
             = FlattenSeq(Held(lines, type)) \o (IF d.type = type THEN PrintBlocks(d) ELSE <<>>)
<1> DEFINE k == Len(lines)
           pb == PrintBlocks(d)
           more == IF d.type = type THEN pb ELSE <<>>
           next == PrintNext(lines, d)
           s == Held(lines, type)
           t == Held(next, type)
<1>1. d.type \in Types /\ pb \in Seq(Printed) /\ more \in Seq(Printed)
  BY BlocksPrinted
<1>2. next \in Seq(Line)
  BY NextLines
<1>3. k \in Nat /\ DOMAIN lines = 1..k /\ (k = 0 <=> lines = <<>>)
  OBVIOUS
<1>4. s \in Seq(Seq(Printed)) /\ Len(s) = k /\ t \in Seq(Seq(Printed)) /\ Len(t) = Len(next)
  BY <1>2, HeldFacts
<1>5. \A l \in 1..k : s[l] = IF lines[l].type = type THEN lines[l].blocks ELSE <<>>
  BY <1>3 DEF Held
<1>6. \A l \in 1..Len(next) : t[l] = IF next[l].type = type THEN next[l].blocks ELSE <<>>
  BY <1>2, LenProperties DEF Held
<1>7. CASE StartsLine(lines, d)
  <2> DEFINE new == [type |-> d.type, blocks |-> pb]
  <2>1. next = Append(lines, new)
    BY <1>7 DEF PrintNext
  <2>2. new \in Line
    BY <1>1 DEF Line
  <2>3. Len(next) = k + 1 /\ next[k + 1] = new /\ \A l \in 1..k : next[l] = lines[l]
    <3> HIDE DEF new, next
    <3>. QED
      BY <2>1, <2>2
  <2>4. new.type = d.type /\ new.blocks = pb
    OBVIOUS
  <2> HIDE DEF next, s, t, k, new, pb
  <2>5. \A l \in 1..k : t[l] = s[l]
    BY <1>3, <1>5, <1>6, <2>3
  <2>6. t[k + 1] = more
    <3>1. k + 1 \in 1..Len(next)
      BY <1>3, <2>3
    <3>. QED
      BY <1>6, <2>3, <2>4, <3>1
  <2>7. FlattenSeq(t) = FlattenSeq(s) \o t[Len(t)]
    BY <1>3, <1>4, <2>3, <2>5, FlattenStep
  <2>. QED
    BY <1>4, <2>3, <2>6, <2>7 DEF next, s, t, pb
<1>8. CASE ~StartsLine(lines, d)
  <2>1. lines # <<>> /\ lines[k].type = d.type /\ k \in 1..k
    BY <1>3, <1>8 DEF StartsLine, Last
  <2>2. next = [lines EXCEPT ![k].blocks = lines[k].blocks \o pb]
    BY <1>8 DEF PrintNext
  <2>3. lines[k] \in Line
    BY <2>1, ElementOfSeq
  <2>4. lines[k].blocks \in Seq(Printed)
    BY <2>3 DEF Line
  <2>5. /\ Len(next) = k
        /\ \A l \in 1..k : l # k => next[l] = lines[l]
        /\ next[k].type = d.type /\ next[k].blocks = lines[k].blocks \o pb
    <3> DEFINE e == [lines[k] EXCEPT !.blocks = lines[k].blocks \o pb]
    <3>1. e.type = lines[k].type /\ e.blocks = lines[k].blocks \o pb /\ e \in Line
      <4>1. lines[k].blocks \o pb \in Seq(Printed)
        BY <1>1, <2>4, ConcatProperties
      <4>. QED
        BY <2>3, <4>1 DEF Line
    <3>2. next = [lines EXCEPT ![k] = e]
      BY <2>2
    <3> HIDE DEF e, next
    <3>3. /\ Len([lines EXCEPT ![k] = e]) = Len(lines)
          /\ \A l \in 1..Len(lines) : [lines EXCEPT ![k] = e][l] = IF l = k THEN e ELSE lines[l]
      BY <2>1, <3>1, ExceptSeq
    <3>. QED
      BY <2>1, <3>1, <3>2, <3>3
  <2> DEFINE front == [l \in 1..(k - 1) |-> s[l]]
  <2> HIDE DEF next, s, t, k, pb
  <2>6. k - 1 \in Nat /\ (k - 1) + 1 = k
    BY <1>3, <2>1
  <2>7. front \in Seq(Seq(Printed)) /\ Len(front) = k - 1
    <3>1. \A l \in 1..(k - 1) : s[l] \in Seq(Printed)
      <4>1. \A l \in 1..(k - 1) : l \in 1..Len(s)
        BY <1>3, <1>4
      <4>. QED
        BY <1>4, <4>1, ElementOfSeq
    <3>2. front \in [1..(k - 1) -> Seq(Printed)]
      BY <3>1
    <3> HIDE DEF front
    <3>. QED
      BY <2>6, <3>2, SeqFacts
  <2>8. \A l \in 1..Len(front) : s[l] = front[l] /\ t[l] = front[l]
    <3> SUFFICES ASSUME NEW l \in 1..(k - 1) PROVE s[l] = front[l] /\ t[l] = front[l]
      BY <2>7
    <3>1. l \in 1..k /\ l # k /\ l \in 1..Len(next)
      BY <1>3, <2>5
    <3>2. t[l] = s[l]
      BY <1>5, <1>6, <2>5, <3>1
    <3>. QED
      BY <3>2
  <2> HIDE DEF front
  <2>9. FlattenSeq(s) = FlattenSeq(front) \o s[Len(s)] /\ FlattenSeq(front) \in Seq(Printed)
    <3>1. s \in Seq(Seq(Printed)) /\ Len(s) = Len(front) + 1
      BY <1>4, <2>6, <2>7
    <3>2. \A l \in 1..Len(front) : s[l] = front[l]
      BY <2>8
    <3>. QED
      BY <2>7, <3>1, <3>2, FlattenStep
  <2>10. FlattenSeq(t) = FlattenSeq(front) \o t[Len(t)]
    <3>1. t \in Seq(Seq(Printed)) /\ Len(t) = Len(front) + 1
      BY <1>4, <2>5, <2>6, <2>7
    <3>2. \A l \in 1..Len(front) : t[l] = front[l]
      BY <2>8
    <3>. QED
      BY <2>7, <3>1, <3>2, FlattenStep
  <2>11. t[k] = s[k] \o more /\ s[k] \in Seq(Printed)
    <3>1. k \in 1..Len(next) /\ k \in 1..Len(s)
      BY <1>4, <2>1, <2>5
    <3>2. <<>> \o <<>> = <<>>
      OBVIOUS
    <3>3. s[k] \in Seq(Printed)
      BY <1>4, <3>1, ElementOfSeq
    <3>4. CASE d.type = type
      <4>1. s[k] = lines[k].blocks /\ t[k] = lines[k].blocks \o pb
        BY <1>5, <1>6, <2>1, <2>5, <3>1, <3>4
      <4>. QED
        BY <3>3, <3>4, <4>1
    <3>5. CASE d.type # type
      <4>1. s[k] = <<>> /\ t[k] = <<>>
        BY <1>5, <1>6, <2>1, <2>5, <3>1, <3>5
      <4>. QED
        BY <3>2, <3>3, <3>5, <4>1
    <3>. QED
      BY <3>4, <3>5
  <2>12. FlattenSeq(t) = FlattenSeq(s) \o more
    <3> HIDE DEF more
    <3>1. FlattenSeq(front) \o (s[k] \o more) = (FlattenSeq(front) \o s[k]) \o more
      <4> DEFINE a == FlattenSeq(front)
                 b == s[k]
      <4>1. a \in Seq(Printed) /\ b \in Seq(Printed)
        BY <2>9, <2>11
      <4> HIDE DEF a, b
      <4>2. more \in Seq(Printed)
        BY <1>1
      <4>3. (a \o b) \o more = a \o (b \o more)
        BY <4>1, <4>2, ConcatAssociative
      <4>. QED
        BY <4>3 DEF a, b
    <3>2. Len(s) = k /\ Len(t) = k
      BY <1>4, <2>5
    <3>. QED
      BY <2>9, <2>10, <2>11, <3>1, <3>2
  <2>. QED
    BY <2>12 DEF next, s, t, pb
<1>. QED
  BY <1>7, <1>8

\* A pass keeps the lines in order.
LEMMA InOrderStep ==
    ASSUME descriptors \in Seq(Descriptors), NEW lines \in Seq(Line),
           NEW n \in Nat, n + 1 <= Len(descriptors), InOrder(lines, n)
    PROVE  InOrder(PrintNext(lines, descriptors[n + 1]), n + 1)
<1> DEFINE k == Len(lines)
           d == descriptors[n + 1]
           next == PrintNext(lines, d)
<1>1. d \in Descriptors /\ n \in 0..Len(descriptors) /\ n + 1 \in 0..Len(descriptors)
      /\ n + 1 \in 1..(n + 1)
  OBVIOUS
<1> HIDE DEF d
<1>2. k \in Nat /\ DOMAIN lines = 1..k /\ (k = 0 <=> lines = <<>>)
  OBVIOUS
<1>3. \A l \in 2..k : lines[l].type # lines[l - 1].type
  <2>1. \A l \in DOMAIN lines \ {1} : lines[l].type # lines[l - 1].type
    BY DEF InOrder
  <2>2. \A l \in 2..k : l \in DOMAIN lines \ {1}
    BY <1>2
  <2>. QED
    BY <2>1, <2>2
<1>4. next \in Seq(Line)
  BY <1>1, NextLines
<1>5. \A l \in DOMAIN next \ {1} : next[l].type # next[l - 1].type
  <2>1. CASE StartsLine(lines, d)
    <3> DEFINE new == [type |-> d.type, blocks |-> PrintBlocks(d)]
    <3>1. next = Append(lines, new) /\ new.type = d.type
      BY <2>1 DEF PrintNext
    <3>2. k # 0 => lines[k].type # d.type
      BY <1>2, <2>1 DEF StartsLine, Last
    <3> HIDE DEF new, next
    <3>3. DOMAIN next = 1..(k + 1) /\ next[k + 1] = new /\ \A l \in 1..k : next[l] = lines[l]
      BY <1>2, <3>1
    <3> SUFFICES ASSUME NEW l \in 2..(k + 1) PROVE next[l].type # next[l - 1].type
      BY <1>2, <3>3
    <3> HIDE DEF k
    <3>4. CASE l = k + 1
      <4>1. l - 1 = k /\ k \in 1..k /\ k # 0
        BY <1>2, <3>4
      <4>. QED
        BY <3>1, <3>2, <3>3, <3>4, <4>1
    <3>5. CASE l # k + 1
      <4>1. l \in 1..k /\ l - 1 \in 1..k /\ l \in 2..k
        BY <1>2, <3>5
      <4>. QED
        BY <1>3, <3>3, <4>1
    <3>. QED
      BY <3>4, <3>5
  <2>2. CASE ~StartsLine(lines, d)
    <3>1. next = [lines EXCEPT ![k].blocks = lines[k].blocks \o PrintBlocks(d)]
      BY <2>2 DEF PrintNext
    <3>2. lines # <<>>
      BY <2>2 DEF StartsLine
    <3>3. DOMAIN next = 1..k /\ \A l \in 1..k : next[l].type = lines[l].type
      <4>1. \A l \in 1..k : lines[l] \in Line
        BY ElementOfSeq
      <4>2. \A l \in 1..k : lines[l] = [type |-> lines[l].type, blocks |-> lines[l].blocks]
        BY <4>1 DEF Line
      <4>. QED
        BY <1>2, <3>1, <4>2
    <3> SUFFICES ASSUME NEW l \in 2..k PROVE next[l].type # next[l - 1].type
      BY <1>2, <3>3
    <3>4. l \in 1..k /\ l - 1 \in 1..k
      BY <1>2
    <3> HIDE DEF next, k
    <3>. QED
      BY <1>3, <3>3, <3>4
  <2>. QED
    BY <2>1, <2>2
<1>6. ASSUME NEW type \in Types
      PROVE  FlattenSeq(Held(next, type)) = FlattenSeq(Said(type, n + 1))
  <2> DEFINE s == Said(type, n)
             t == Said(type, n + 1)
             more == IF d.type = type THEN PrintBlocks(d) ELSE <<>>
  <2>1. s \in Seq(Seq(Printed)) /\ Len(s) = n /\ t \in Seq(Seq(Printed)) /\ Len(t) = n + 1
    BY <1>1, SaidFacts
  <2>2. t[n + 1] = more /\ \A i \in 1..n : t[i] = s[i]
    BY <1>1 DEF Said, d
  <2> HIDE DEF s, t
  <2>3. FlattenSeq(t) = FlattenSeq(s) \o more
    BY <2>1, <2>2, FlattenStep
  <2>4. FlattenSeq(Held(next, type)) = FlattenSeq(Held(lines, type)) \o more
    BY <1>1, HeldStep
  <2>5. FlattenSeq(Held(lines, type)) = FlattenSeq(s)
    BY DEF InOrder, s
  <2>. QED
    BY <2>3, <2>4, <2>5 DEF t
<1>. QED
  BY <1>5, <1>6 DEF InOrder, d

\* What is printed is in the order of the journal, each line under its own type.
THEOREM PrintsInOrder == Spec => []PrintedInOrder
<1>1. IInv => PrintedInOrder
  <2> SUFFICES ASSUME descriptors \in Seq(Descriptors) PROVE PrintedInOrder
    BY DEF IInv
  <2> DEFINE L == Len(descriptors)
  <2>1. PICK f \in [0..L -> Seq(Line)] :
                /\ f[0] = <<>>
                /\ \A n \in 1..L : f[n] = PrintNext(f[n - 1], descriptors[n])
                /\ PrintDescriptors = f[L]
    BY PrintFacts
  <2>2. L \in Nat /\ DOMAIN descriptors = 1..L
    OBVIOUS
  <2> DEFINE T == {n \in Nat : n <= L => InOrder(f[n], n)}
  <2>3. 0 \in T
    <3>1. \A type \in Types : Held(<<>>, type) = Said(type, 0)
      BY DEF Held, Said
    <3>2. InOrder(<<>>, 0)
      BY <3>1 DEF InOrder
    <3>. QED
      BY <2>1, <3>2
  <2>4. ASSUME NEW n \in Nat, n \in T PROVE n + 1 \in T
    <3> SUFFICES ASSUME n + 1 <= L PROVE InOrder(f[n + 1], n + 1)
      OBVIOUS
    <3>1. n + 1 \in 1..L /\ (n + 1) - 1 = n /\ n <= L /\ n \in 0..L
      BY <2>2
    <3>2. f[n + 1] = PrintNext(f[n], descriptors[n + 1]) /\ f[n] \in Seq(Line) /\ InOrder(f[n], n)
      BY <2>1, <2>4, <3>1
    <3>. QED
      BY <3>2, InOrderStep
  <2>5. \A n \in Nat : n \in T
    <3> HIDE DEF T
    <3>. QED
      BY <2>3, <2>4, Induction
  <2>6. InOrder(PrintDescriptors, L)
    BY <2>1, <2>2, <2>5
  <2> HIDE DEF L
  <2>7. \A type \in Types :
           FlattenSeq(Held(PrintDescriptors, type)) = FlattenSeq(Said(type, L))
    BY <2>6 DEF InOrder
  <2>. QED
    BY <2>2, <2>6, <2>7 DEF PrintedInOrder, InOrder, Held, Said, Types
<1>. QED
  BY <1>1, Inductive, PTL

-------------------------------------------------------------------------------
(* Directory blocks. *)

(***************************************************************************)
(* Sorting.                                                                *)
(***************************************************************************)

\* Distinct numbers can be put in order: each goes where as many are not greater.
LEMMA OrderExists ==
    ASSUME NEW n \in Nat, NEW key \in [1..n -> Int],
           \A i, j \in 1..n : key[i] = key[j] => i = j
    PROVE  \E p \in Bijection(1..n, 1..n) : \A i, j \in 1..n : i < j => key[p[i]] < key[p[j]]
<1> DEFINE Upto(i) == {k \in 1..n : key[k] <= key[i]}
           rank == [i \in 1..n |-> Cardinality(Upto(i))]
<1>1. IsFiniteSet(1..n) /\ Cardinality(1..n) = n
  BY FS_Interval
<1>2. \A i \in 1..n : IsFiniteSet(Upto(i)) /\ Cardinality(Upto(i)) \in 1..n
  <2> SUFFICES ASSUME NEW i \in 1..n PROVE IsFiniteSet(Upto(i)) /\ Cardinality(Upto(i)) \in 1..n
    OBVIOUS
  <2>1. Upto(i) \in SUBSET (1..n) /\ i \in Upto(i)
    OBVIOUS
  <2> HIDE DEF Upto
  <2>2. IsFiniteSet(Upto(i)) /\ Cardinality(Upto(i)) <= n
    BY <1>1, <2>1, FS_Subset
  <2>3. Cardinality(Upto(i)) \in Nat /\ Cardinality(Upto(i)) # 0
    BY <2>1, <2>2, FS_CardinalityType, FS_EmptySet
  <2>. QED
    BY <2>2, <2>3
<1>3. ASSUME NEW i \in 1..n, NEW j \in 1..n, key[i] < key[j] PROVE rank[i] < rank[j]
  <2>1. Upto(i) \in SUBSET Upto(j) /\ j \in Upto(j) /\ j \notin Upto(i)
    BY <1>3
  <2> HIDE DEF Upto
  <2>2. Cardinality(Upto(i)) <= Cardinality(Upto(j)) /\ Cardinality(Upto(i)) # Cardinality(Upto(j))
    <3>1. IsFiniteSet(Upto(j)) /\ Upto(i) # Upto(j)
      BY <1>2, <2>1
    <3>. QED
      BY <2>1, <3>1, FS_Subset
  <2>. QED
    BY <1>2, <2>2
<1>4. rank \in [1..n -> 1..n]
  BY <1>2
<1> HIDE DEF rank, Upto
<1>5. \A i, j \in 1..n : rank[i] = rank[j] => i = j
  <2> SUFFICES ASSUME NEW i \in 1..n, NEW j \in 1..n, rank[i] = rank[j] PROVE i = j
    OBVIOUS
  <2>1. ~(key[i] < key[j]) /\ ~(key[j] < key[i])
    BY <1>3, <1>4
  <2>2. key[i] \in Int /\ key[j] \in Int
    OBVIOUS
  <2>3. key[i] = key[j]
    BY <2>1, <2>2
  <2>. QED
    BY <2>3
<1>6. rank \in Bijection(1..n, 1..n)
  <2>1. rank \in Injection(1..n, 1..n)
    BY <1>4, <1>5, Fun_IsInj
  <2>2. rank \in Surjection(1..n, 1..n)
    BY <1>1, <2>1, FS_Injection
  <2>. QED
    BY <2>1, <2>2 DEF Bijection
<1> DEFINE p == Inverse(rank, 1..n, 1..n)
<1>7. p \in Bijection(1..n, 1..n) /\ \A i \in 1..n : p[rank[i]] = i
  BY <1>6, Fun_BijInverse
<1> HIDE DEF p
<1>8. p \in [1..n -> 1..n] /\ \A i \in 1..n : rank[p[i]] = i
  <2>1. p \in [1..n -> 1..n]
    BY <1>7, Zenon DEF Bijection, Injection
  <2>2. \A i \in 1..n : \E k \in 1..n : rank[k] = i
    BY <1>6, Zenon DEF Bijection, Surjection
  <2>3. ASSUME NEW i \in 1..n PROVE rank[p[i]] = i
    <3>1. PICK k \in 1..n : rank[k] = i
      BY <2>2
    <3>. QED
      BY <1>7, <3>1
  <2>. QED
    BY <2>1, <2>3
<1>9. ASSUME NEW i \in 1..n, NEW j \in 1..n, i < j PROVE key[p[i]] < key[p[j]]
  <2>1. p[i] \in 1..n /\ p[j] \in 1..n /\ rank[p[i]] = i /\ rank[p[j]] = j
    BY <1>8
  <2>2. key[p[i]] \in Int /\ key[p[j]] \in Int
    BY <2>1
  <2>3. CASE key[p[j]] < key[p[i]]
    <3>1. rank[p[j]] < rank[p[i]]
      BY <1>3, <2>1, <2>3
    <3>. QED
      BY <1>9, <2>1, <3>1
  <2>4. CASE key[p[j]] = key[p[i]]
    <3>1. p[j] = p[i]
      BY <2>1, <2>4
    <3>. QED
      BY <1>9, <2>1, <3>1
  <2>. QED
    BY <2>2, <2>3, <2>4
<1>. QED
  BY <1>7, <1>9

\* What std::sort leaves of entries at different places: the same ones, in the order of
\* their places.
LEMMA SortedFacts ==
    ASSUME NEW n \in Nat, NEW S, NEW t \in [1..n -> S],
           \A i \in 1..n : t[i].at \in Int,
           \A i, j \in 1..n : t[i].at = t[j].at => i = j
    PROVE  /\ Sorted(t) \in [1..n -> S]
           /\ \A i \in 1..n : \E k \in 1..n : Sorted(t)[i] = t[k]
           /\ \A k \in 1..n : \E i \in 1..n : Sorted(t)[i] = t[k]
           /\ \A i, j \in 1..n : i < j => Sorted(t)[i].at < Sorted(t)[j].at
<1> DEFINE key == [i \in 1..n |-> t[i].at]
           Sorts(p) == \A i, j \in 1..n : i < j => ~Before(t[p[j]], t[p[i]])
           order == CHOOSE p \in Bijection(1..n, 1..n) : Sorts(p)
<1>1. \E p \in Bijection(1..n, 1..n) : Sorts(p)
  <2>1. key \in [1..n -> Int] /\ \A i, j \in 1..n : key[i] = key[j] => i = j
    OBVIOUS
  <2>2. \A i \in 1..n : key[i] = t[i].at
    OBVIOUS
  <2> HIDE DEF key
  <2>3. PICK p \in Bijection(1..n, 1..n) : \A i, j \in 1..n : i < j => key[p[i]] < key[p[j]]
    BY <2>1, OrderExists
  <2>4. p \in [1..n -> 1..n]
    BY Zenon DEF Bijection, Injection
  <2>5. ASSUME NEW i \in 1..n, NEW j \in 1..n, i < j PROVE ~Before(t[p[j]], t[p[i]])
    <3>1. p[i] \in 1..n /\ p[j] \in 1..n /\ key[p[i]] < key[p[j]]
      BY <2>3, <2>4, <2>5
    <3>2. t[p[i]].at < t[p[j]].at /\ t[p[i]].at \in Int /\ t[p[j]].at \in Int
      BY <2>2, <3>1
    <3>. QED
      BY <3>2 DEF Before
  <2>. QED
    BY <2>5
<1>2. order \in Bijection(1..n, 1..n) /\ Sorts(order)
  <2> HIDE DEF Sorts
  <2>. QED
    BY <1>1
<1>3. Sorted(t) = [i \in 1..n |-> t[order[i]]]
  <2>1. DOMAIN t = 1..n
    OBVIOUS
  <2>. QED
    BY <2>1 DEF Sorted
<1> HIDE DEF order
<1>4. /\ order \in [1..n -> 1..n]
      /\ \A a, b \in 1..n : order[a] = order[b] => a = b
      /\ \A k \in 1..n : \E i \in 1..n : order[i] = k
  <2>1. order \in Injection(1..n, 1..n) /\ order \in Surjection(1..n, 1..n)
    BY <1>2, Zenon DEF Bijection
  <2>2. order \in [1..n -> 1..n] /\ IsInjective(order) /\ DOMAIN order = 1..n
    BY <2>1, Zenon DEF Injection
  <2>. QED
    BY <2>1, <2>2, Zenon DEF Surjection, IsInjective
<1>5. ASSUME NEW i \in 1..n, NEW j \in 1..n, i < j PROVE Sorted(t)[i].at < Sorted(t)[j].at
  <2>1. order[i] \in 1..n /\ order[j] \in 1..n /\ order[i] # order[j]
    BY <1>4, <1>5
  <2>2. /\ t[order[i]].at \in Int /\ t[order[j]].at \in Int
        /\ t[order[i]].at # t[order[j]].at
    BY <2>1
  <2>3. ~(t[order[j]].at < t[order[i]].at)
    BY <1>2, <1>5 DEF Before
  <2>4. Sorted(t)[i] = t[order[i]] /\ Sorted(t)[j] = t[order[j]]
    BY <1>3
  <2>. QED
    BY <2>2, <2>3, <2>4
<1>6. Sorted(t) \in [1..n -> S]
  BY <1>3, <1>4
<1>7. \A i \in 1..n : order[i] \in 1..n /\ Sorted(t)[i] = t[order[i]]
  BY <1>3, <1>4
<1>8. \A k \in 1..n : \E i \in 1..n : Sorted(t)[i] = t[k]
  <2> SUFFICES ASSUME NEW k \in 1..n PROVE \E i \in 1..n : Sorted(t)[i] = t[k]
    OBVIOUS
  <2>1. PICK i \in 1..n : order[i] = k
    BY <1>4
  <2>. QED
    BY <1>7, <2>1
<1>9. \A i \in 1..n : \E k \in 1..n : Sorted(t)[i] = t[k]
  BY <1>7
<1>. QED
  BY <1>5, <1>6, <1>8, <1>9

(***************************************************************************)
(* The inductive invariant.                                                *)
(***************************************************************************)

\* The values of DirEntry.
Slots == [at : Int, recLen : Int, name : {e.name : e \in UNION Contents}, cur : Nat, next : Nat]

\* A slot made from an entry of the block.
MadeOf(d, e) == d.at = e.at /\ d.recLen = e.recLen /\ d.name = e.name

\* What a read in progress has: the entries delivered to it, each once, in any order.
Collects(s, entries) ==
    /\ s \in Seq(Slots)
    /\ \A i \in DOMAIN s : \E e \in entries : s[i] = DirEntry(e)
    /\ \A e \in entries : \E i \in DOMAIN s : s[i] = DirEntry(e)
    /\ \A i, j \in DOMAIN s : s[i].at = s[j].at => i = j

\* What a finished read has: all entries of the block in the order of their places.
InPlace(s, entries) ==
    /\ s \in Seq(Slots)
    /\ \A i \in DOMAIN s : \E e \in entries : MadeOf(s[i], e)
    /\ \A e \in entries : \E i \in DOMAIN s : MadeOf(s[i], e)
    /\ \A i, j \in DOMAIN s : i < j => s[i].at < s[j].at

\* And they are linked.
HasLinks(s) ==
    /\ \A i \in DOMAIN s : s[i].cur = i - 1 /\ s[i].next = NextOf(s, i)
    /\ Asserted(s)

DirectoryInv ==
    /\ content \in Contents
    /\ seen \subseteq content
    /\ done \subseteq Objects
    /\ reading \in (Objects \ done) \cup {Nobody}
    /\ dirEntries \in [Objects -> Seq(Slots)]
    /\ reading # Nobody => Collects(dirEntries[reading], seen)
    /\ \A o \in done : InPlace(dirEntries[o], content) /\ HasLinks(dirEntries[o])
    /\ \A o \in Objects \ done : o # reading => dirEntries[o] = <<>>

(***************************************************************************)
(* The entries of a block and the slots made from them.                    *)
(***************************************************************************)

\* The fields of a slot.
LEMMA SlotFacts ==
    ASSUME NEW d \in Slots
    PROVE  d.at \in Int /\ d.recLen \in Int /\ d.cur \in Nat /\ d.next \in Nat
BY DEF Slots

\* An entry of the block, and the slot made from it.
LEMMA EntryFacts ==
    ASSUME content \in Contents, NEW e \in content
    PROVE  /\ e.at \in Nat /\ e.at < BlockSize /\ BlockSize \in Nat
           /\ e.recLen \in Nat
           /\ DirEntry(e) \in Slots /\ MadeOf(DirEntry(e), e)
           /\ \A f \in content : e.at = f.at => e = f
<1>1. /\ e.at \in 0..(BlockSize - 1) /\ e.recLen \in Nat /\ BlockSize \in Nat
      /\ \A f \in content : e.at = f.at => e = f
  BY DirectoryAssumption
<1>2. e.name \in {x.name : x \in UNION Contents}
  OBVIOUS
<1>3. DirEntry(e) \in Slots
  BY <1>1, <1>2 DEF Slots, DirEntry
<1>4. MadeOf(DirEntry(e), e)
  BY DEF MadeOf, DirEntry
<1>. QED
  BY <1>1, <1>3, <1>4

\* The next entry delivered is put behind the others.
LEMMA AppendCollects ==
    ASSUME content \in Contents, NEW s, NEW entries \in SUBSET content, Collects(s, entries),
           NEW e \in content \ entries
    PROVE  Collects(Append(s, DirEntry(e)), entries \cup {e})
<1> DEFINE d == DirEntry(e)
           t == Append(s, d)
           n == Len(s)
<1>1. /\ s \in Seq(Slots) /\ n \in Nat /\ DOMAIN s = 1..n
      /\ \A i \in 1..n : \E x \in entries : s[i] = DirEntry(x)
      /\ \A x \in entries : \E i \in 1..n : s[i] = DirEntry(x)
      /\ \A i, j \in 1..n : s[i].at = s[j].at => i = j
  BY DEF Collects
<1>2. d \in Slots /\ d.at = e.at
  BY EntryFacts DEF MadeOf
<1>3. /\ t \in Seq(Slots) /\ DOMAIN t = 1..(n + 1) /\ t[n + 1] = d
      /\ \A i \in 1..n : t[i] = s[i]
  BY <1>1, <1>2
<1> HIDE DEF d, t, n
<1>4. \A i \in 1..(n + 1) : i = n + 1 \/ i \in 1..n
  BY <1>1
<1>5. \A i \in 1..n : t[i].at # e.at
  <2> SUFFICES ASSUME NEW i \in 1..n PROVE t[i].at # e.at
    OBVIOUS
  <2>1. PICK x \in entries : s[i] = DirEntry(x)
    BY <1>1
  <2>2. x \in content /\ x # e /\ t[i].at = x.at
    BY <1>3, <2>1, EntryFacts DEF MadeOf
  <2>. QED
    BY <2>2, EntryFacts
<1>6. ASSUME NEW i \in 1..(n + 1), NEW j \in 1..(n + 1), t[i].at = t[j].at PROVE i = j
  <2>1. CASE i \in 1..n /\ j \in 1..n
    BY <1>1, <1>3, <1>6, <2>1
  <2>2. CASE i = n + 1 /\ j \in 1..n
    BY <1>2, <1>3, <1>5, <1>6, <2>2
  <2>3. CASE i \in 1..n /\ j = n + 1
    BY <1>2, <1>3, <1>5, <1>6, <2>3
  <2>. QED
    BY <1>4, <2>1, <2>2, <2>3
<1>7. \A i \in 1..(n + 1) : \E x \in entries \cup {e} : t[i] = DirEntry(x)
  BY <1>1, <1>3, <1>4 DEF d
<1>8. \A x \in entries \cup {e} : \E i \in 1..(n + 1) : t[i] = DirEntry(x)
  <2> SUFFICES ASSUME NEW x \in entries \cup {e} PROVE \E i \in 1..(n + 1) : t[i] = DirEntry(x)
    OBVIOUS
  <2>1. CASE x = e
    <3>1. n + 1 \in 1..(n + 1)
      BY <1>1
    <3>. QED
      BY <1>3, <2>1, <3>1 DEF d
  <2>2. CASE x \in entries
    <3>1. PICK i \in 1..n : s[i] = DirEntry(x)
      BY <1>1, <2>2
    <3>2. i \in 1..(n + 1)
      BY <1>1
    <3>. QED
      BY <1>3, <3>1, <3>2
  <2>. QED
    BY <2>1, <2>2
<1>9. Collects(t, entries \cup {e})
  BY <1>3, <1>6, <1>7, <1>8 DEF Collects
<1>. QED
  BY <1>9 DEF t, d

\* Where the record of an entry ends, by the index of the entry there.
LEMMA NextFacts ==
    ASSUME NEW s, NEW n \in Nat, DOMAIN s = 1..n, NEW i \in 1..n
    PROVE  /\ NextOf(s, i) \in Nat
           /\ \/ /\ NextOf(s, i) = 0
                 /\ \A j \in 1..n : s[j].at # s[i].at + s[i].recLen
              \/ /\ NextOf(s, i) + 1 \in 1..n
                 /\ s[NextOf(s, i) + 1].at = s[i].at + s[i].recLen
<1> DEFINE after == {j \in 1..n : s[j].at = s[i].at + s[i].recLen}
           first == CHOOSE j \in after : \A k \in after : j <= k
<1>1. NextOf(s, i) = IF after = {} THEN 0 ELSE first - 1
  BY DEF NextOf
<1>2. CASE after = {}
  BY <1>1, <1>2
<1>3. CASE after # {}
  <2>1. after \subseteq Nat
    OBVIOUS
  <2>2. \E j \in after : \A k \in after : j <= k
    <3> HIDE DEF after
    <3>. QED
      BY <1>3, <2>1, LeastNumber
  <2>3. first \in after
    BY <2>2
  <2> HIDE DEF first
  <2>4. first \in 1..n /\ s[first].at = s[i].at + s[i].recLen /\ NextOf(s, i) = first - 1
    BY <1>1, <1>3, <2>3
  <2>5. NextOf(s, i) + 1 = first /\ NextOf(s, i) \in Nat
    BY <2>4
  <2>. QED
    BY <2>4, <2>5
<1>. QED
  BY <1>2, <1>3

\* Sorting and linking what a read has collected.
LEMMA LinkedFacts ==
    ASSUME content \in Contents, NEW s, Collects(s, content)
    PROVE  LET t == Linked(Sorted(s))
           IN  /\ InPlace(t, content)
               /\ \A i \in DOMAIN t : t[i].cur = i - 1 /\ t[i].next = NextOf(t, i)
<1> DEFINE n == Len(s)
           r == Sorted(s)
           t == Linked(r)
<1>1. /\ s \in Seq(Slots) /\ n \in Nat /\ DOMAIN s = 1..n /\ s \in [1..n -> Slots]
      /\ \A i \in 1..n : \E e \in content : s[i] = DirEntry(e)
      /\ \A e \in content : \E i \in 1..n : s[i] = DirEntry(e)
      /\ \A i, j \in 1..n : s[i].at = s[j].at => i = j
  BY DEF Collects
<1> HIDE DEF n
<1>2. /\ r \in [1..n -> Slots]
      /\ \A i \in 1..n : \E k \in 1..n : r[i] = s[k]
      /\ \A k \in 1..n : \E i \in 1..n : r[i] = s[k]
      /\ \A i, j \in 1..n : i < j => r[i].at < r[j].at
  <2>1. \A i \in 1..n : s[i].at \in Int
    BY <1>1, SlotFacts
  <2>. QED
    BY <1>1, <2>1, SortedFacts
<1> HIDE DEF r
<1>3. t = [i \in 1..n |-> [r[i] EXCEPT !.cur = i - 1, !.next = NextOf(r, i)]]
  <2>1. DOMAIN r = 1..n
    BY <1>2
  <2>. QED
    BY <2>1 DEF Linked
<1>4. \A i \in 1..n : NextOf(r, i) \in Nat
  <2>1. DOMAIN r = 1..n
    BY <1>2
  <2>. QED
    BY <1>1, <2>1, NextFacts
<1> HIDE DEF t
<1>5. ASSUME NEW i \in 1..n
      PROVE  /\ t[i] \in Slots /\ t[i].cur = i - 1 /\ t[i].next = NextOf(r, i)
             /\ t[i].at = r[i].at /\ t[i].recLen = r[i].recLen /\ t[i].name = r[i].name
  <2>1. r[i] \in Slots
    BY <1>2
  <2>3. NextOf(r, i) \in Nat /\ i - 1 \in Nat
    BY <1>4
  <2>2. t[i] = [r[i] EXCEPT !.cur = i - 1, !.next = NextOf(r, i)]
    BY <1>3
  <2>. QED
    BY <2>1, <2>2, <2>3 DEF Slots
<1>6. /\ DOMAIN t = 1..n /\ t \in [1..n -> Slots] /\ t \in Seq(Slots)
  <2>1. DOMAIN t = 1..n /\ t = [i \in 1..n |-> t[i]]
    BY <1>3
  <2>2. t \in [1..n -> Slots]
    BY <1>5, <2>1
  <2>. QED
    BY <1>1, <2>1, <2>2
<1>7. ASSUME NEW i \in 1..n PROVE NextOf(t, i) = NextOf(r, i)
  <2> DEFINE A == {j \in DOMAIN t : t[j].at = t[i].at + t[i].recLen}
             B == {j \in DOMAIN r : r[j].at = r[i].at + r[i].recLen}
             First(after) == IF after = {} THEN 0 ELSE (CHOOSE j \in after : \A k \in after : j <= k) - 1
  <2>1. DOMAIN t = 1..n /\ DOMAIN r = 1..n
    BY <1>2, <1>6
  <2>2. A = B
    BY <1>5, <2>1
  <2>3. NextOf(t, i) = First(A) /\ NextOf(r, i) = First(B)
    BY Zenon DEF NextOf
  <2> HIDE DEF A, B, First
  <2>. QED
    BY <2>2, <2>3
<1>8. \A i \in 1..n : \E e \in content : MadeOf(t[i], e)
  <2> SUFFICES ASSUME NEW i \in 1..n PROVE \E e \in content : MadeOf(t[i], e)
    OBVIOUS
  <2>1. PICK k \in 1..n : r[i] = s[k]
    BY <1>2
  <2>2. PICK e \in content : s[k] = DirEntry(e)
    BY <1>1
  <2>. QED
    BY <1>5, <2>1, <2>2, EntryFacts DEF MadeOf
<1>9. \A e \in content : \E i \in 1..n : MadeOf(t[i], e)
  <2> SUFFICES ASSUME NEW e \in content PROVE \E i \in 1..n : MadeOf(t[i], e)
    OBVIOUS
  <2>1. PICK k \in 1..n : s[k] = DirEntry(e)
    BY <1>1
  <2>2. PICK i \in 1..n : r[i] = s[k]
    BY <1>2
  <2>. QED
    BY <1>5, <2>1, <2>2, EntryFacts DEF MadeOf
<1>10. InPlace(t, content)
  <2>1. \A i, j \in 1..n : i < j => t[i].at < t[j].at
    BY <1>2, <1>5
  <2>. QED
    BY <1>6, <1>8, <1>9, <2>1 DEF InPlace
<1>. QED
  BY <1>5, <1>6, <1>7, <1>10 DEF t, r

(***************************************************************************)
(* The invariant is inductive.                                             *)
(***************************************************************************)

\* Each step keeps the invariant: before the first call,
LEMMA DirectoryInitKeeps == DirectoryInit => DirectoryInv
<1> SUFFICES ASSUME DirectoryInit PROVE DirectoryInv
  OBVIOUS
<1>1. <<>> \in Seq(Slots)
  OBVIOUS
<1>. QED
  BY <1>1 DEF DirectoryInit, DirectoryInv

\* when a read begins, which finds the buffer free,
LEMMA BeginReadKeeps ==
    ASSUME DirectoryInv, ~died, reading = Nobody \/ reading \in done,
           NEW o \in Objects, BeginRead(o)
    PROVE  DirectoryInv'
<1>1. reading = Nobody /\ o \notin done /\ dirEntries[o] = <<>>
  BY DEF DirectoryInv, BeginRead
<1>2. Collects(<<>>, {})
  <2>1. <<>> \in Seq(Slots) /\ DOMAIN <<>> = {}
    OBVIOUS
  <2>. QED
    BY <2>1 DEF Collects
<1>3. /\ GetBlock(o) /\ UNCHANGED <<content, dirEntries, done>>
  BY <1>1 DEF BeginRead
<1>4. CASE reading' = o /\ seen' = {}
  <2>1. o # Nobody /\ \A x \in Objects : x # reading
    BY <1>1, DirectoryAssumption
  <2>2. /\ \A x \in done : InPlace(dirEntries[x], content) /\ HasLinks(dirEntries[x])
        /\ \A x \in Objects \ done : dirEntries[x] = <<>>
    BY <1>1, <2>1 DEF DirectoryInv
  <2>3. Collects(dirEntries'[reading'], seen')
    BY <1>1, <1>2, <1>3, <1>4
  <2>. QED
    BY <1>1, <1>3, <1>4, <2>1, <2>2, <2>3 DEF DirectoryInv
<1>5. CASE UNCHANGED <<reading, seen>>
  BY <1>3, <1>5 DEF DirectoryInv
<1>. QED
  BY <1>3, <1>4, <1>5 DEF GetBlock

\* when an entry is delivered,
LEMMA ReadDirEntryKeeps ==
    ASSUME DirectoryInv, ReadDirEntry
    PROVE  DirectoryInv'
<1>1. PICK e \in content \ seen :
          /\ seen' = seen \cup {e}
          /\ dirEntries' = [dirEntries EXCEPT ![reading] = Append(@, DirEntry(e))]
  BY DEF ReadDirEntry
<1>2. /\ reading # Nobody /\ reading \in Objects \ done
      /\ UNCHANGED <<content, good, reading, done, died>>
  BY DEF ReadDirEntry, DirectoryInv
<1>3. Collects(Append(dirEntries[reading], DirEntry(e)), seen \cup {e})
  BY <1>1, <1>2, AppendCollects DEF DirectoryInv
<1>4. /\ dirEntries'[reading] = Append(dirEntries[reading], DirEntry(e))
      /\ \A o \in Objects : o # reading => dirEntries'[o] = dirEntries[o]
      /\ dirEntries' \in [Objects -> Seq(Slots)]
  <2>1. Append(dirEntries[reading], DirEntry(e)) \in Seq(Slots)
    BY <1>3 DEF Collects
  <2>2. dirEntries \in [Objects -> Seq(Slots)]
    BY DEF DirectoryInv
  <2> HIDE DEF Slots
  <2>. QED
    BY <1>1, <1>2, <2>1, <2>2
<1>5. \A o \in done : InPlace(dirEntries'[o], content) /\ HasLinks(dirEntries'[o])
  BY <1>2, <1>4 DEF DirectoryInv
<1>6. \A o \in Objects \ done : o # reading => dirEntries'[o] = <<>>
  BY <1>4 DEF DirectoryInv
<1>. QED
  BY <1>1, <1>2, <1>3, <1>4, <1>5, <1>6 DEF DirectoryInv

\* and when a read sorts and links what it has.
LEMMA EndReadKeeps ==
    ASSUME DirectoryInv, EndRead
    PROVE  DirectoryInv'
<1> DEFINE linked == Linked(Sorted(dirEntries[reading]))
<1>1. /\ reading # Nobody /\ reading \in Objects \ done /\ seen = content
      /\ content' = content /\ seen' = seen
      /\ IF Asserted(linked)
         THEN /\ dirEntries' = [dirEntries EXCEPT ![reading] = linked]
              /\ done' = done \cup {reading} /\ reading' = Nobody
         ELSE UNCHANGED <<dirEntries, done, reading>>
  BY DEF EndRead, DirectoryInv
<1>2. /\ InPlace(linked, content)
      /\ \A i \in DOMAIN linked : linked[i].cur = i - 1 /\ linked[i].next = NextOf(linked, i)
  BY <1>1, LinkedFacts DEF DirectoryInv
<1> HIDE DEF linked
<1>3. CASE Asserted(linked)
  <2>1. HasLinks(linked)
    BY <1>2, <1>3 DEF HasLinks
  <2>2. /\ dirEntries'[reading] = linked
        /\ \A o \in Objects : o # reading => dirEntries'[o] = dirEntries[o]
        /\ dirEntries' \in [Objects -> Seq(Slots)]
    <3>1. linked \in Seq(Slots)
      BY <1>2 DEF InPlace
    <3>2. dirEntries \in [Objects -> Seq(Slots)]
      BY DEF DirectoryInv
    <3>. QED
      BY <1>1, <1>3, <3>1, <3>2
  <2>3. \A o \in done' : InPlace(dirEntries'[o], content) /\ HasLinks(dirEntries'[o])
    BY <1>1, <1>2, <1>3, <2>1, <2>2 DEF DirectoryInv
  <2>4. \A o \in Objects \ done' : dirEntries'[o] = <<>>
    BY <1>1, <1>3, <2>2 DEF DirectoryInv
  <2>. QED
    BY <1>1, <1>3, <2>2, <2>3, <2>4 DEF DirectoryInv
<1>4. CASE ~Asserted(linked)
  BY <1>1, <1>4 DEF DirectoryInv
<1>. QED
  BY <1>3, <1>4

\* An object that is being read has the entries delivered so far, each once; one that was
\* read has all entries of the block in order, linked and asserted; the static buffer is
\* never asked for twice.
THEOREM DirectoryInductive == DirectorySpec => []DirectoryInv
<1>1. DirectoryInv /\ [DirectoryNext]_directoryVars => DirectoryInv'
  <2> SUFFICES ASSUME DirectoryInv, [DirectoryNext]_directoryVars PROVE DirectoryInv'
    OBVIOUS
  <2>1. CASE UNCHANGED directoryVars
    BY <2>1 DEF directoryVars, DirectoryInv
  <2>2. CASE ~died /\ (reading = Nobody \/ reading \in done) /\ \E o \in Objects : BeginRead(o)
    BY <2>2, BeginReadKeeps
  <2>3. CASE ReadDirEntry
    BY <2>3, ReadDirEntryKeeps
  <2>4. CASE EndRead
    BY <2>4, EndReadKeeps
  <2>. QED
    BY <2>1, <2>2, <2>3, <2>4 DEF DirectoryNext
<1>. QED
  BY <1>1, DirectoryInitKeeps, PTL DEF DirectorySpec

(***************************************************************************)
(* What a reader of the entries relies on.                                 *)
(***************************************************************************)

\* The types of the entries of a finished read, and what NextFacts says of them.
LEMMA ReadFacts ==
    ASSUME DirectoryInv, NEW o \in done
    PROVE  LET s == dirEntries[o]
           IN  /\ Len(s) \in Nat /\ DOMAIN s = 1..Len(s) /\ s \in Seq(Slots)
               /\ \A i \in 1..Len(s) :
                     /\ s[i].at \in Nat /\ s[i].recLen \in Nat /\ s[i].at < BlockSize
                     /\ s[i].cur = i - 1 /\ s[i].next \in Nat
                     /\ IF s[i].next = 0
                        THEN s[i].at + s[i].recLen = BlockSize
                        ELSE /\ s[i].next + 1 \in 1..Len(s)
                             /\ s[s[i].next + 1].at = s[i].at + s[i].recLen
               /\ InPlace(s, content)
<1> DEFINE s == dirEntries[o]
<1>1. content \in Contents /\ InPlace(s, content) /\ HasLinks(s)
  BY DEF DirectoryInv
<1> HIDE DEF s
<1>2. s \in Seq(Slots) /\ Len(s) \in Nat /\ DOMAIN s = 1..Len(s)
  BY <1>1 DEF InPlace
<1>3. ASSUME NEW i \in 1..Len(s)
      PROVE  s[i].at \in Nat /\ s[i].recLen \in Nat /\ s[i].at < BlockSize
  <2>1. PICK e \in content : MadeOf(s[i], e)
    BY <1>1, <1>2 DEF InPlace
  <2>2. s[i].at = e.at /\ s[i].recLen = e.recLen
    BY <2>1 DEF MadeOf
  <2>. QED
    BY <1>1, <2>2, EntryFacts
<1>4. ASSUME NEW i \in 1..Len(s)
      PROVE  /\ s[i].cur = i - 1 /\ s[i].next \in Nat
             /\ IF s[i].next = 0
                THEN s[i].at + s[i].recLen = BlockSize
                ELSE /\ s[i].next + 1 \in 1..Len(s)
                     /\ s[s[i].next + 1].at = s[i].at + s[i].recLen
  <2>1. s[i].cur = i - 1 /\ s[i].next = NextOf(s, i)
    BY <1>1, <1>2 DEF HasLinks
  <2>2. s[i].next > 0 \/ s[i].at + s[i].recLen = BlockSize
    BY <1>1, <1>2 DEF HasLinks, Asserted
  <2>3. /\ s[i].next \in Nat
        /\ \/ s[i].next = 0
           \/ /\ s[i].next + 1 \in 1..Len(s)
              /\ s[s[i].next + 1].at = s[i].at + s[i].recLen
    BY <1>2, <2>1, NextFacts
  <2>. QED
    BY <2>1, <2>2, <2>3
<1>. QED
  BY <1>1, <1>2, <1>3, <1>4 DEF s

\* Where the link of an entry leads: to the end, to the entry itself if it has no length, or
\* to one behind it.
LEMMA LinkFacts ==
    ASSUME DirectoryInv, NEW o \in done, NEW i \in 1..Len(dirEntries[o]),
           dirEntries[o][i].next # 0
    PROVE  LET s == dirEntries[o]
               m == s[i].next
           IN  /\ m \in Nat /\ m + 1 \in 1..Len(s) /\ s[m + 1].at = EndOf(s[i])
               /\ s[i].recLen = 0 => m + 1 = i
               /\ s[i].recLen # 0 => i < m + 1
<1> DEFINE s == dirEntries[o]
           n == Len(s)
           m == s[i].next
<1>1. /\ n \in Nat /\ \A k \in 1..n : s[k].at \in Nat
      /\ s[i].recLen \in Nat /\ m \in Nat
      /\ m + 1 \in 1..n /\ s[m + 1].at = s[i].at + s[i].recLen
      /\ InPlace(s, content)
  BY ReadFacts
<1> HIDE DEF s, m, n
<1>2. \A j, k \in 1..n : j < k => s[j].at < s[k].at
  <2>1. DOMAIN s = 1..n
    BY <1>1 DEF InPlace, n
  <2>. QED
    BY <1>1, <2>1 DEF InPlace
<1>3. s[m + 1].at = EndOf(s[i]) /\ s[m + 1].at \in Nat /\ s[i].at \in Nat /\ i \in 1..n
  BY <1>1 DEF EndOf, n, s
<1>4. s[i].recLen = 0 => ~(i < m + 1) /\ ~(m + 1 < i)
  BY <1>1, <1>2, <1>3
<1>5. s[i].recLen # 0 => i # m + 1 /\ ~(m + 1 < i)
  BY <1>1, <1>2, <1>3
<1>. QED
  BY <1>1, <1>3, <1>4, <1>5 DEF s, m, n

\* next is where the record of an entry ends and never leads back, and nowhere only from an
\* entry without a length; what it passes over lies inside the record.
THEOREM NextForAll == DirectorySpec => []NextFollowsRecords
<1>1. DirectoryInv => NextFollowsRecords
  <2> SUFFICES ASSUME DirectoryInv, NEW o \in done, NEW i \in DOMAIN dirEntries[o]
               PROVE  LET all == dirEntries[o]
                          d == all[i]
                      IN  IF d.next = 0
                          THEN EndOf(d) = BlockSize
                          ELSE /\ d.next >= d.cur
                               /\ d.next = d.cur <=> d.recLen = 0
                               /\ all[d.next + 1].at = EndOf(d)
                               /\ \A k \in (i + 1)..d.next : all[k].at < EndOf(d)
    BY DEF NextFollowsRecords
  <2> DEFINE s == dirEntries[o]
             n == Len(s)
             m == s[i].next
  <2>1. /\ n \in Nat /\ DOMAIN s = 1..n /\ i \in 1..n
        /\ s[i].cur = i - 1 /\ m \in Nat
        /\ m = 0 => s[i].at + s[i].recLen = BlockSize
        /\ InPlace(s, content)
    BY ReadFacts
  <2>2. m # 0 => /\ m + 1 \in 1..n /\ s[m + 1].at = EndOf(s[i])
                 /\ s[i].recLen = 0 => m + 1 = i
                 /\ s[i].recLen # 0 => i < m + 1
    BY <2>1, LinkFacts
  <2> HIDE DEF s, m, n
  <2>3. CASE m = 0
    BY <2>1, <2>3 DEF EndOf, s, m
  <2>4. CASE m # 0
    <3>1. m >= s[i].cur /\ (m = s[i].cur <=> s[i].recLen = 0)
      BY <2>1, <2>2, <2>4
    <3>2. \A k \in (i + 1)..m : s[k].at < EndOf(s[i])
      <4> SUFFICES ASSUME NEW k \in (i + 1)..m PROVE s[k].at < EndOf(s[i])
        OBVIOUS
      <4>1. k \in 1..n /\ m + 1 \in 1..n /\ k < m + 1
        BY <2>1, <2>2, <2>4
      <4>2. s[k].at < s[m + 1].at
        BY <2>1, <4>1 DEF InPlace
      <4>. QED
        BY <2>2, <2>4, <4>2
    <3>. QED
      BY <2>2, <2>4, <3>1, <3>2 DEF s, m
  <2>. QED
    BY <2>3, <2>4
<1>. QED
  BY <1>1, DirectoryInductive, PTL

\* Two orders of the same entries have the same place everywhere.
LEMMA SamePlaces ==
    ASSUME content \in Contents, NEW p, NEW q, InPlace(p, content), InPlace(q, content),
           NEW i \in DOMAIN p
    PROVE  i \in DOMAIN q /\ q[i].at = p[i].at
<1> DEFINE Differ == {j \in 1..Len(p) : ~(j \in 1..Len(q) /\ q[j].at = p[j].at)}
<1>1. /\ Len(p) \in Nat /\ DOMAIN p = 1..Len(p) /\ Len(q) \in Nat /\ DOMAIN q = 1..Len(q)
      /\ \A j \in 1..Len(p) : p[j].at \in Int
      /\ \A j \in 1..Len(q) : q[j].at \in Int
  <2>1. p \in Seq(Slots) /\ q \in Seq(Slots)
    BY DEF InPlace
  <2>2. /\ Len(p) \in Nat /\ DOMAIN p = 1..Len(p) /\ \A j \in 1..Len(p) : p[j] \in Slots
        /\ Len(q) \in Nat /\ DOMAIN q = 1..Len(q) /\ \A j \in 1..Len(q) : q[j] \in Slots
    BY <2>1
  <2>. QED
    BY <2>2, SlotFacts
<1>2. ASSUME NEW j \in 1..Len(p) PROVE \E k \in 1..Len(q) : q[k].at = p[j].at
  <2>1. PICK e \in content : MadeOf(p[j], e)
    BY <1>1 DEF InPlace
  <2>2. PICK k \in 1..Len(q) : MadeOf(q[k], e)
    BY <1>1 DEF InPlace
  <2>. QED
    BY <2>1, <2>2 DEF MadeOf
<1>3. ASSUME NEW j \in 1..Len(q) PROVE \E k \in 1..Len(p) : q[j].at = p[k].at
  <2>1. PICK e \in content : MadeOf(q[j], e)
    BY <1>1 DEF InPlace
  <2>2. PICK k \in 1..Len(p) : MadeOf(p[k], e)
    BY <1>1 DEF InPlace
  <2>. QED
    BY <2>1, <2>2 DEF MadeOf
<1>4. /\ \A j, k \in 1..Len(p) : j < k => p[j].at < p[k].at
      /\ \A j, k \in 1..Len(q) : j < k => q[j].at < q[k].at
  BY <1>1 DEF InPlace
<1>5. Differ = {}
  <2> SUFFICES ASSUME Differ # {} PROVE FALSE
    OBVIOUS
  <2>1. Differ \subseteq Nat
    OBVIOUS
  <2>2. PICK j \in Differ : \A k \in Differ : j <= k
    <3> HIDE DEF Differ
    <3>. QED
      BY <2>1, LeastNumber
  <2>3. j \in 1..Len(p) /\ ~(j \in 1..Len(q) /\ q[j].at = p[j].at)
    OBVIOUS
  <2>4. ASSUME NEW k \in 1..Len(p), k < j PROVE k \in 1..Len(q) /\ q[k].at = p[k].at
    <3>1. k \notin Differ
      BY <2>2, <2>4
    <3>. QED
      BY <3>1
  <2> HIDE DEF Differ
  <2>5. PICK k \in 1..Len(q) : q[k].at = p[j].at
    BY <1>2, <2>3
  <2>6. ~(k < j)
    <3> SUFFICES ASSUME k < j PROVE FALSE
      OBVIOUS
    <3>1. k \in 1..Len(p)
      BY <1>1, <2>3
    <3>2. p[k].at < p[j].at /\ q[k].at = p[k].at
      BY <1>4, <2>3, <2>4, <3>1
    <3>. QED
      BY <1>1, <2>3, <2>5, <3>1, <3>2
  <2>7. j < k
    <3>1. k # j
      BY <2>3, <2>5
    <3>. QED
      BY <2>3, <2>6, <3>1
  <2>8. j \in 1..Len(q)
    BY <1>1, <2>3, <2>7
  <2>9. q[j].at < p[j].at
    BY <1>4, <2>5, <2>7, <2>8
  <2>10. PICK l \in 1..Len(p) : q[j].at = p[l].at
    BY <1>3, <2>8
  <2>11. l < j
    <3>1. p[l].at < p[j].at /\ p[l].at \in Int /\ p[j].at \in Int
      BY <1>1, <2>3, <2>9, <2>10
    <3>2. l # j
      BY <3>1
    <3>3. ~(j < l)
      BY <1>4, <2>3, <3>1
    <3>. QED
      BY <2>3, <3>2, <3>3
  <2>12. l \in 1..Len(q) /\ q[l].at = q[j].at
    BY <2>4, <2>10, <2>11
  <2>13. q[l].at < q[j].at
    BY <1>4, <2>8, <2>11, <2>12
  <2>. QED
    BY <1>1, <2>8, <2>12, <2>13
<1>. QED
  BY <1>1, <1>5

\* Two reads of the same block are exactly equal, whatever the order of delivery.
THEOREM ReadsAgreeForAll == DirectorySpec => []ReadsAgree
<1>1. DirectoryInv => ReadsAgree
  <2> SUFFICES ASSUME DirectoryInv, NEW o \in done, NEW x \in done
               PROVE  ExactlyEqual(dirEntries[o], dirEntries[x])
    BY DEF ReadsAgree
  <2> DEFINE p == dirEntries[o]
             q == dirEntries[x]
  <2>1. /\ content \in Contents
        /\ InPlace(p, content) /\ HasLinks(p) /\ InPlace(q, content) /\ HasLinks(q)
        /\ Len(p) \in Nat /\ DOMAIN p = 1..Len(p) /\ Len(q) \in Nat /\ DOMAIN q = 1..Len(q)
    BY ReadFacts DEF DirectoryInv
  <2> HIDE DEF p, q
  <2>2. \A i \in 1..Len(p) : i \in 1..Len(q) /\ q[i].at = p[i].at
    BY <2>1, SamePlaces
  <2>3. \A i \in 1..Len(q) : i \in 1..Len(p)
    BY <2>1, SamePlaces
  <2>4. Len(p) = Len(q) /\ DOMAIN p = DOMAIN q
    <3>1. Len(p) # 0 => Len(p) \in 1..Len(q)
      BY <2>1, <2>2
    <3>2. Len(q) # 0 => Len(q) \in 1..Len(p)
      BY <2>1, <2>3
    <3>3. Len(p) \in Nat /\ Len(q) \in Nat
      BY <2>1
    <3>4. Len(p) = Len(q)
      BY <3>1, <3>2, <3>3
    <3>. QED
      BY <2>1, <3>4
  <2>5. ASSUME NEW i \in 1..Len(p) PROVE p[i].recLen = q[i].recLen /\ p[i].name = q[i].name
    <3>1. PICK e \in content : MadeOf(p[i], e)
      BY <2>1 DEF InPlace
    <3>2. PICK f \in content : MadeOf(q[i], f)
      BY <2>1, <2>2 DEF InPlace
    <3>3. e.at = f.at
      BY <2>2, <3>1, <3>2 DEF MadeOf
    <3>4. e = f
      BY <2>1, <3>3, EntryFacts
    <3>. QED
      BY <3>1, <3>2, <3>4 DEF MadeOf
  <2>6. ASSUME NEW i \in 1..Len(p) PROVE NextOf(p, i) = NextOf(q, i)
    <3> DEFINE A == {j \in DOMAIN p : p[j].at = p[i].at + p[i].recLen}
               B == {j \in DOMAIN q : q[j].at = q[i].at + q[i].recLen}
               First(after) == IF after = {} THEN 0 ELSE (CHOOSE j \in after : \A k \in after : j <= k) - 1
    <3>1. A = B
      BY <2>1, <2>2, <2>4, <2>5
    <3>2. NextOf(p, i) = First(A) /\ NextOf(q, i) = First(B)
      BY Zenon DEF NextOf
    <3> HIDE DEF A, B, First
    <3>. QED
      BY <3>1, <3>2
  <2>7. \A i \in DOMAIN p : p[i].cur = q[i].cur /\ p[i].name = q[i].name /\ p[i].next = q[i].next
    BY <2>1, <2>4, <2>5, <2>6 DEF HasLinks
  <2>. QED
    BY <2>4, <2>7 DEF ExactlyEqual, p, q
<1>. QED
  BY <1>1, DirectoryInductive, PTL

\* The function of CurrentDirectory exists: where it goes on a record has a length, so each
\* of its values depends only on those behind it.
LEMMA CurrentDirectoryExists ==
    ASSUME content \in Contents
    PROVE  \E g : g = [base \in 0..(BlockSize - 1) |->
                LET here == {e \in content : e.at = base}
                IN  IF here = {} THEN <<>>
                    ELSE LET e == CHOOSE x \in here : TRUE
                             end == base + e.recLen
                         IN  IF e.name \in LongNames THEN <<Killed>>
                             ELSE IF e.recLen = 0 THEN <<>>
                             ELSE KeptName(e) \o (IF end < BlockSize THEN g[end] ELSE <<>>)]
<1> DEFINE B == BlockSize - 1
           Here(base) == {e \in content : e.at = base}
           The(base) == CHOOSE x \in Here(base) : TRUE
           End(base) == base + The(base).recLen
           GoesOn(base) == /\ Here(base) # {} /\ The(base).name \notin LongNames
                           /\ The(base).recLen # 0 /\ End(base) < BlockSize
           Value(g, base) ==
               IF Here(base) = {} THEN <<>>
               ELSE IF The(base).name \in LongNames THEN <<Killed>>
               ELSE IF The(base).recLen = 0 THEN <<>>
               ELSE KeptName(The(base)) \o (IF End(base) < BlockSize THEN g[End(base)] ELSE <<>>)
           Is(g, k) == \A base \in (B - k)..B : g[base] = Value(g, base)
           Reached == {k \in Nat : k <= B + 1 => \E g : Is(g, k - 1)}
<1>1. B \in Nat /\ BlockSize = B + 1
  <2>1. PICK e \in content : e.at = 0
    BY DirectoryAssumption
  <2>. QED
    BY <2>1, EntryFacts
<1>2. \A base : Here(base) # {} => The(base) \in content /\ The(base).at = base
  <2> SUFFICES ASSUME NEW base, Here(base) # {} PROVE The(base) \in content /\ The(base).at = base
    OBVIOUS
  <2>1. The(base) \in Here(base)
    BY Zenon
  <2>. QED
    BY <2>1
<1> HIDE DEF Here, The
<1>3. ASSUME NEW base \in 0..B, GoesOn(base)
      PROVE  End(base) \in (base + 1)..B
  <2>1. The(base) \in content /\ The(base).at = base
    BY <1>2, <1>3
  <2>2. The(base).recLen \in Nat
    BY <2>1, EntryFacts
  <2>. QED
    BY <1>1, <1>3, <2>2
<1>4. 0 \in Reached
  <2>1. (B - (0 - 1))..B = {}
    BY <1>1
  <2>. QED
    BY <2>1
<1> HIDE DEF B, End
\* Two functions with the same value behind a place have it there.
<1>5. ASSUME NEW f, NEW g, NEW base \in 0..B, GoesOn(base) => g[End(base)] = f[End(base)]
      PROVE  Value(g, base) = Value(f, base)
  <2>1. CASE GoesOn(base)
    BY <1>5, <2>1
  <2>2. CASE ~GoesOn(base)
    BY <2>2
  <2>. QED
    BY <2>1, <2>2
<1> HIDE DEF Value, Is, GoesOn
<1>6. ASSUME NEW k \in Nat, k \in Reached PROVE k + 1 \in Reached
  <2> SUFFICES ASSUME k + 1 <= B + 1 PROVE \E g : Is(g, (k + 1) - 1)
    OBVIOUS
  <2>1. k <= B + 1 /\ (k + 1) - 1 = k /\ B - (k - 1) = B - k + 1 /\ B - k \in 0..B
    BY <1>1
  <2>2. PICK f : \A base \in (B - k + 1)..B : f[base] = Value(f, base)
    BY <1>6, <2>1 DEF Is
  <2> DEFINE first == B - k
             g == [base \in first..B |-> IF base = first THEN Value(f, base) ELSE f[base]]
  <2>3. /\ g[first] = Value(f, first)
        /\ \A base \in (first + 1)..B : g[base] = f[base]
    BY <1>1, <2>1
  <2> HIDE DEF g
  <2>4. ASSUME NEW base \in first..B PROVE Value(g, base) = Value(f, base)
    <3>1. base \in 0..B
      BY <1>1, <2>1
    <3>2. ASSUME GoesOn(base) PROVE g[End(base)] = f[End(base)]
      <4>1. End(base) \in (base + 1)..B
        BY <1>3, <3>1, <3>2
      <4>2. End(base) \in (first + 1)..B
        BY <1>1, <2>1, <4>1
      <4>. QED
        BY <2>3, <4>2
    <3>. QED
      BY <1>5, <3>1, <3>2
  <2>5. ASSUME NEW base \in first..B PROVE g[base] = Value(g, base)
    <3>1. CASE base = first
      BY <2>3, <2>4, <3>1
    <3>2. CASE base # first
      <4>1. base \in (first + 1)..B /\ base \in (B - k + 1)..B
        BY <1>1, <2>1, <3>2
      <4>. QED
        BY <2>2, <2>3, <2>4, <4>1
    <3>. QED
      BY <3>1, <3>2
  <2>6. Is(g, k)
    BY <2>5 DEF Is
  <2>. QED
    BY <2>1, <2>6
<1>7. B + 1 \in Reached
  <2> HIDE DEF Reached
  <2>. QED
    BY <1>1, <1>4, <1>6, Induction
<1>8. PICK f : \A base \in 0..B : f[base] = Value(f, base)
  <2>1. B + 1 \in Nat /\ B + 1 <= B + 1 /\ B - ((B + 1) - 1) = 0
    BY <1>1
  <2>. QED
    BY <1>7, <2>1 DEF Is
<1> DEFINE g == [base \in 0..B |-> f[base]]
<1>9. ASSUME NEW base \in 0..B PROVE Value(g, base) = Value(f, base)
  <2>1. ASSUME GoesOn(base) PROVE g[End(base)] = f[End(base)]
    <3>1. End(base) \in 0..B
      <4>1. End(base) \in (base + 1)..B
        BY <1>3, <2>1
      <4>. QED
        BY <1>1, <4>1
    <3>. QED
      BY <3>1
  <2> HIDE DEF g
  <2>. QED
    BY <1>5, <2>1
<1>10. g = [base \in 0..B |-> Value(g, base)]
  <2>1. \A base \in 0..B : g[base] = Value(g, base)
    BY <1>8, <1>9
  <2>2. g = [base \in 0..B |-> g[base]]
    OBVIOUS
  <2> HIDE DEF g
  <2>. QED
    BY <2>1, <2>2
<1> HIDE DEF g
<1>. QED
  BY <1>10, Zenon DEF B, Value, End, Here, The

\* Whoever follows the links from the first entry finds what the loop of the walk keeps.
THEOREM LinksForAll == DirectorySpec => []LinksAreTheDirectory
<1>1. DirectoryInv => LinksAreTheDirectory
  <2> SUFFICES ASSUME DirectoryInv, NEW o \in done
               PROVE  LET all == dirEntries[o]
                          from[i \in DOMAIN all] ==
                              LET d == all[i]
                              IN  IF d.name \in LongNames THEN <<Killed>>
                                  ELSE IF LeadsNowhere(d) THEN <<>>
                                  ELSE KeptName(d) \o (IF d.next = 0 THEN <<>> ELSE from[d.next + 1])
                      IN  from[1] = CurrentDirectory
    BY DEF LinksAreTheDirectory
  <2> DEFINE s == dirEntries[o]
             n == Len(s)
             Walked(g) == g = [base \in 0..(BlockSize - 1) |->
                LET here == {e \in content : e.at = base}
                IN  IF here = {} THEN <<>>
                    ELSE LET e == CHOOSE x \in here : TRUE
                             end == base + e.recLen
                         IN  IF e.name \in LongNames THEN <<Killed>>
                             ELSE IF e.recLen = 0 THEN <<>>
                             ELSE KeptName(e) \o (IF end < BlockSize THEN g[end] ELSE <<>>)]
             Followed(f) == f = [i \in DOMAIN s |->
                LET d == s[i]
                IN  IF d.name \in LongNames THEN <<Killed>>
                    ELSE IF LeadsNowhere(d) THEN <<>>
                    ELSE KeptName(d) \o (IF d.next = 0 THEN <<>> ELSE f[d.next + 1])]
             w == CHOOSE g : Walked(g)
             l == CHOOSE f : Followed(f)
  <2>1. content \in Contents /\ BlockSize \in Nat
    BY DirectoryAssumption DEF DirectoryInv
  <2>2. Walked(w)
    <3>1. \E g : Walked(g)
      BY <2>1, CurrentDirectoryExists
    <3> HIDE DEF Walked
    <3>. QED
      BY <3>1
  <2>3. CurrentDirectory = w[0]
    BY Zenon DEF CurrentDirectory
  <2> HIDE DEF w
  <2>4. ASSUME NEW e \in content
        PROVE  w[e.at] = IF e.name \in LongNames THEN <<Killed>>
                         ELSE IF e.recLen = 0 THEN <<>>
                         ELSE KeptName(e) \o
                              (IF e.at + e.recLen < BlockSize THEN w[e.at + e.recLen] ELSE <<>>)
    <3> DEFINE here == {x \in content : x.at = e.at}
               the == CHOOSE x \in here : TRUE
    <3>1. e.at \in 0..(BlockSize - 1) /\ \A f \in content : e.at = f.at => e = f
      BY <2>1, EntryFacts
    <3>2. here # {} /\ \A x \in here : x = e
      BY <3>1
    <3>3. the \in here
      BY <3>2, Zenon
    <3>4. the = e
      BY <3>2, <3>3
    <3>5. w[e.at] = IF here = {} THEN <<>>
                    ELSE IF the.name \in LongNames THEN <<Killed>>
                    ELSE IF the.recLen = 0 THEN <<>>
                    ELSE KeptName(the) \o
                         (IF e.at + the.recLen < BlockSize THEN w[e.at + the.recLen] ELSE <<>>)
      BY <2>2, <3>1, Zenon
    <3> HIDE DEF here, the
    <3>. QED
      BY <3>2, <3>4, <3>5
  <2>6. /\ n \in Nat /\ DOMAIN s = 1..n
        /\ \A i \in 1..n :
              /\ s[i].at \in Nat /\ s[i].recLen \in Nat /\ s[i].at < BlockSize
              /\ s[i].cur = i - 1 /\ s[i].next \in Nat
              /\ s[i].next = 0 => s[i].at + s[i].recLen = BlockSize
        /\ InPlace(s, content)
    BY ReadFacts
  <2>7. ASSUME NEW i \in 1..n, s[i].next # 0
        PROVE  /\ s[i].next + 1 \in 1..n /\ s[s[i].next + 1].at = s[i].at + s[i].recLen
               /\ s[i].recLen = 0 => s[i].next + 1 = i
               /\ s[i].recLen # 0 => i < s[i].next + 1
    BY <2>7, LinkFacts DEF EndOf
  <2> HIDE DEF s, n
  \* The links lead nowhere where the loop ends.
  <2>8. \A i \in 1..n : LeadsNowhere(s[i]) <=> s[i].recLen = 0
    <3> SUFFICES ASSUME NEW i \in 1..n PROVE LeadsNowhere(s[i]) <=> s[i].recLen = 0
      OBVIOUS
    <3>1. /\ s[i].cur = i - 1 /\ s[i].next \in Nat /\ s[i].recLen \in Nat /\ s[i].at \in Nat
          /\ s[i].at < BlockSize
          /\ s[i].next = 0 => s[i].at + s[i].recLen = BlockSize
      BY <2>6
    <3>2. CASE s[i].next = 0
      BY <2>1, <3>1, <3>2 DEF LeadsNowhere
    <3>3. CASE s[i].next # 0
      <4>1. /\ s[i].recLen = 0 => s[i].next + 1 = i
            /\ s[i].recLen # 0 => i < s[i].next + 1
        BY <2>7, <3>3
      <4>. QED
        BY <3>1, <3>3, <4>1 DEF LeadsNowhere
    <3>. QED
      BY <3>2, <3>3
  <2> DEFINE Value(g, i, next) ==
                 IF s[i].name \in LongNames THEN <<Killed>>
                 ELSE IF LeadsNowhere(s[i]) THEN <<>>
                 ELSE KeptName(s[i]) \o (IF s[i].next = 0 THEN <<>> ELSE g[next])
             Behind(i) == s[i].name \notin LongNames /\ ~LeadsNowhere(s[i]) /\ s[i].next # 0
             j(i) == s[i].next + 1
  <2>9. ASSUME NEW i \in 1..n
        PROVE  w[s[i].at] = Value(w, i, s[j(i)].at)
    <3>1. PICK e \in content : s[i].at = e.at /\ s[i].recLen = e.recLen /\ s[i].name = e.name
      BY <2>6 DEF InPlace, MadeOf
    <3>2. KeptName(e) = KeptName(s[i])
      BY <3>1 DEF KeptName
    <3>3. w[s[i].at] = IF s[i].name \in LongNames THEN <<Killed>>
                       ELSE IF s[i].recLen = 0 THEN <<>>
                       ELSE KeptName(s[i]) \o
                            (IF s[i].at + s[i].recLen < BlockSize THEN w[s[i].at + s[i].recLen] ELSE <<>>)
      BY <2>4, <3>1, <3>2
    <3>4. CASE s[i].next = 0
      <4>1. s[i].at + s[i].recLen = BlockSize /\ ~(s[i].at + s[i].recLen < BlockSize)
        BY <2>1, <2>6, <3>4
      <4>. QED
        BY <2>8, <3>3, <3>4, <4>1
    <3>5. CASE s[i].next # 0
      <4>1. s[j(i)].at = s[i].at + s[i].recLen /\ j(i) \in 1..n
        BY <2>7, <3>5
      <4>2. s[i].at + s[i].recLen < BlockSize
        BY <2>6, <4>1
      <4>. QED
        BY <2>8, <3>3, <3>5, <4>1, <4>2
    <3>. QED
      BY <3>4, <3>5
  <2>10. ASSUME NEW i \in 1..n, Behind(i) PROVE j(i) \in 1..n /\ i < j(i)
    BY <2>7, <2>8, <2>10
  <2>11. ASSUME NEW i \in 1..n, NEW f, NEW g, NEW x, NEW y, Behind(i) => g[x] = f[y]
         PROVE  Value(g, i, x) = Value(f, i, y)
    <3>1. CASE Behind(i)
      BY <2>11, <3>1
    <3>2. CASE ~Behind(i)
      BY <3>2
    <3>. QED
      BY <3>1, <3>2
  <2>12. \A f : Followed(f) <=> f = [i \in 1..n |-> Value(f, i, j(i))]
    BY <2>6, Zenon
  <2> HIDE DEF Value, Behind, j, Followed
  \* The function that follows the links is the other one at the places of the entries.
  <2>13. Followed(l)
    <3> DEFINE f == [i \in 1..n |-> w[s[i].at]]
    <3>1. ASSUME NEW i \in 1..n PROVE f[i] = Value(f, i, j(i))
      <4>1. Behind(i) => f[j(i)] = w[s[j(i)].at]
        BY <2>10
      <4>2. f[i] = w[s[i].at]
        OBVIOUS
      <4> HIDE DEF f
      <4>3. Value(f, i, j(i)) = Value(w, i, s[j(i)].at)
        BY <2>11, <4>1
      <4>. QED
        BY <2>9, <4>2, <4>3
    <3>2. f = [i \in 1..n |-> f[i]]
      OBVIOUS
    <3> HIDE DEF f
    <3>3. f = [i \in 1..n |-> Value(f, i, j(i))]
      BY <3>1, <3>2
    <3>4. Followed(f)
      BY <2>12, <3>3
    <3>. QED
      BY <3>4
  <2> HIDE DEF l
  <2>14. ASSUME NEW i \in 1..n PROVE l[i] = Value(l, i, j(i))
    <3>1. l = [k \in 1..n |-> Value(l, k, j(k))]
      BY <2>12, <2>13
    <3>. QED
      BY <3>1, Zenon
  <2> DEFINE Wrong == {k \in Nat : n - k \in 1..n /\ l[n - k] # w[s[n - k].at]}
  <2>15. Wrong = {}
    <3> SUFFICES ASSUME Wrong # {} PROVE FALSE
      OBVIOUS
    <3>1. Wrong \subseteq Nat
      OBVIOUS
    <3>2. PICK k \in Wrong : \A m \in Wrong : k <= m
      <4> HIDE DEF Wrong
      <4>. QED
        BY <3>1, LeastNumber
    <3> DEFINE i == n - k
    <3>3. k \in Nat /\ i \in 1..n /\ l[i] # w[s[i].at]
      OBVIOUS
    <3>4. ASSUME Behind(i) PROVE l[j(i)] = w[s[j(i)].at]
      <4>1. j(i) \in 1..n /\ i < j(i)
        BY <2>10, <3>3, <3>4
      <4>2. n - j(i) \in Nat /\ n - (n - j(i)) = j(i) /\ ~(k <= n - j(i))
        BY <2>6, <3>3, <4>1
      <4>3. n - j(i) \notin Wrong
        BY <3>2, <4>2
      <4>. QED
        BY <4>1, <4>2, <4>3
    <3> HIDE DEF i
    <3>5. Value(l, i, j(i)) = Value(w, i, s[j(i)].at)
      BY <2>11, <3>3, <3>4
    <3>. QED
      BY <2>9, <2>14, <3>3, <3>5
  \* The first entry is at the beginning of the block.
  <2>16. 1 \in 1..n /\ s[1].at = 0
    <3>1. PICK e \in content : e.at = 0
      BY <2>1, DirectoryAssumption
    <3>2. PICK i \in 1..n : s[i].at = 0
      BY <2>6, <3>1 DEF InPlace, MadeOf
    <3>3. 1 \in 1..n
      BY <2>6
    <3>4. 1 < i => s[1].at < s[i].at
      BY <2>6, <3>3 DEF InPlace
    <3>5. s[1].at \in Nat
      BY <2>6, <3>3
    <3>6. ~(1 < i)
      BY <3>2, <3>4, <3>5
    <3>7. i = 1
      BY <3>6
    <3>. QED
      BY <3>2, <3>3, <3>7
  <2>17. l[1] = w[0]
    <3>1. n - 1 \in Nat /\ n - (n - 1) = 1
      BY <2>6, <2>16
    <3>2. n - 1 \notin Wrong
      BY <2>15, Zenon
    <3>. QED
      BY <2>16, <3>1, <3>2
  <2> HIDE DEF Wrong
  <2>18. l[1] = CurrentDirectory
    BY <2>3, <2>17
  <2>. QED
    BY <2>18, Zenon DEF l, Followed, s
<1>. QED
  BY <1>1, DirectoryInductive, PTL
===============================================================================
