------------------------------- MODULE BasicLemmas ----------------------------
(***************************************************************************)
(* What the proofs of several components need: division with remainder,    *)
(* induction over the natural numbers, and sequences.                      *)
(*                                                                         *)
(* The provers do not instantiate theorems about an operator P(_), so the  *)
(* induction is stated for the set of the numbers that have a property.    *)
(***************************************************************************)
EXTENDS Integers, Sequences, WellFoundedInduction, SequenceTheorems, TLAPS

(***************************************************************************)
(* Division.                                                               *)
(***************************************************************************)

\* A multiple of d between -d and d is 0.
LEMMA SmallMultiple ==
    ASSUME NEW d \in Nat \ {0}, NEW k \in Int, k * d < d, -d < k * d
    PROVE  k = 0
<1>1. CASE k >= 1
  <2>1. (k - 1) * d >= 0
    BY <1>1
  <2>2. (k - 1) * d = k * d - d
    OBVIOUS
  <2>. QED
    BY <2>1, <2>2
<1>2. CASE k <= -1
  <2>1. (-k - 1) * d >= 0
    BY <1>2
  <2>2. (-k - 1) * d = -(k * d) - d
    OBVIOUS
  <2>. QED
    BY <2>1, <2>2
<1>. QED
  BY <1>1, <1>2

\* Quotient and remainder are determined by what they add up to.
LEMMA Division ==
    ASSUME NEW n \in Int, NEW d \in Nat \ {0}, NEW k \in Int, NEW r \in 0..(d - 1),
           n = k * d + r
    PROVE  n % d = r /\ n \div d = k
<1> DEFINE q == n \div d
           s == n % d
<1>1. q \in Int /\ s \in 0..(d - 1) /\ n = q * d + s
  OBVIOUS
<1> HIDE DEF q, s
<1>2. (k - q) * d = s - r
  <2>1. (k - q) * d = k * d - q * d
    BY <1>1
  <2>. QED
    BY <1>1, <2>1
<1>3. k - q = 0
  <2>1. k - q \in Int /\ (k - q) * d < d /\ -d < (k - q) * d
    BY <1>1, <1>2
  <2>. QED
    BY <2>1, SmallMultiple
<1>4. k = q /\ s = r
  BY <1>1, <1>2, <1>3
<1>. QED
  BY <1>4 DEF q, s

\* A product of naturals grows with its factors.
LEMMA ProductMonotone ==
    ASSUME NEW a \in Int, NEW b \in Int, NEW n \in Nat, a <= b
    PROVE  a * n <= b * n
OBVIOUS

\* What divides a natural number without being negative is not greater than it.
LEMMA QuotientBounds ==
    ASSUME NEW m \in Nat, NEW n \in Nat \ {0}, NEW q \in Int, NEW r \in 0..(n - 1),
           m = q * n + r
    PROVE  q \in 0..m
<1>1. q >= 0
  <2>1. SUFFICES ASSUME q <= -1 PROVE FALSE
    OBVIOUS
  <2>2. q * n <= (-1) * n
    BY <2>1, ProductMonotone
  <2>. QED
    BY <2>2
<1>2. 0 <= q * (n - 1)
  BY <1>1
<1>3. q * n = q * (n - 1) + q
  OBVIOUS
<1>. QED
  BY <1>1, <1>2, <1>3

\* Quotient and remainder of natural numbers.
LEMMA DivisionFacts ==
    ASSUME NEW m \in Nat, NEW n \in Nat \ {0}
    PROVE  /\ m \div n \in 0..m
           /\ m % n \in 0..(n - 1)
           /\ m = (m \div n) * n + (m % n)
<1> DEFINE q == m \div n
           r == m % n
<1>1. q \in Int /\ r \in 0..(n - 1) /\ m = q * n + r
  OBVIOUS
<1> HIDE DEF q, r
<1>2. q \in 0..m /\ r \in 0..(n - 1) /\ m = q * n + r
  BY <1>1, QuotientBounds
<1>. QED
  BY <1>2, Zenon DEF q, r

\* A quotient grows with its dividend.
LEMMA QuotientMonotone ==
    ASSUME NEW m \in Nat, NEW n \in Nat, m <= n, NEW d \in Nat \ {0}
    PROVE  m \div d <= n \div d
<1> DEFINE q == m \div d
           p == n \div d
<1>1. q \in Nat /\ p \in Nat /\ q * d <= m /\ n < p * d + d
  BY DivisionFacts
<1> HIDE DEF q, p
<1>2. CASE q >= p + 1
  <2>1. (p + 1) * d <= q * d
    BY <1>1, <1>2, ProductMonotone
  <2>2. (p + 1) * d = p * d + d
    BY <1>1
  <2>. QED
    BY <1>1, <2>1, <2>2
<1>3. q <= p
  BY <1>1, <1>2
<1>. QED
  BY <1>3 DEF q, p

(***************************************************************************)
(* Induction.                                                              *)
(***************************************************************************)

\* A set of natural numbers that is not empty has a least one.
LEMMA LeastNumber ==
    ASSUME NEW T, T \subseteq Nat, T # {}
    PROVE  \E n \in T : \A m \in T : n <= m
<1> DEFINE R == OpToRel(<, Nat)
<1>1. IsWellFoundedOn(R, Nat)
  BY NatLessThanWellFounded
<1>2. \A m \in Nat, n \in Nat : m < n => <<m, n>> \in R
  BY Zenon DEF OpToRel
<1> HIDE DEF R
<1>3. PICK n \in T : \A m \in T : <<m, n>> \notin R
  BY <1>1, WFMin, Zenon
<1>4. \A m \in T : ~(m < n)
  BY <1>2, <1>3
<1>. QED
  BY <1>3, <1>4

\* A set that holds 0 and with every natural number the next one holds all of them.
LEMMA Induction ==
    ASSUME NEW T, 0 \in T, \A n \in Nat : n \in T => n + 1 \in T
    PROVE  \A n \in Nat : n \in T
<1> SUFFICES ASSUME \E n \in Nat : n \notin T PROVE FALSE
  OBVIOUS
<1>1. PICK n \in Nat \ T : \A m \in Nat \ T : n <= m
  BY LeastNumber
<1>2. n # 0 /\ n - 1 \in Nat
  BY <1>1
<1>3. n - 1 \in T
  BY <1>1, <1>2
<1>4. (n - 1) + 1 = n
  BY <1>1
<1>. QED
  BY <1>1, <1>2, <1>3, <1>4
\* What is defined by its value at 0 and a step from each number to the next exists.
LEMMA RecursionExists ==
    ASSUME NEW S, NEW base \in S, NEW L \in Nat, NEW F \in [1..L -> [S -> S]]
    PROVE  \E f \in [0..L -> S] : f[0] = base /\ \A n \in 1..L : f[n] = F[n][f[n - 1]]
<1> DEFINE Is(f, k) == /\ f \in [0..k -> S] /\ f[0] = base
                       /\ \A n \in 1..k : f[n] = F[n][f[n - 1]]
           T == {k \in Nat : k <= L => \E f : Is(f, k)}
<1>1. 0 \in T
  <2>1. Is([n \in 0..0 |-> base], 0)
    OBVIOUS
  <2> HIDE DEF Is
  <2>. QED
    BY <2>1
<1>2. ASSUME NEW k \in Nat, k \in T PROVE k + 1 \in T
  <2> SUFFICES ASSUME k + 1 <= L PROVE \E f : Is(f, k + 1)
    OBVIOUS
  <2>1. PICK f : Is(f, k)
    BY <1>2
  <2> DEFINE new == F[k + 1][f[k]]
             g == [n \in 0..(k + 1) |-> IF n = k + 1 THEN new ELSE f[n]]
  <2>2. k + 1 \in 1..L /\ k \in 0..k
    OBVIOUS
  <2>3. new \in S
    BY <2>1, <2>2
  <2> HIDE DEF new
  <2>4. g \in [0..(k + 1) -> S] /\ g[0] = base /\ g[k + 1] = new /\ \A n \in 0..k : g[n] = f[n]
    <3>1. \A n \in 0..(k + 1) : n # k + 1 => n \in 0..k
      OBVIOUS
    <3>2. \A n \in 0..k : n \in 0..(k + 1) /\ n # k + 1
      OBVIOUS
    <3>. QED
      BY <2>1, <2>3, <3>1, <3>2
  <2> HIDE DEF g
  <2>5. ASSUME NEW n \in 1..(k + 1) PROVE g[n] = F[n][g[n - 1]]
    <3>1. CASE n = k + 1
      <4>1. n - 1 = k /\ g[n - 1] = f[k]
        BY <2>2, <2>4, <3>1
      <4>. QED
        BY <2>4, <3>1, <4>1 DEF new
    <3>2. CASE n # k + 1
      <4>1. n \in 1..k /\ n \in 0..k /\ n - 1 \in 0..k
        BY <3>2
      <4>2. f[n] = F[n][f[n - 1]]
        BY <2>1, <4>1
      <4>. QED
        BY <2>4, <4>1, <4>2
    <3>. QED
      BY <3>1, <3>2
  <2>. QED
    BY <2>4, <2>5
<1>3. L \in T
  <2> HIDE DEF T
  <2>. QED
    BY <1>1, <1>2, Induction
<1>. QED
  BY <1>3


(***************************************************************************)
(* Parts and concatenations of sequences.                                  *)
(***************************************************************************)

\* A part of a sequence.
LEMMA PartFacts ==
    ASSUME NEW S, NEW t \in Seq(S), NEW a \in DOMAIN t, NEW b \in DOMAIN t, a <= b
    PROVE  /\ SubSeq(t, a, b) \in Seq(S)
           /\ Len(SubSeq(t, a, b)) = b - a + 1
           /\ \A k \in 1..(b - a + 1) : SubSeq(t, a, b)[k] = t[a + k - 1]
<1>1. DOMAIN t = 1..Len(t) /\ Len(t) \in Nat /\ a \in Int /\ b \in Int
  BY LenProperties
<1>2. \A i \in a..b : t[i] \in S
  BY <1>1
<1>. QED
  BY <1>1, <1>2, SubSeqProperties

\* The n characters behind the first i of a text, as substr gives them.
LEMMA SliceFacts ==
    ASSUME NEW S, NEW t \in Seq(S), NEW i \in Nat, NEW n \in Nat, i + n <= Len(t)
    PROVE  /\ SubSeq(t, i + 1, i + n) \in Seq(S)
           /\ Len(SubSeq(t, i + 1, i + n)) = n
           /\ \A k \in 1..n : SubSeq(t, i + 1, i + n)[k] = t[i + k]
<1>1. Len(t) \in Nat /\ \A k \in (i + 1)..(i + n) : t[k] \in S
  OBVIOUS
<1>2. /\ SubSeq(t, i + 1, i + n) \in Seq(S)
      /\ Len(SubSeq(t, i + 1, i + n)) = IF i + 1 <= i + n THEN (i + n) - (i + 1) + 1 ELSE 0
      /\ \A k \in 1..((i + n) - (i + 1) + 1) : SubSeq(t, i + 1, i + n)[k] = t[(i + 1) + k - 1]
  BY <1>1, SubSeqProperties
<1>3. /\ (i + n) - (i + 1) + 1 = n /\ (IF i + 1 <= i + n THEN n ELSE 0) = n
      /\ \A k \in 1..n : (i + 1) + k - 1 = i + k
  OBVIOUS
<1> DEFINE s == SubSeq(t, i + 1, i + n)
<1>4. /\ s \in Seq(S) /\ Len(s) = n
      /\ \A k \in 1..n : s[k] = t[(i + 1) + k - 1]
  <2> HIDE DEF s
  <2>1. /\ s \in Seq(S)
        /\ Len(s) = IF i + 1 <= i + n THEN (i + n) - (i + 1) + 1 ELSE 0
        /\ \A k \in 1..((i + n) - (i + 1) + 1) : s[k] = t[(i + 1) + k - 1]
    BY <1>2 DEF s
  <2>. QED
    BY <1>3, <2>1
<1> HIDE DEF s
<1>5. \A k \in 1..n : s[k] = t[i + k]
  BY <1>3, <1>4
<1>. QED
  BY <1>4, <1>5 DEF s

\* The recursive function of FlattenSeq exists: what the sequences up to the i-th make.
LEMMA Concatenations ==
    ASSUME NEW S, NEW seqs \in Seq(Seq(S))
    PROVE  \E f \in [0..Len(seqs) -> Seq(S)] :
              /\ f[0] = <<>>
              /\ \A i \in 1..Len(seqs) : f[i] = f[i - 1] \o seqs[i]
              /\ Len(seqs) # 0 =>
                    LET flatten[i \in 1..Len(seqs)] ==
                            IF i = 1 THEN seqs[i] ELSE flatten[i - 1] \o seqs[i]
                    IN  flatten[Len(seqs)] = f[Len(seqs)]
<1> DEFINE L == Len(seqs)
           Is(g, k) == g = [i \in 1..k |-> IF i = 1 THEN seqs[i] ELSE g[i - 1] \o seqs[i]]
           Reaches == {k \in Nat : \E g : Is(g, k)}
<1>1. L \in Nat /\ (L = 0 => seqs = <<>>) /\ \A i \in 1..L : seqs[i] \in Seq(S)
  OBVIOUS
<1>2. \A s \in Seq(S) : <<>> \o s = s
  <2> SUFFICES ASSUME NEW s \in Seq(S) PROVE <<>> \o s = s
    OBVIOUS
  <2>1. <<>> \in Seq(S) /\ Len(<<>>) = 0 /\ Len(s) \in Nat
    OBVIOUS
  <2>2. /\ <<>> \o s \in Seq(S) /\ Len(<<>> \o s) = Len(s)
        /\ \A i \in 1..Len(s) : (<<>> \o s)[i] = s[i]
    <3>1. /\ <<>> \o s \in Seq(S) /\ Len(<<>> \o s) = Len(<<>>) + Len(s)
          /\ \A i \in 1..(Len(<<>>) + Len(s)) :
                (<<>> \o s)[i] = IF i <= Len(<<>>) THEN <<>>[i] ELSE s[i - Len(<<>>)]
      BY <2>1, ConcatProperties
    <3>2. \A i \in 1..Len(s) : i \in 1..(0 + Len(s)) /\ ~(i <= 0) /\ i - 0 = i
      BY <2>1
    <3>. QED
      BY <2>1, <3>1, <3>2
  <2>. QED
    BY <2>2, SeqEqual
<1>3. CASE L = 0
  <2> DEFINE f == [i \in 0..0 |-> <<>>]
  <2>1. f \in [0..L -> Seq(S)] /\ f[0] = <<>> /\ 1..L = {}
    BY <1>3
  <2>. QED
    BY <1>3, <2>1
<1>4. CASE L # 0
  <2>1. 0 \in Reaches
    <3> DEFINE g == [i \in 1..0 |-> seqs[i]]
    <3>1. g = [i \in 1..0 |-> IF i = 1 THEN seqs[i] ELSE g[i - 1] \o seqs[i]]
      OBVIOUS
    <3>. QED
      BY <3>1
  <2>2. ASSUME NEW k \in Nat, k \in Reaches PROVE k + 1 \in Reaches
    <3>1. PICK f : Is(f, k)
      BY <2>2
    <3> DEFINE new == IF k = 0 THEN seqs[1] ELSE f[k] \o seqs[k + 1]
               g == [i \in 1..(k + 1) |-> IF i = k + 1 THEN new ELSE f[i]]
    <3>2. \A i \in 1..k : f[i] = IF i = 1 THEN seqs[i] ELSE f[i - 1] \o seqs[i]
      BY <3>1
    <3>3. \A i \in 1..(k + 1) : g[i] = IF i = 1 THEN seqs[i] ELSE g[i - 1] \o seqs[i]
      <4> SUFFICES ASSUME NEW i \in 1..(k + 1)
                   PROVE  g[i] = IF i = 1 THEN seqs[i] ELSE g[i - 1] \o seqs[i]
        OBVIOUS
      <4>1. CASE i = k + 1
        <5>1. g[i] = new
          BY <4>1
        <5>2. i # 1 => i - 1 = k /\ k \in 1..(k + 1) /\ k # k + 1 /\ k # 0
          BY <4>1
        <5>3. i # 1 => g[i - 1] = f[k]
          BY <5>2
        <5>4. i = 1 => k = 0
          BY <4>1
        <5>. QED
          BY <4>1, <5>1, <5>2, <5>3, <5>4
      <4>2. CASE i # k + 1
        <5>1. i \in 1..k /\ (i # 1 => i - 1 \in 1..(k + 1) /\ i - 1 # k + 1)
          BY <4>2
        <5>2. g[i] = f[i] /\ (i # 1 => g[i - 1] = f[i - 1])
          BY <4>2, <5>1
        <5>. QED
          BY <3>2, <5>1, <5>2
      <4>. QED
        BY <4>1, <4>2
    <3>4. g = [i \in 1..(k + 1) |-> g[i]]
      OBVIOUS
    <3> HIDE DEF g
    <3>5. Is(g, k + 1)
      BY <3>3, <3>4
    <3> HIDE DEF Is
    <3>. QED
      BY <3>5
  <2>3. L \in Reaches
    <3> HIDE DEF Reaches, L
    <3>. QED
      BY <1>1, <2>1, <2>2, Induction
  <2>4. PICK g : Is(g, L) /\ g = CHOOSE h : Is(h, L)
    BY <2>3
  <2> HIDE DEF Reaches
  <2>5. \A i \in 1..L : g[i] = IF i = 1 THEN seqs[i] ELSE g[i - 1] \o seqs[i]
    BY <2>4
  <2> HIDE DEF Is, L
  <2> DEFINE f == [i \in 0..L |-> IF i = 0 THEN <<>> ELSE g[i]]
             Typed == {i \in Nat : i <= L => f[i] \in Seq(S)}
  <2>6. f[0] = <<>> /\ \A i \in 1..L : f[i] = g[i]
    BY <1>1
  <2>7. \A i \in 1..L : f[i] = f[i - 1] \o seqs[i]
    <3> SUFFICES ASSUME NEW i \in 1..L PROVE f[i] = f[i - 1] \o seqs[i]
      OBVIOUS
    <3> HIDE DEF f
    <3>1. CASE i = 1
      <4>1. i - 1 = 0 /\ seqs[i] \in Seq(S) /\ f[i] = seqs[i]
        BY <1>1, <2>5, <2>6, <3>1
      <4>. QED
        BY <1>2, <2>6, <4>1
    <3>2. CASE i # 1
      <4>1. i - 1 \in 1..L
        BY <1>1, <3>2
      <4>. QED
        BY <2>5, <2>6, <3>2, <4>1
    <3>. QED
      BY <3>1, <3>2
  <2>8. DOMAIN f = 0..L /\ f = [i \in 0..L |-> f[i]]
    OBVIOUS
  <2> HIDE DEF f
  <2>9. 0 \in Typed
    <3>1. <<>> \in Seq(S)
      OBVIOUS
    <3>. QED
      BY <2>6, <3>1
  <2>10. ASSUME NEW i \in Nat, i \in Typed PROVE i + 1 \in Typed
    <3> SUFFICES ASSUME i + 1 <= L PROVE f[i + 1] \in Seq(S)
      OBVIOUS
    <3>1. i + 1 \in 1..L /\ (i + 1) - 1 = i /\ i <= L
      BY <1>1
    <3>2. f[i] \in Seq(S) /\ seqs[i + 1] \in Seq(S) /\ f[i + 1] = f[i] \o seqs[i + 1]
      BY <1>1, <2>7, <2>10, <3>1
    <3>. QED
      BY <3>2, ConcatProperties
  <2>11. \A i \in Nat : i \in Typed
    <3> HIDE DEF Typed
    <3>. QED
      BY <2>9, <2>10, Induction
  <2>12. f \in [0..L -> Seq(S)]
    BY <1>1, <2>8, <2>11
  <2>13. f[L] = g[L]
    BY <1>1, <1>4, <2>6
  <2>. QED
    BY <2>4, <2>6, <2>7, <2>12, <2>13 DEF L
<1>. QED
  BY <1>3, <1>4
===============================================================================
