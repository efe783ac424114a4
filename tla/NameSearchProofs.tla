---------------------------- MODULE NameSearchProofs ---------------------------
(***************************************************************************)
(* Proofs about NameSearch, for every set of documents and every query:    *)
(* names, contents and queries of any length, over any characters.         *)
(***************************************************************************)
EXTENDS NameSearch, BasicLemmas

(***************************************************************************)
(* Sequences of characters.                                                *)
(***************************************************************************)

\* A text in lower case.
LEMMA LowerFacts ==
    ASSUME NEW t \in Seq(Chars)
    PROVE  /\ LowerCase(t) \in Seq(Chars) /\ Len(LowerCase(t)) = Len(t)
           /\ \A i \in 1..Len(t) : LowerCase(t)[i] = Lower[t[i]]
<1>1. DOMAIN t = 1..Len(t) /\ Len(t) \in Nat /\ \A i \in 1..Len(t) : t[i] \in Chars
  BY LenProperties
<1>2. \A i \in 1..Len(t) : Lower[t[i]] \in Chars
  BY <1>1, NameSearchAssumption
<1>. QED
  BY <1>1, <1>2 DEF LowerCase

\* A part of a text in lower case.
LEMMA LowerPart ==
    ASSUME NEW t \in Seq(Chars), NEW a \in DOMAIN t, NEW b \in DOMAIN t, a <= b
    PROVE  /\ LowerCase(SubSeq(t, a, b)) \in Seq(Chars)
           /\ Len(LowerCase(SubSeq(t, a, b))) = b - a + 1
           /\ \A k \in 1..(b - a + 1) : LowerCase(SubSeq(t, a, b))[k] = Lower[t[a + k - 1]]
<1>1. /\ SubSeq(t, a, b) \in Seq(Chars)
      /\ Len(SubSeq(t, a, b)) = b - a + 1
      /\ \A k \in 1..(b - a + 1) : SubSeq(t, a, b)[k] = t[a + k - 1]
  BY PartFacts
<1> DEFINE s == SubSeq(t, a, b)
<1> HIDE DEF s
<1>2. /\ LowerCase(s) \in Seq(Chars) /\ Len(LowerCase(s)) = Len(s)
      /\ \A i \in 1..Len(s) : LowerCase(s)[i] = Lower[s[i]]
  BY <1>1, LowerFacts DEF s
<1>. QED
  BY <1>1, <1>2 DEF s

\* A prefix, by its characters.
LEMMA PrefixFacts ==
    ASSUME NEW S, NEW s \in Seq(S), NEW t \in Seq(S)
    PROVE  IsPrefix(s, t) <=> Len(s) <= Len(t) /\ \A i \in 1..Len(s) : s[i] = t[i]
<1>1. Len(s) \in Nat /\ Len(t) \in Nat
  OBVIOUS
<1> SUFFICES ASSUME Len(s) <= Len(t)
             PROVE  SubSeq(s, 1, Len(s)) = SubSeq(t, 1, Len(s)) <=> \A i \in 1..Len(s) : s[i] = t[i]
  BY DEF IsPrefix
<1>2. SubSeq(s, 1, Len(s)) = s
  BY SubSeqFull
<1>3. /\ SubSeq(t, 1, Len(s)) \in Seq(S) /\ Len(SubSeq(t, 1, Len(s))) = Len(s)
      /\ \A i \in 1..Len(s) : SubSeq(t, 1, Len(s))[i] = t[i]
  <2>1. \A i \in 1..Len(s) : t[i] \in S
    BY <1>1
  <2>2. /\ SubSeq(t, 1, Len(s)) \in Seq(S)
        /\ Len(SubSeq(t, 1, Len(s))) = IF 1 <= Len(s) THEN Len(s) - 1 + 1 ELSE 0
        /\ \A i \in 1..(Len(s) - 1 + 1) : SubSeq(t, 1, Len(s))[i] = t[1 + i - 1]
    BY <1>1, <2>1, SubSeqProperties
  <2>. QED
    BY <1>1, <2>2
<1>4. (\A i \in 1..Len(s) : s[i] = t[i]) => s = SubSeq(t, 1, Len(s))
  <2> HIDE DEF IsPrefix
  <2>. QED
    BY <1>3, SeqEqual
<1>. QED
  BY <1>2, <1>3, <1>4

(***************************************************************************)
(* Words.                                                                  *)
(***************************************************************************)

\* A word of a text.
LEMMA WordFacts ==
    ASSUME NEW t \in Seq(Chars), NEW w
    PROVE  w \in Words(t) <=>
             \E a \in DOMAIN t, b \in DOMAIN t : <<a, b>> \in Spans(t) /\ w = LowerCase(SubSeq(t, a, b))
<1>1. \A ij \in Spans(t) : \E a \in DOMAIN t, b \in DOMAIN t : ij = <<a, b>>
  BY DEF Spans
<1>2. ASSUME w \in Words(t)
      PROVE  \E a \in DOMAIN t, b \in DOMAIN t : <<a, b>> \in Spans(t) /\ w = LowerCase(SubSeq(t, a, b))
  <2>1. PICK ij \in Spans(t) : w = LowerCase(SubSeq(t, ij[1], ij[2]))
    BY <1>2 DEF Words
  <2>2. PICK a \in DOMAIN t, b \in DOMAIN t : ij = <<a, b>>
    BY <1>1
  <2>. QED
    BY <2>1, <2>2
<1>3. ASSUME NEW a, NEW b, <<a, b>> \in Spans(t), w = LowerCase(SubSeq(t, a, b))
      PROVE  w \in Words(t)
  <2>1. <<a, b>>[1] = a /\ <<a, b>>[2] = b
    OBVIOUS
  <2>. QED
    BY <1>3, <2>1 DEF Words
<1>. QED
  BY <1>2, <1>3

\* A query of one word is parsed as that word, to be completed.
LEMMA OneWordParsed ==
    ASSUME NEW q \in Seq(Chars), OneWord(q)
    PROVE  Partial(q) = {LowerCase(q)} /\ Exact(q) = {}
<1>1. /\ Len(q) \in Nat /\ DOMAIN q = 1..Len(q) /\ Len(q) # 0 /\ 1 \in DOMAIN q /\ Len(q) \in DOMAIN q
      /\ \A i \in DOMAIN q : q[i] \in Letters
  BY DEF OneWord
<1>2. <<1, Len(q)>> \in Spans(q)
  BY <1>1 DEF Spans
<1>3. ASSUME NEW ij \in Spans(q) PROVE ij = <<1, Len(q)>>
  <2>1. PICK a \in DOMAIN q, b \in DOMAIN q : ij = <<a, b>>
    BY DEF Spans
  <2>2. a = 1
    <3> SUFFICES ASSUME a # 1 PROVE FALSE
      OBVIOUS
    <3>1. a - 1 \in DOMAIN q /\ q[a - 1] \notin Letters
      BY <1>1, <2>1 DEF Spans
    <3>. QED
      BY <1>1, <3>1
  <2>3. b = Len(q)
    <3> SUFFICES ASSUME b # Len(q) PROVE FALSE
      OBVIOUS
    <3>1. b + 1 \in DOMAIN q /\ q[b + 1] \notin Letters
      BY <1>1, <2>1 DEF Spans
    <3>. QED
      BY <1>1, <3>1
  <2>. QED
    BY <2>1, <2>2, <2>3
<1>4. Spans(q) = {<<1, Len(q)>>}
  BY <1>2, <1>3
<1>5. SubSeq(q, 1, Len(q)) = q
  BY SubSeqFull
<1>6. {x \in Spans(q) : x[2] = Len(q)} = {<<1, Len(q)>>} /\ {x \in Spans(q) : x[2] # Len(q)} = {}
  BY <1>4
<1>7. Partial(q) = {LowerCase(SubSeq(q, ij[1], ij[2])) : ij \in {<<1, Len(q)>>}}
  BY <1>6 DEF Partial
<1>8. Partial(q) = {LowerCase(SubSeq(q, 1, Len(q)))}
  BY <1>7
<1>. QED
  BY <1>5, <1>6, <1>8 DEF Exact

\* A word in what remains of a name from i on is a run of letters of the name that ends
\* where no letter follows (and begins at i or where none precedes).
LEMMA NameTermFacts ==
    ASSUME NEW name \in Seq(Chars), NEW w
    PROVE  w \in NameTerms(name) <=>
             \E p \in DOMAIN name, j \in DOMAIN name :
                /\ p <= j
                /\ \A k \in p..j : name[k] \in Letters
                /\ j = Len(name) \/ name[j + 1] \notin Letters
                /\ j - p + 1 <= MaxWord
                /\ w = LowerCase(SubSeq(name, p, j))
<1> DEFINE L == Len(name)
           Run(p, j) == /\ p <= j
                        /\ \A k \in p..j : name[k] \in Letters
                        /\ j = L \/ name[j + 1] \notin Letters
                        /\ j - p + 1 <= MaxWord
                        /\ w = LowerCase(SubSeq(name, p, j))
<1>0. L \in Nat /\ DOMAIN name = 1..L
  OBVIOUS
<1> HIDE DEF L
<1>1. ASSUME w \in NameTerms(name)
      PROVE  \E p \in DOMAIN name, j \in DOMAIN name : Run(p, j)
  <2>1. PICK i \in DOMAIN name : w \in Words(SubSeq(name, i, L))
    BY <1>1 DEF NameTerms, L
  <2> DEFINE s == SubSeq(name, i, L)
  <2>2. i \in DOMAIN name /\ L \in DOMAIN name /\ i <= L
    BY <1>0
  <2>3. /\ s \in Seq(Chars) /\ Len(s) = L - i + 1 /\ DOMAIN s = 1..(L - i + 1)
        /\ \A k \in 1..(L - i + 1) : s[k] = name[i + k - 1]
    BY <2>2, PartFacts
  <2> HIDE DEF s
  <2>4. PICK a \in DOMAIN s, b \in DOMAIN s : <<a, b>> \in Spans(s) /\ w = LowerCase(SubSeq(s, a, b))
    BY <2>1, <2>3, WordFacts DEF s
  <2>5. /\ a <= b /\ \A k \in a..b : s[k] \in Letters
        /\ b = Len(s) \/ s[b + 1] \notin Letters
    BY <2>4 DEF Spans
  <2> DEFINE p == i + a - 1
             j == i + b - 1
  <2>6. p \in DOMAIN name /\ j \in DOMAIN name /\ p <= j /\ j - p + 1 = b - a + 1
    <3>1. i \in 1..L /\ a \in 1..(L - i + 1) /\ b \in 1..(L - i + 1) /\ a <= b
      BY <1>0, <2>3, <2>5
    <3>2. p \in 1..L /\ j \in 1..L /\ p <= j /\ j - p + 1 = b - a + 1
      <4>1. L \in Nat
        BY <1>0
      <4> HIDE DEF Run
      <4>2. p \in Int /\ j \in Int /\ 1 <= p /\ p <= j /\ j <= L
        BY <3>1, <4>1
      <4>3. j - p + 1 = b - a + 1
        BY <3>1, <4>1
      <4> HIDE DEF p, j
      <4>. QED
        BY <4>1, <4>2, <4>3
    <3> HIDE DEF Run, p, j
    <3>. QED
      BY <1>0, <3>2
  <2>7. ASSUME NEW k \in p..j PROVE name[k] \in Letters
    <3>1. k - i + 1 \in a..b /\ k - i + 1 \in 1..(L - i + 1) /\ i + (k - i + 1) - 1 = k
      <4>1. i \in 1..L /\ L \in Nat
        BY <1>0
      <4>2. a \in 1..(L - i + 1) /\ b \in 1..(L - i + 1)
        BY <2>3
      <4>3. k \in (i + a - 1)..(i + b - 1)
        <5> HIDE DEF Run
        <5>. QED
          OBVIOUS
      <4>4. L \in Int /\ i \in Int /\ 1 <= i
        BY <4>1
      <4>5. a \in Int /\ b \in Int /\ 1 <= a /\ b <= L - i + 1
        BY <4>2, <4>4
      <4>6. k \in Int /\ i + a - 1 <= k /\ k <= i + b - 1
        BY <4>3, <4>4, <4>5
      <4> HIDE DEF Run, p, j
      <4>. QED
        BY <4>4, <4>5, <4>6, SMTT(30)
    <3>. QED
      BY <2>3, <2>5, <3>1
  <2>8. j = L \/ name[j + 1] \notin Letters
    <3> SUFFICES ASSUME j # L PROVE name[j + 1] \notin Letters
      OBVIOUS
    <3>1. b + 1 \in 1..(L - i + 1) /\ b # Len(s) /\ i + (b + 1) - 1 = j + 1
      BY <1>0, <2>3
    <3>. QED
      BY <2>3, <2>5, <3>1
  <2>9. SubSeq(s, a, b) = SubSeq(name, p, j)
    <3>1. /\ SubSeq(s, a, b) \in Seq(Chars) /\ Len(SubSeq(s, a, b)) = b - a + 1
          /\ \A k \in 1..(b - a + 1) : SubSeq(s, a, b)[k] = s[a + k - 1]
      <4>1. s \in Seq(Chars) /\ a <= b
        BY <2>3, <2>5
      <4> HIDE DEF Run, p, j
      <4>. QED
        BY <4>1, PartFacts
    <3>2. /\ SubSeq(name, p, j) \in Seq(Chars) /\ Len(SubSeq(name, p, j)) = j - p + 1
          /\ \A k \in 1..(j - p + 1) : SubSeq(name, p, j)[k] = name[p + k - 1]
      BY <2>6, PartFacts
    <3>3. ASSUME NEW k \in 1..(b - a + 1) PROVE s[a + k - 1] = name[p + k - 1]
      <4>1. a + k - 1 \in 1..(L - i + 1) /\ i + (a + k - 1) - 1 = p + k - 1
        <5>1. i \in 1..L /\ L \in Nat
          BY <1>0
        <5>2. a \in 1..(L - i + 1) /\ b \in 1..(L - i + 1)
          BY <2>3
        <5>3. i \in Int /\ a \in Int /\ b \in Int /\ k \in Int /\ 1 <= k /\ k <= b - a + 1
          BY <5>1, <5>2
        <5>4. a + k - 1 \in Int /\ 1 <= a + k - 1 /\ a + k - 1 <= L - i + 1
          BY <5>1, <5>2, <5>3
        <5>5. i + (a + k - 1) - 1 = p + k - 1
          BY <5>3
        <5> HIDE DEF Run, p, j
        <5>. QED
          BY <5>1, <5>3, <5>4, <5>5
      <4>. QED
        BY <2>3, <4>1
    <3>4. \A k \in 1..(b - a + 1) : SubSeq(s, a, b)[k] = SubSeq(name, p, j)[k]
      BY <2>6, <3>1, <3>2, <3>3
    <3>5. j - p + 1 = b - a + 1
      BY <2>6
    <3> DEFINE u == SubSeq(s, a, b)
               v == SubSeq(name, p, j)
    <3>6. /\ u \in Seq(Chars) /\ v \in Seq(Chars) /\ Len(u) = Len(v)
          /\ \A k \in 1..Len(u) : u[k] = v[k]
      BY <3>1, <3>2, <3>4, <3>5
    <3> HIDE DEF u, v
    <3>7. u = v
      BY <3>6, SeqEqual
    <3>. QED
      BY <3>7 DEF u, v
  <2>10. j - p + 1 <= MaxWord
    <3>1. Len(w) <= MaxWord
      BY <1>1 DEF NameTerms
    <3>2. Len(w) = b - a + 1
      BY <2>3, <2>4, <2>5, LowerPart
    <3>. QED
      BY <2>6, <3>1, <3>2
  <2> HIDE DEF p, j
  <2>. QED
    BY <2>4, <2>6, <2>7, <2>8, <2>9, <2>10
<1>2. ASSUME NEW p \in DOMAIN name, NEW j \in DOMAIN name, Run(p, j)
      PROVE  w \in NameTerms(name)
  <2> DEFINE s == SubSeq(name, p, L)
             b == j - p + 1
  <2>1. p <= j /\ p <= L /\ L \in DOMAIN name /\ b \in 1..(L - p + 1)
    BY <1>0, <1>2
  <2> HIDE DEF b
  <2>2. /\ s \in Seq(Chars) /\ Len(s) = L - p + 1 /\ DOMAIN s = 1..(L - p + 1)
        /\ \A k \in 1..(L - p + 1) : s[k] = name[p + k - 1]
    <3>1. p \in DOMAIN name /\ L \in DOMAIN name /\ p <= L
      BY <2>1
    <3> HIDE DEF Run
    <3>. QED
      BY <3>1, PartFacts
  <2>3. ASSUME NEW k \in 1..b PROVE s[k] \in Letters
    <3>1. k \in 1..(L - p + 1) /\ p + k - 1 \in p..j
      BY <1>0, <2>1 DEF b
    <3>. QED
      BY <1>2, <2>2, <3>1
  <2>4. b = Len(s) \/ s[b + 1] \notin Letters
    <3> SUFFICES ASSUME b # Len(s) PROVE s[b + 1] \notin Letters
      OBVIOUS
    <3>1. j # L /\ b + 1 \in 1..(L - p + 1) /\ p + (b + 1) - 1 = j + 1
      BY <1>0, <2>1, <2>2 DEF b
    <3>. QED
      BY <1>2, <2>2, <3>1
  <2> HIDE DEF s
  <2>5. 1 \in DOMAIN s /\ b \in DOMAIN s /\ 1 <= b
    BY <1>0, <2>1, <2>2
  <2>6. <<1, b>> \in Spans(s)
    BY <2>3, <2>4, <2>5 DEF Spans
  <2>7. SubSeq(s, 1, b) = SubSeq(name, p, j)
    <3>1. /\ SubSeq(s, 1, b) \in Seq(Chars) /\ Len(SubSeq(s, 1, b)) = b - 1 + 1
          /\ \A k \in 1..(b - 1 + 1) : SubSeq(s, 1, b)[k] = s[1 + k - 1]
      BY <2>2, <2>5, PartFacts
    <3>2. /\ SubSeq(name, p, j) \in Seq(Chars) /\ Len(SubSeq(name, p, j)) = j - p + 1
          /\ \A k \in 1..(j - p + 1) : SubSeq(name, p, j)[k] = name[p + k - 1]
      BY <2>1, PartFacts
    <3>3. b = j - p + 1 /\ b \in Nat
      BY <1>0, <2>1 DEF b
    <3>4. ASSUME NEW k \in 1..b PROVE SubSeq(s, 1, b)[k] = SubSeq(name, p, j)[k]
      <4>1. k \in 1..(b - 1 + 1) /\ k \in 1..(j - p + 1) /\ 1 + k - 1 = k /\ k \in 1..(L - p + 1)
        BY <1>0, <2>1, <3>3
      <4>. QED
        BY <2>2, <3>1, <3>2, <4>1
    <3>5. Len(SubSeq(s, 1, b)) = b /\ Len(SubSeq(name, p, j)) = b
      BY <3>1, <3>2, <3>3
    <3>. QED
      BY <3>1, <3>2, <3>4, <3>5, SeqEqual
  <2>8. w \in Words(s)
    BY <1>2, <2>2, <2>5, <2>6, <2>7, WordFacts
  <2>9. Len(w) <= MaxWord
    <3>1. Len(w) = j - p + 1
      BY <1>2, <2>1, LowerPart
    <3>. QED
      BY <1>2, <3>1
  <2>. QED
    BY <2>8, <2>9 DEF NameTerms, L, s
<1>. QED
  BY <1>1, <1>2 DEF L

\* A query of one word matches a document by name exactly if the word occurs in the name.
LEMMA MatchesOccurs ==
    ASSUME NEW q \in Seq(Chars), OneWord(q), NEW doc, doc.name \in Seq(Chars)
    PROVE  Matches(q, doc) <=> Occurs(q, doc.name)
<1> DEFINE name == doc.name
           L == Len(name)
           n == Len(q)
           lq == LowerCase(q)
<1>0. /\ L \in Nat /\ DOMAIN name = 1..L /\ n \in Nat /\ n # 0
      /\ \A k \in 1..L : name[k] \in Chars
      /\ \A k \in 1..n : q[k] \in Chars /\ q[k] \in Letters
      /\ name \in Seq(Chars)
  BY DEF OneWord
<1>1. lq \in Seq(Chars) /\ Len(lq) = n /\ \A k \in 1..n : lq[k] = Lower[q[k]]
  BY LowerFacts
<1>2. Matches(q, doc) <=> \E term \in NameTerms(name) : IsPrefix(lq, term)
  BY OneWordParsed DEF Matches
<1> HIDE DEF name, L, n, lq
\* What of the name agrees with the query in lower case.
<1>3. ASSUME NEW i \in 1..L, i + n - 1 <= L
      PROVE  LowerCase(SubSeq(name, i, i + n - 1)) = lq <=> \A k \in 1..n : Lower[name[i + k - 1]] = lq[k]
  <2>1. i \in DOMAIN name /\ i + n - 1 \in DOMAIN name /\ i <= i + n - 1 /\ (i + n - 1) - i + 1 = n
    BY <1>0, <1>3
  <2>2. /\ LowerCase(SubSeq(name, i, i + n - 1)) \in Seq(Chars)
        /\ Len(LowerCase(SubSeq(name, i, i + n - 1))) = n
        /\ \A k \in 1..n : LowerCase(SubSeq(name, i, i + n - 1))[k] = Lower[name[i + k - 1]]
    <3> DEFINE m == i + n - 1
    <3> HIDE DEF m
    <3>1. m \in DOMAIN name /\ i <= m /\ m - i + 1 = n
      BY <2>1 DEF m
    <3>2. /\ LowerCase(SubSeq(name, i, m)) \in Seq(Chars)
          /\ Len(LowerCase(SubSeq(name, i, m))) = m - i + 1
          /\ \A k \in 1..(m - i + 1) : LowerCase(SubSeq(name, i, m))[k] = Lower[name[i + k - 1]]
      BY <1>0, <2>1, <3>1, LowerPart
    <3>. QED
      BY <3>1, <3>2 DEF m
  <2> DEFINE part == LowerCase(SubSeq(name, i, i + n - 1))
  <2> HIDE DEF part
  <2>3. /\ part \in Seq(Chars) /\ Len(part) = n
        /\ \A k \in 1..n : part[k] = Lower[name[i + k - 1]]
    BY <2>2 DEF part
  <2>4. part = lq <=> \A k \in 1..n : part[k] = lq[k]
    BY <1>1, <2>3, SeqEqual
  <2>. QED
    BY <2>3, <2>4 DEF part
<1>4. ASSUME NEW term \in NameTerms(name), IsPrefix(lq, term) PROVE Occurs(q, name)
  <2>1. PICK p \in DOMAIN name, j \in DOMAIN name :
           /\ p <= j
           /\ \A k \in p..j : name[k] \in Letters
           /\ j = L \/ name[j + 1] \notin Letters
           /\ j - p + 1 <= MaxWord
           /\ term = LowerCase(SubSeq(name, p, j))
    BY <1>0, NameTermFacts DEF L
  <2>2. /\ term \in Seq(Chars) /\ Len(term) = j - p + 1
        /\ \A k \in 1..(j - p + 1) : term[k] = Lower[name[p + k - 1]]
    <3>1. /\ LowerCase(SubSeq(name, p, j)) \in Seq(Chars)
          /\ Len(LowerCase(SubSeq(name, p, j))) = j - p + 1
          /\ \A k \in 1..(j - p + 1) : LowerCase(SubSeq(name, p, j))[k] = Lower[name[p + k - 1]]
      BY <1>0, <2>1, LowerPart
    <3>2. term = LowerCase(SubSeq(name, p, j))
      BY <2>1
    <3>. QED
      BY <3>1, <3>2
  <2>3. n <= j - p + 1 /\ \A k \in 1..n : lq[k] = term[k]
    <3>1. term \in Seq(Chars) /\ lq \in Seq(Chars) /\ IsPrefix(lq, term)
      BY <1>1, <1>4, <2>2
    <3>2. Len(lq) <= Len(term) /\ \A k \in 1..Len(lq) : lq[k] = term[k]
      BY <3>1, PrefixFacts
    <3>. QED
      BY <1>1, <2>2, <3>2
  <2>4. p \in 1..L /\ j \in 1..L /\ p + n - 1 <= L /\ p \in 1..(L - n + 1)
    BY <1>0, <2>1, <2>3
  <2>5. \A k \in 1..n : Lower[name[p + k - 1]] = lq[k]
    <3>1. \A k \in 1..n : k \in 1..(j - p + 1)
      BY <1>0, <2>3, <2>4
    <3>. QED
      BY <2>2, <2>3, <3>1
  <2>6. LowerCase(SubSeq(name, p, p + n - 1)) = lq
    BY <1>3, <2>4, <2>5
  <2>7. j \in p..L
    BY <1>0, <2>1
  <2>8. OccursAt(q, name, p)
    BY <2>1, <2>6, <2>7 DEF OccursAt, L, n, lq
  <2>. QED
    BY <2>4, <2>8 DEF Occurs, L, n
<1>5. ASSUME Occurs(q, name) PROVE \E term \in NameTerms(name) : IsPrefix(lq, term)
  <2>1. PICK p \in 1..(L - n + 1) : OccursAt(q, name, p)
    BY <1>5 DEF Occurs, L, n
  <2>2. LowerCase(SubSeq(name, p, p + n - 1)) = lq
    BY <2>1 DEF OccursAt, n, lq
  <2>3. PICK j \in p..L : /\ \A k \in p..j : name[k] \in Letters
                          /\ j = L \/ name[j + 1] \notin Letters
                          /\ j - p + 1 <= MaxWord
    BY <2>1 DEF OccursAt, L
  <2>4. p \in 1..L /\ p + n - 1 <= L /\ j \in DOMAIN name /\ p \in DOMAIN name /\ p <= j
    BY <1>0
  <2>5. \A k \in 1..n : Lower[name[p + k - 1]] = lq[k]
    BY <1>3, <2>2, <2>4
  \* The query ends before the word does, because letters stay letters in lower case.
  <2>6. n <= j - p + 1
    <3> SUFFICES ASSUME ~(n <= j - p + 1) PROVE FALSE
      OBVIOUS
    <3> DEFINE k == j - p + 2
    <3>1. k \in 1..n /\ p + k - 1 = j + 1 /\ j # L /\ j + 1 \in 1..L
      BY <1>0, <2>4
    <3> HIDE DEF k
    <3>2. Lower[name[j + 1]] = Lower[q[k]]
      BY <1>1, <2>5, <3>1
    <3>3. Lower[q[k]] \in Letters /\ name[j + 1] \in Chars /\ name[j + 1] \notin Letters
      BY <1>0, <2>3, <3>1, NameSearchAssumption
    <3>. QED
      BY <3>2, <3>3, NameSearchAssumption
  <2> DEFINE term == LowerCase(SubSeq(name, p, j))
  <2>7. term \in NameTerms(name)
    BY <1>0, <2>3, <2>4, NameTermFacts DEF L
  <2>8. /\ term \in Seq(Chars) /\ Len(term) = j - p + 1
        /\ \A k \in 1..(j - p + 1) : term[k] = Lower[name[p + k - 1]]
    BY <1>0, <2>4, LowerPart
  <2> HIDE DEF term
  <2>9. \A k \in 1..n : lq[k] = term[k]
    <3>1. \A k \in 1..n : k \in 1..(j - p + 1)
      BY <1>0, <2>4, <2>6
    <3>. QED
      BY <2>5, <2>8, <3>1
  <2>. QED
    BY <1>1, <2>6, <2>7, <2>8, <2>9, PrefixFacts
<1>. QED
  BY <1>2, <1>4, <1>5 DEF name

(***************************************************************************)
(* The steps of search.                                                    *)
(***************************************************************************)

\* What search has printed and still holds are the matches, from its query on; and what
\* it found at the end.
SearchInv ==
    /\ pc = "search" => shown = {} /\ hits = {}
    /\ pc # "search" => hits \cup {l.doc : l \in shown} = {doc \in docs : Matches(query, doc)}
    /\ pc = "done" => hits = {} /\ found = {doc \in docs : ContentMatches(query, doc)}
    /\ pc # "done" => found = {}
    /\ \A l \in shown : l = Line(l.doc, query) /\ ~Throws(Path(l.doc), query)
    /\ pc = "uncaught" => \E doc \in hits : Throws(Path(doc), query)

\* A document of a set of documents.
LEMMA DocFacts ==
    ASSUME TypeOK, NEW doc \in docs
    PROVE  /\ doc.parent \in Seq(Chars) /\ doc.parent # <<>> /\ Last(doc.parent) = Slash
           /\ doc.name \in Seq(Chars \ {Slash}) /\ doc.name \in Seq(Chars)
           /\ doc.dir \in BOOLEAN
           /\ doc.file.block \in BOOLEAN /\ doc.file.size \in Nat
           /\ doc.file.bytes \in [1..BlockSize -> Chars]
<1>1. /\ doc.parent \in Seq(Chars) /\ doc.parent # <<>> /\ Last(doc.parent) = Slash
      /\ doc.name \in Seq(Chars \ {Slash})
      /\ doc.dir \in BOOLEAN
      /\ doc.file.block \in BOOLEAN /\ doc.file.size \in Nat
      /\ doc.file.bytes \in [1..BlockSize -> Chars]
  BY DocumentsAssumption DEF TypeOK
<1>2. \A s \in Seq(Chars \ {Slash}) : s \in Seq(Chars)
  OBVIOUS
<1>. QED
  BY <1>1, <1>2

\* A printed line is about its document.
LEMMA LineDoc == \A doc, q : Line(doc, q).doc = doc
BY DEF Line

LEMMA TypeStep == TypeOK /\ [Next]_vars => TypeOK'
<1> SUFFICES ASSUME TypeOK, [Next]_vars PROVE TypeOK'
  OBVIOUS
<1> USE DEF Locations
<1>1. CASE RunQuery
  BY <1>1 DEF TypeOK, RunQuery, Snapshot
<1>2. CASE ShowHit
  <2>1. PICK doc \in hits : shown' = shown \cup {Line(doc, query)} /\ hits' = hits \ {doc}
    BY <1>2 DEF ShowHit
  <2>2. {l.doc : l \in shown'} = {l.doc : l \in shown} \cup {doc}
    BY <2>1, LineDoc
  <2>. QED
    BY <1>2, <2>1, <2>2 DEF TypeOK, ShowHit
<1>3. CASE HitThrows
  BY <1>3 DEF TypeOK, HitThrows
<1>4. CASE SearchContents
  BY <1>4 DEF TypeOK, SearchContents, Snapshot
<1>5. CASE UNCHANGED vars
  BY <1>5 DEF TypeOK, vars
<1>. QED
  BY <1>1, <1>2, <1>3, <1>4, <1>5 DEF Next

\* Every variable keeps its type; what is printed and held are documents of the database.
THEOREM TypeCorrect == Spec => []TypeOK
<1>1. Init => TypeOK
  BY DEF Init, TypeOK, Locations
<1>. QED
  BY <1>1, TypeStep, PTL DEF Spec

LEMMA SearchStep == TypeOK /\ SearchInv /\ [Next]_vars => SearchInv'
<1> SUFFICES ASSUME TypeOK, SearchInv, [Next]_vars PROVE SearchInv'
  OBVIOUS
<1>1. CASE RunQuery
  <2>1. hits' = {doc \in docs : Matches(query, doc)} /\ shown = {} /\ pc = "search" /\ pc' = "names"
    BY <1>1 DEF RunQuery, Snapshot, SearchInv
  <2>2. UNCHANGED <<docs, query, shown, found>>
    BY <1>1 DEF RunQuery
  <2>. QED
    BY <2>1, <2>2 DEF SearchInv
<1>2. CASE ShowHit
  <2>1. PICK doc \in hits : /\ ~Throws(Path(doc), query)
                            /\ shown' = shown \cup {Line(doc, query)}
                            /\ hits' = hits \ {doc}
    BY <1>2 DEF ShowHit
  <2>2. UNCHANGED <<docs, query, pc, found>> /\ pc = "names"
    BY <1>2 DEF ShowHit
  <2>3. {l.doc : l \in shown'} = {l.doc : l \in shown} \cup {doc}
    BY <2>1, LineDoc
  <2>4. hits' \cup {l.doc : l \in shown'} = hits \cup {l.doc : l \in shown}
    BY <2>1, <2>3
  <2>5. hits' \cup {l.doc : l \in shown'} = {d \in docs' : Matches(query', d)}
    BY <2>2, <2>4 DEF SearchInv
  <2>6. \A l \in shown' : l = Line(l.doc, query) /\ ~Throws(Path(l.doc), query)
    BY <2>1, LineDoc DEF SearchInv
  <2>. QED
    BY <2>2, <2>5, <2>6 DEF SearchInv
<1>3. CASE HitThrows
  <2>1. /\ UNCHANGED <<docs, query, hits, shown, found>> /\ pc = "names" /\ pc' = "uncaught"
        /\ \E doc \in hits : Throws(Path(doc), query)
    BY <1>3 DEF HitThrows
  <2>. QED
    BY <2>1 DEF SearchInv
<1>4. CASE SearchContents
  <2>1. /\ UNCHANGED <<docs, query, hits, shown>> /\ pc = "names" /\ pc' = "done" /\ hits = {}
        /\ found' = {doc \in docs : ContentMatches(query, doc)}
    BY <1>4 DEF SearchContents, Snapshot
  <2>. QED
    BY <2>1 DEF SearchInv
<1>5. CASE UNCHANGED vars
  <2>1. UNCHANGED <<docs, query, pc, hits, shown, found>>
    BY <1>5 DEF vars
  <2>. QED
    BY <2>1 DEF SearchInv
<1>. QED
  BY <1>1, <1>2, <1>3, <1>4, <1>5 DEF Next

\* From here on: the typed states of search.
LEMMA SearchInvariant == Spec => [](TypeOK /\ SearchInv)
<1>1. Init => SearchInv
  BY DEF Init, SearchInv
<1>. QED
  BY <1>1, SearchStep, TypeCorrect, PTL DEF Spec

\* A query of one word finds exactly the files whose names contain it.
THEOREM FindsSubstrings == Spec => []SubstringsFound
<1>1. TypeOK /\ SearchInv => SubstringsFound
  <2> SUFFICES ASSUME TypeOK, SearchInv, pc = "done", OneWord(query)
               PROVE  {l.doc : l \in shown} = {doc \in docs : Occurs(query, doc.name)}
    BY DEF SubstringsFound
  <2>1. query \in Seq(Chars)
    BY NameSearchAssumption DEF TypeOK
  <2>2. \A doc \in docs : Matches(query, doc) <=> Occurs(query, doc.name)
    BY <2>1, DocFacts, MatchesOccurs
  <2>3. {l.doc : l \in shown} = {doc \in docs : Matches(query, doc)}
    BY DEF SearchInv
  <2>. QED
    BY <2>2, <2>3
<1>. QED
  BY <1>1, SearchInvariant, PTL

(***************************************************************************)
(* The line of a hit.                                                      *)
(***************************************************************************)

\* What substr gives is a given text exactly if they agree.
LEMMA SliceEqual ==
    ASSUME NEW S, NEW t \in Seq(S), NEW i \in Nat, NEW q \in Seq(S), i + Len(q) <= Len(t)
    PROVE  SubSeq(t, i + 1, i + Len(q)) = q <=> \A k \in 1..Len(q) : t[i + k] = q[k]
<1> DEFINE s == SubSeq(t, i + 1, i + Len(q))
<1>1. s \in Seq(S) /\ Len(s) = Len(q) /\ \A k \in 1..Len(q) : s[k] = t[i + k]
  <2>1. Len(q) \in Nat
    OBVIOUS
  <2>. QED
    BY <2>1, SliceFacts
<1> HIDE DEF s
<1>2. (\A k \in 1..Len(q) : s[k] = q[k]) => s = q
  BY <1>1, SeqEqual
<1>. QED
  BY <1>1, <1>2 DEF s

\* find returns the place of an occurrence, if there is one.
LEMMA FindFacts ==
    ASSUME NEW t \in Seq(Chars), NEW q \in Seq(Chars)
    PROVE  /\ Find(t, q) = -1 \/ /\ Find(t, q) \in 0..(Len(t) - Len(q))
                                 /\ \A k \in 1..Len(q) : t[Find(t, q) + k] = q[k]
           /\ \A i \in 0..(Len(t) - Len(q)) : (\A k \in 1..Len(q) : t[i + k] = q[k]) => Find(t, q) # -1
<1> DEFINE at == {i \in 0..(Len(t) - Len(q)) : SubSeq(t, i + 1, i + Len(q)) = q}
<1>1. Len(t) \in Nat /\ Len(q) \in Nat
  OBVIOUS
<1>2. ASSUME NEW i \in 0..(Len(t) - Len(q))
      PROVE  i \in at <=> \A k \in 1..Len(q) : t[i + k] = q[k]
  <2>1. i \in Nat /\ i + Len(q) <= Len(t)
    BY <1>1
  <2>2. SubSeq(t, i + 1, i + Len(q)) = q <=> \A k \in 1..Len(q) : t[i + k] = q[k]
    BY <2>1, SliceEqual
  <2>. QED
    BY <2>2
<1>3. at \subseteq 0..(Len(t) - Len(q)) /\ at \subseteq Nat
  BY <1>1
<1>4. Find(t, q) = IF at = {} THEN -1 ELSE CHOOSE i \in at : \A k \in at : i <= k
  BY DEF Find
<1> HIDE DEF at
<1>5. at # {} => (CHOOSE i \in at : \A k \in at : i <= k) \in at
  BY <1>3, LeastNumber
<1>6. ASSUME Find(t, q) # -1 PROVE Find(t, q) \in at
  BY <1>4, <1>5, <1>6
<1>7. ASSUME at # {} PROVE Find(t, q) # -1
  <2>1. Find(t, q) \in at
    BY <1>4, <1>5, <1>7
  <2>2. \A i \in Nat : i # -1
    OBVIOUS
  <2>. QED
    BY <1>3, <2>1, <2>2
<1>. QED
  BY <1>2, <1>3, <1>6, <1>7

\* rfind returns the place of the last slash.
LEMMA RFindFacts ==
    ASSUME NEW t \in Seq(Chars), NEW s \in DOMAIN t, t[s] = Slash,
           \A k \in DOMAIN t : k > s => t[k] # Slash
    PROVE  RFindSlash(t) = s - 1
<1> DEFINE at == {i \in DOMAIN t : t[i] = Slash}
<1>1. at \subseteq Nat /\ s \in at /\ \A k \in at : k <= s
  OBVIOUS
<1>2. (CHOOSE i \in at : \A k \in at : k <= i) = s
  <2>1. PICK c \in at : c = (CHOOSE i \in at : \A k \in at : k <= i) /\ \A k \in at : k <= c
    BY <1>1
  <2>. QED
    BY <1>1, <2>1
<1>. QED
  BY <1>1, <1>2 DEF RFindSlash

\* The path of a document that has a name: its parts, and where its last component begins.
LEMMA PathFacts ==
    ASSUME TypeOK, NEW doc \in docs, doc.name # <<>>
    PROVE  /\ Path(doc) \in Seq(Chars)
           /\ Len(doc.parent) \in Nat \ {0} /\ Len(doc.name) \in Nat \ {0}
           /\ Len(Path(doc)) \in {Len(doc.parent) + Len(doc.name), Len(doc.parent) + Len(doc.name) + 1}
           /\ \A k \in 1..Len(doc.name) : Path(doc)[Len(doc.parent) + k] = doc.name[k]
           /\ LastName(Path(doc)) = Len(doc.parent)
<1> DEFINE P == Path(doc)
           p == doc.parent
           name == doc.name
           m == Len(p)
           L == Len(name)
           pn == p \o name
           slash == IF doc.dir THEN <<Slash>> ELSE <<>>
<1>1. /\ p \in Seq(Chars) /\ m \in Nat \ {0} /\ p[m] = Slash
      /\ name \in Seq(Chars) /\ L \in Nat \ {0} /\ \A k \in 1..L : name[k] # Slash
      /\ doc.dir \in BOOLEAN
  <2>1. \A s \in Seq(Chars \ {Slash}) : \A k \in 1..Len(s) : s[k] # Slash
    OBVIOUS
  <2>. QED
    BY <2>1, DocFacts DEF Last
<1> HIDE DEF p, name, m, L
<1>2. /\ pn \in Seq(Chars) /\ Len(pn) = m + L
      /\ \A k \in 1..(m + L) : pn[k] = IF k <= m THEN p[k] ELSE name[k - m]
  BY <1>1, ConcatProperties DEF m, L
<1> HIDE DEF pn
<1>3. /\ slash \in Seq(Chars) /\ Len(slash) = (IF doc.dir THEN 1 ELSE 0)
      /\ doc.dir => slash[1] = Slash
  BY NameSearchAssumption
<1> HIDE DEF slash
<1>4. /\ P \in Seq(Chars) /\ Len(P) = m + L + (IF doc.dir THEN 1 ELSE 0)
      /\ \A k \in 1..(m + L) : P[k] = pn[k]
      /\ doc.dir => P[m + L + 1] = Slash
  <2>1. P = pn \o slash
    BY DEF Path, pn, slash, p, name
  <2> HIDE DEF P
  <2>2. /\ P \in Seq(Chars) /\ Len(P) = Len(pn) + Len(slash)
        /\ \A k \in 1..(Len(pn) + Len(slash)) :
              P[k] = IF k <= Len(pn) THEN pn[k] ELSE slash[k - Len(pn)]
    BY <1>2, <1>3, <2>1, ConcatProperties
  <2> HIDE DEF P
  <2>3. \A k \in 1..(m + L) : k \in 1..(Len(pn) + Len(slash)) /\ k <= Len(pn)
    BY <1>1, <1>2, <1>3
  <2>4. ASSUME doc.dir PROVE P[m + L + 1] = Slash
    <3>1. m + L + 1 \in 1..(Len(pn) + Len(slash)) /\ ~(m + L + 1 <= Len(pn)) /\ m + L + 1 - Len(pn) = 1
      BY <1>1, <1>2, <1>3, <2>4
    <3>. QED
      BY <1>3, <2>2, <2>4, <3>1
  <2>. QED
    BY <1>2, <1>3, <2>2, <2>3, <2>4
<1> HIDE DEF P
<1>5. P[m] = Slash /\ \A k \in 1..L : P[m + k] = name[k]
  <2>1. m \in 1..(m + L) /\ \A k \in 1..L : m + k \in 1..(m + L) /\ ~(m + k <= m) /\ (m + k) - m = k
    BY <1>1
  <2>. QED
    BY <1>1, <1>2, <1>4, <2>1
\* Behind the slash that ends the parent there is none in the name.
<1>6. ASSUME NEW k \in 1..(m + L), k > m PROVE P[k] # Slash
  <2>1. k - m \in 1..L /\ m + (k - m) = k
    BY <1>1, <1>6
  <2>. QED
    BY <1>1, <1>5, <2>1
<1>7. LastName(P) = m
  <2>1. CASE ~doc.dir
    <3>1. Len(P) = m + L /\ DOMAIN P = 1..(m + L) /\ m \in DOMAIN P
      BY <1>1, <1>4, <2>1
    <3>2. RFindSlash(P) = m - 1
      BY <1>4, <1>5, <1>6, <3>1, RFindFacts
    <3>. QED
      BY <1>1, <3>1, <3>2 DEF LastName
  <2>2. CASE doc.dir
    <3>1. Len(P) = m + L + 1 /\ DOMAIN P = 1..(m + L + 1) /\ m + L + 1 \in DOMAIN P
      BY <1>1, <1>4, <2>2
    <3>2. RFindSlash(P) = Len(P) - 1
      <4>1. \A k \in DOMAIN P : ~(k > m + L + 1)
        BY <1>1, <3>1
      <4>. QED
        BY <1>4, <2>2, <3>1, <4>1, RFindFacts
    <3> DEFINE F == Front(P)
    <3>3. F = SubSeq(P, 0 + 1, 0 + (m + L))
      BY <1>1, <3>1 DEF Front
    <3>4. F \in Seq(Chars) /\ Len(F) = m + L /\ \A k \in 1..(m + L) : F[k] = P[0 + k]
      BY <1>1, <1>4, <3>1, <3>3, SliceFacts
    <3> HIDE DEF F
    <3>5. /\ DOMAIN F = 1..(m + L) /\ m \in DOMAIN F /\ F[m] = Slash
          /\ \A k \in DOMAIN F : k > m => F[k] # Slash
      <4>1. DOMAIN F = 1..(m + L)
        BY <3>4
      <4>2. m \in 1..(m + L) /\ \A k \in 1..(m + L) : 0 + k = k
        BY <1>1
      <4>. QED
        BY <1>5, <1>6, <3>4, <4>1, <4>2
    <3>6. RFindSlash(F) = m - 1
      BY <3>4, <3>5, RFindFacts
    <3>. QED
      BY <1>1, <3>1, <3>2, <3>6 DEF LastName, F
  <2>. QED
    BY <1>1, <2>1, <2>2
<1>8. Len(P) \in {m + L, m + L + 1}
  BY <1>1, <1>4
<1>. QED
  BY <1>1, <1>4, <1>5, <1>7, <1>8 DEF P, p, name, m, L

\* A document that matches has a name.
LEMMA MatchNames ==
    ASSUME NEW q, NEW doc, Matches(q, doc)
    PROVE  doc.name # <<>>
<1>1. PICK term \in NameTerms(doc.name) : TRUE
  BY DEF Matches
<1>. QED
  BY <1>1 DEF NameTerms

\* Where the highlighting begins: at an occurrence of the query in the last component, or
\* just before it.
LEMMA LightFacts ==
    ASSUME TypeOK, NEW doc \in docs, doc.name # <<>>, NEW q \in Seq(Chars)
    PROVE  \E g \in {-1} \cup Nat :
              /\ Light(Path(doc), q) = g + Len(doc.parent)
              /\ g # -1 => /\ Light(Path(doc), q) + Len(q) <= Len(Path(doc))
                           /\ \A k \in 1..Len(q) : Path(doc)[Light(Path(doc), q) + k] = q[k]
              /\ Find(doc.name, q) # -1 => g # -1
<1> DEFINE P == Path(doc)
           name == doc.name
           m == Len(doc.parent)
           L == Len(name)
           n == Len(q)
           suffix == SubSeq(P, m + 1, m + (Len(P) - m))
           g == Find(suffix, q)
<1>1. /\ P \in Seq(Chars) /\ m \in Nat \ {0} /\ L \in Nat \ {0} /\ Len(P) \in {m + L, m + L + 1}
      /\ \A k \in 1..L : P[m + k] = name[k]
      /\ LastName(P) = m
      /\ n \in Nat /\ name \in Seq(Chars)
  <2>1. n \in Nat /\ name \in Seq(Chars)
    BY DocFacts
  <2> HIDE DEF n
  <2>. QED
    BY <2>1, PathFacts
<1>2. Light(P, q) = g + m
  <2>1. m + (Len(P) - m) = Len(P)
    BY <1>1
  <2>. QED
    BY <1>1, <2>1 DEF Light
<1> HIDE DEF P, name, m, L, n
<1>3. /\ suffix \in Seq(Chars) /\ Len(suffix) = Len(P) - m
      /\ \A k \in 1..(Len(P) - m) : suffix[k] = P[m + k]
  <2>1. Len(P) - m \in Nat /\ m \in Nat /\ m + (Len(P) - m) <= Len(P)
    BY <1>1
  <2>. QED
    BY <1>1, <2>1, SliceFacts
<1> HIDE DEF suffix
<1>4. /\ g = -1 \/ (g \in 0..(Len(suffix) - n) /\ \A k \in 1..n : suffix[g + k] = q[k])
      /\ \A i \in 0..(Len(suffix) - n) : (\A k \in 1..n : suffix[i + k] = q[k]) => g # -1
  BY <1>3, FindFacts DEF n
<1>5. Find(name, q) = -1 \/ (Find(name, q) \in 0..(L - n) /\ \A k \in 1..n : name[Find(name, q) + k] = q[k])
  BY <1>1, FindFacts DEF n, L
<1> HIDE DEF g
<1>6. g \in {-1} \cup Nat
  BY <1>1, <1>3, <1>4
<1>7. ASSUME g # -1
      PROVE  g + m + n <= Len(P) /\ \A k \in 1..n : P[g + m + k] = q[k]
  <2>1. g \in 0..(Len(P) - m - n) /\ \A k \in 1..n : suffix[g + k] = q[k]
    BY <1>1, <1>3, <1>4, <1>7
  <2>2. g + m + n <= Len(P)
    BY <1>1, <2>1
  <2>3. \A k \in 1..n : g + k \in 1..(Len(P) - m) /\ m + (g + k) = g + m + k
    BY <1>1, <2>1
  <2>. QED
    BY <1>3, <2>1, <2>2, <2>3
<1>8. ASSUME Find(name, q) # -1 PROVE g # -1
  <2> DEFINE f == Find(name, q)
  <2>1. f \in 0..(L - n) /\ \A k \in 1..n : name[f + k] = q[k]
    BY <1>5, <1>8
  <2> HIDE DEF f
  <2>2. /\ f \in 0..(Len(suffix) - n)
        /\ \A k \in 1..n : f + k \in 1..L /\ f + k \in 1..(Len(P) - m)
    <3>1. f \in Nat /\ f + n <= L /\ L \in Nat /\ n \in Nat
      BY <1>1, <2>1
    <3>2. m \in Nat /\ Len(P) \in Nat /\ L <= Len(P) - m /\ Len(suffix) = Len(P) - m
      BY <1>1, <1>3
    <3>. QED
      BY <3>1, <3>2
  <2>3. ASSUME NEW k \in 1..n PROVE suffix[f + k] = q[k]
    <3>1. name[f + k] = q[k] /\ f + k \in 1..L /\ f + k \in 1..(Len(P) - m)
      BY <2>1, <2>2
    <3>2. suffix[f + k] = P[m + (f + k)]
      BY <1>3, <3>1
    <3>. QED
      BY <1>1, <3>1, <3>2
  <2>. QED
    BY <1>4, <2>2, <2>3
<1>. QED
  BY <1>2, <1>6, <1>7, <1>8 DEF P, name, m, n

\* No query of one word is highlighted beyond the end of a path.
THEOREM OneWordsSurvive == Spec => []OneWordSurvives
<1>1. TypeOK /\ SearchInv => OneWordSurvives
  <2> SUFFICES ASSUME TypeOK, SearchInv, OneWord(query), pc = "uncaught" PROVE FALSE
    BY DEF OneWordSurvives
  <2>1. PICK doc \in hits : Throws(Path(doc), query)
    BY DEF SearchInv
  <2>2. doc \in docs /\ Matches(query, doc) /\ query \in Seq(Chars)
    BY NameSearchAssumption DEF SearchInv, TypeOK
  <2>3. doc.name # <<>> /\ Occurs(query, doc.name)
    BY <2>2, MatchNames, DocFacts, MatchesOccurs
  <2> DEFINE P == Path(doc)
             m == Len(doc.parent)
             L == Len(doc.name)
             n == Len(query)
  <2>4. m \in Nat \ {0} /\ L \in Nat \ {0} /\ n \in Nat /\ Len(P) \in {m + L, m + L + 1}
    <3>1. n \in Nat
      BY <2>2
    <3> HIDE DEF n
    <3>. QED
      BY <2>2, <2>3, <3>1, PathFacts
  <2>5. n <= L
    <3>1. PICK i \in 1..(L - n + 1) : TRUE
      BY <2>3 DEF Occurs
    <3>. QED
      BY <2>4, <3>1
  <2>6. PICK g \in {-1} \cup Nat : /\ Light(P, query) = g + m
                                   /\ g # -1 => Light(P, query) + n <= Len(P)
    BY <2>2, <2>3, LightFacts
  <2>7. Light(P, query) < 0 \/ Light(P, query) + n > Len(P)
    BY <2>1 DEF Throws
  <2> HIDE DEF P, m, L, n
  <2>. QED
    BY <2>4, <2>5, <2>6, <2>7
<1>. QED
  BY <1>1, SearchInvariant, PTL

\* A line is the path, and highlights the query in the name.
THEOREM QueryMarked == Spec => []MarksTheQuery
<1>1. TypeOK /\ SearchInv => MarksTheQuery
  <2> SUFFICES ASSUME TypeOK, SearchInv, NEW l \in shown
               PROVE  /\ l.before \o l.marked \o l.after = Path(l.doc)
                      /\ Find(l.doc.name, query) >= 0 =>
                            l.marked = query /\ Len(l.before) >= Len(l.doc.parent)
    BY DEF MarksTheQuery
  <2> DEFINE doc == l.doc
             q == query
             P == Path(doc)
             light == Light(P, q)
             n == Len(q)
  <2>1. doc \in docs /\ Matches(q, doc) /\ q \in Seq(Chars) /\ l = Line(doc, q) /\ ~Throws(P, q)
    <3>1. doc \in docs /\ pc # "search"
      BY DEF TypeOK, SearchInv
    <3>2. Matches(q, doc)
      BY <3>1 DEF SearchInv
    <3>. QED
      BY <3>1, <3>2, NameSearchAssumption DEF SearchInv, TypeOK
  <2>2. doc.name # <<>>
    BY <2>1, MatchNames
  <2>3. P \in Seq(Chars) /\ Len(P) \in Nat /\ Len(doc.parent) \in Nat /\ n \in Nat
    <3>1. n \in Nat
      BY <2>1
    <3>2. P \in Seq(Chars) /\ Len(doc.parent) \in Nat
      BY <2>1, <2>2, PathFacts
    <3> HIDE DEF n, P
    <3>. QED
      BY <3>1, <3>2
  <2>4. PICK g \in {-1} \cup Nat :
           /\ light = g + Len(doc.parent)
           /\ g # -1 => \A k \in 1..n : P[light + k] = q[k]
           /\ Find(doc.name, q) # -1 => g # -1
    BY <2>1, <2>2, LightFacts
  <2>5. light \in Nat /\ light + n <= Len(P)
    BY <2>1, <2>3, <2>4 DEF Throws
  <2>6. /\ l.before = Substr(P, 0, light)
        /\ l.marked = Substr(P, light, n)
        /\ l.after = Substr(P, light + n, Len(P) - light - n + 1)
    <3>1. Line(doc, q) = [doc |-> doc, before |-> Substr(P, 0, light), marked |-> Substr(P, light, n),
                          after |-> Substr(P, light + n, Len(P) - light - n + 1)]
      BY DEF Line
    <3> HIDE DEF P, light, n, doc, q
    <3>. QED
      BY <2>1, <3>1
  <2> HIDE DEF doc, q, P, light, n
  <2>7. /\ l.before = SubSeq(P, 1, light)
        /\ l.marked = SubSeq(P, light + 1, light + n)
        /\ l.after = SubSeq(P, light + n + 1, Len(P))
    <3>1. 0 + 1 = 1 /\ 0 + light = light /\ ~(0 + light > Len(P)) /\ ~(light + n > Len(P))
          /\ light + n + (Len(P) - light - n + 1) > Len(P)
      BY <2>3, <2>5
    <3>. QED
      BY <2>6, <3>1 DEF Substr
  <2>8. l.before \o l.marked \o l.after = P
    <3>1. SubSeq(P, 1, light) \o SubSeq(P, light + 1, light + n) = SubSeq(P, 1, light + n)
      BY <2>3, <2>5, ConcatAdjacentSubSeq
    <3>2. SubSeq(P, 1, light + n) \o SubSeq(P, light + n + 1, Len(P)) = SubSeq(P, 1, Len(P))
      <4>1. 1 \in 1..(Len(P) + 1) /\ light + n \in (1 - 1)..Len(P) /\ Len(P) \in (light + n)..Len(P)
        BY <2>3, <2>5
      <4>. QED
        BY <2>3, <4>1, ConcatAdjacentSubSeq
    <3>3. SubSeq(P, 1, Len(P)) = P
      BY <2>3, SubSeqFull
    <3>. QED
      BY <2>7, <3>1, <3>2, <3>3
  <2>9. ASSUME Find(doc.name, q) >= 0
        PROVE  l.marked = q /\ Len(l.before) >= Len(doc.parent)
    <3>1. g # -1 /\ light >= Len(doc.parent)
      BY <2>3, <2>4, <2>9
    <3>2. \A k \in 1..n : P[light + k] = q[k]
      BY <2>4, <3>1
    <3>3. SubSeq(P, light + 1, light + Len(q)) = q
      BY <2>1, <2>3, <2>5, <3>2, SliceEqual DEF n
    <3>4. Len(SubSeq(P, 0 + 1, 0 + light)) = light
      BY <2>3, <2>5, SliceFacts
    <3>5. 0 + 1 = 1 /\ 0 + light = light
      BY <2>5
    <3>. QED
      BY <2>7, <3>1, <3>3, <3>4, <3>5 DEF n
  <2>. QED
    BY <2>8, <2>9 DEF P, doc, q
<1>. QED
  BY <1>1, SearchInvariant, PTL

(***************************************************************************)
(* Contents.                                                               *)
(***************************************************************************)

\* Nothing in what is read of the file keeps it from being text.
IsText(file) == file.block /\ \A i \in 1..SizeRead(file) : file.bytes[i] \notin {Nul, High}

\* What is kept of a file is a beginning of its first block: as far as the file goes, or
\* up to its first Nul, or nothing. Of a text, it is all of it.
LEMMA ContentFacts ==
    ASSUME NEW file, file.block \in BOOLEAN, file.size \in Nat,
           file.bytes \in [1..BlockSize -> Chars]
    PROVE  /\ SizeRead(file) \in 0..BlockSize
           /\ \A k \in Nat \ {0} : k <= SizeRead(file) <=> k \in 1..BlockSize /\ k <= file.size
           /\ FileContent(file) \in Seq(Chars)
           /\ Len(FileContent(file)) <= SizeRead(file)
           /\ \A k \in 1..Len(FileContent(file)) : FileContent(file)[k] = file.bytes[k]
           /\ Len(FileContent(file)) # 0 =>
                /\ file.block
                /\ \/ Len(FileContent(file)) = SizeRead(file)
                   \/ file.bytes[Len(FileContent(file)) + 1] = Nul
           /\ IsText(file) => Len(FileContent(file)) = SizeRead(file)
<1> DEFINE B == file.bytes
           n == SizeRead(file)
           all == SubSeq(B, 1, n)
           read == file.block /\ IsASCII(file)
           text == IF read THEN all ELSE <<>>
           at == {i \in 1..Len(text) : text[i] = Nul}
           nul == IF at # {} THEN CHOOSE x \in at : \A y \in at : x =< y ELSE 0
           T == IF nul = 0 THEN text ELSE SubSeq(text, 1, nul - 1)
<1>1. n \in Nat /\ n <= BlockSize /\ BlockSize \in Nat
      /\ \A k \in Nat \ {0} : k <= n <=> k \in 1..BlockSize /\ k <= file.size
  BY NameSearchAssumption DEF SizeRead
<1>2. FileContent(file) = T
  BY Zenon DEF FileContent, SelectInSeq, Min
<1> HIDE DEF n
<1>3. B \in Seq(Chars) /\ Len(B) = BlockSize
  BY <1>1
<1>4. all \in Seq(Chars) /\ Len(all) = n /\ \A k \in 1..n : all[k] = B[k]
  <2>1. 0 \in Nat /\ 0 + n <= Len(B)
    BY <1>1, <1>3
  <2>2. /\ SubSeq(B, 0 + 1, 0 + n) \in Seq(Chars) /\ Len(SubSeq(B, 0 + 1, 0 + n)) = n
        /\ \A k \in 1..n : SubSeq(B, 0 + 1, 0 + n)[k] = B[0 + k]
    BY <1>1, <1>3, <2>1, SliceFacts
  <2>. QED
    BY <1>1, <2>2
<1>5. IsText(file) => read
  BY <1>1 DEF IsASCII, IsText
<1> HIDE DEF B, all
<1>6. /\ text \in Seq(Chars) /\ Len(text) \in Nat /\ Len(text) <= n
      /\ \A k \in 1..Len(text) : text[k] = B[k]
      /\ Len(text) # 0 => read
      /\ read => Len(text) = n
  BY <1>1, <1>4
<1>7. read => file.block
  OBVIOUS
<1> HIDE DEF text, read
<1>8. CASE at = {}
  <2>1. T = text
    BY <1>8
  <2> HIDE DEF T
  <2>2. /\ text \in Seq(Chars) /\ Len(text) <= n
        /\ \A k \in 1..Len(text) : text[k] = B[k]
    BY <1>6
  <2>3. Len(text) # 0 => file.block /\ Len(text) = n
    BY <1>6, <1>7
  <2>4. IsText(file) => Len(text) = n
    BY <1>5, <1>6
  <2>5. n \in 0..BlockSize
    BY <1>1
  <2>6. FileContent(file) = text
    BY <1>2, <2>1
  <2>. QED
    BY <1>1, <2>2, <2>3, <2>4, <2>5, <2>6 DEF n, B
<1>9. CASE at # {}
  <2>1. PICK x \in at : x = nul /\ \A y \in at : x =< y
    <3>1. at \subseteq Nat
      BY <1>6
    <3> HIDE DEF at
    <3>2. \E x \in at : \A y \in at : x =< y
      BY <1>9, <3>1, LeastNumber
    <3>3. nul \in at /\ \A y \in at : nul =< y
      BY <1>9, <3>2
    <3>. QED
      BY <3>3
  <2> HIDE DEF nul
  <2>2. x \in 1..Len(text) /\ text[x] = Nul /\ nul = x /\ x # 0 /\ x - 1 \in Nat
    BY <1>6, <2>1
  <2> HIDE DEF at
  <2>3. T = SubSeq(text, 1, x - 1)
    BY <2>2
  <2>4. T \in Seq(Chars) /\ Len(T) = x - 1 /\ \A k \in 1..(x - 1) : T[k] = text[k]
    <3> HIDE DEF T
    <3>1. 0 \in Nat /\ 0 + (x - 1) <= Len(text)
      BY <1>6, <2>2
    <3>2. /\ SubSeq(text, 0 + 1, 0 + (x - 1)) \in Seq(Chars)
          /\ Len(SubSeq(text, 0 + 1, 0 + (x - 1))) = x - 1
          /\ \A k \in 1..(x - 1) : SubSeq(text, 0 + 1, 0 + (x - 1))[k] = text[0 + k]
      BY <1>6, <2>2, <3>1, SliceFacts
    <3>3. 0 + 1 = 1 /\ 0 + (x - 1) = x - 1 /\ \A k \in 1..(x - 1) : 0 + k = k
      BY <2>2, <1>6
    <3>. QED
      BY <2>3, <3>2, <3>3
  <2> HIDE DEF T
  <2>5. /\ Len(T) <= n /\ Len(T) + 1 = x /\ B[x] = Nul /\ read /\ x \in 1..n
        /\ \A k \in 1..Len(T) : T[k] = B[k]
    BY <1>1, <1>6, <2>2, <2>4
  <2>6. ~IsText(file)
    BY <2>5 DEF IsText, n, B
  <2>. QED
    BY <1>1, <1>2, <1>7, <2>4, <2>5, <2>6 DEF n, B
<1>. QED
  BY <1>8, <1>9

\* A word of the content stands in the first block as a word of the file.
LEMMA ContentWord ==
    ASSUME TypeOK, NEW doc \in docs, ContentMatches(query, doc)
    PROVE  /\ ~doc.dir /\ doc.file.block
           /\ \E w \in Words(query) : \E i \in 1..BlockSize :
                 Len(w) <= MaxWord /\ WordAt(w, doc.file, i)
<1> DEFINE file == doc.file
           T == FileContent(file)
           n == SizeRead(file)
<1>0. file.block \in BOOLEAN /\ file.size \in Nat /\ file.bytes \in [1..BlockSize -> Chars]
  BY DocFacts
<1>1. /\ n \in 0..BlockSize /\ BlockSize \in Nat
      /\ \A k \in Nat \ {0} : k <= n <=> k \in 1..BlockSize /\ k <= file.size
      /\ T \in Seq(Chars)
      /\ Len(T) \in Nat /\ Len(T) <= n
      /\ \A k \in 1..Len(T) : T[k] = file.bytes[k]
      /\ Len(T) # 0 => file.block /\ (Len(T) = n \/ file.bytes[Len(T) + 1] = Nul)
  <2> HIDE DEF file
  <2>1. BlockSize \in Nat
    BY NameSearchAssumption
  <2>. QED
    BY <1>0, <2>1, ContentFacts
<1>2. PICK w \in Words(query) : w \in ContentTerms(doc)
  BY DEF ContentMatches
<1>3. ~doc.dir /\ w \in Words(T) /\ Len(w) <= MaxWord
  BY <1>2, DocFacts DEF ContentTerms
<1> HIDE DEF T, n, file
<1>4. PICK a \in DOMAIN T, b \in DOMAIN T : <<a, b>> \in Spans(T) /\ w = LowerCase(SubSeq(T, a, b))
  <2>1. T \in Seq(Chars) /\ w \in Words(T)
    BY <1>1, <1>3
  <2>. QED
    BY <2>1, WordFacts
<1>5. /\ a \in 1..Len(T) /\ b \in 1..Len(T) /\ a <= b
      /\ a = 1 \/ T[a - 1] \notin Letters
      /\ b = Len(T) \/ T[b + 1] \notin Letters
  BY <1>1, <1>4 DEF Spans
<1>6. Len(w) = b - a + 1 /\ \A k \in 1..(b - a + 1) : w[k] = Lower[T[a + k - 1]]
  <2>1. T \in Seq(Chars) /\ a <= b /\ w = LowerCase(SubSeq(T, a, b))
    BY <1>1, <1>4, <1>5
  <2>2. /\ Len(LowerCase(SubSeq(T, a, b))) = b - a + 1
        /\ \A k \in 1..(b - a + 1) : LowerCase(SubSeq(T, a, b))[k] = Lower[T[a + k - 1]]
    BY <2>1, LowerPart
  <2>. QED
    BY <2>1, <2>2
<1>7. a + Len(w) - 1 = b
  BY <1>1, <1>5, <1>6
<1>8. b \in 1..BlockSize /\ b <= file.size /\ a \in 1..BlockSize
  <2>1. b \in Nat \ {0} /\ b <= n /\ a <= n
    BY <1>1, <1>5
  <2>. QED
    BY <1>1, <1>5, <2>1
<1>9. ASSUME NEW k \in a..b PROVE Lower[file.bytes[k]] = w[k - a + 1]
  <2>1. k \in 1..Len(T) /\ k - a + 1 \in 1..(b - a + 1) /\ a + (k - a + 1) - 1 = k
    <3>1. /\ Len(T) \in Nat /\ a \in Nat /\ b \in Nat /\ k \in Int
          /\ 1 <= a /\ a <= k /\ k <= b /\ b <= Len(T)
      BY <1>1, <1>5
    <3>. QED
      BY <3>1
  <2>. QED
    BY <1>1, <1>6, <2>1
<1>10. a - 1 \in 1..BlockSize => file.bytes[a - 1] \notin Letters
  <2> SUFFICES ASSUME a - 1 \in 1..BlockSize PROVE file.bytes[a - 1] \notin Letters
    OBVIOUS
  <2>1. a # 1 /\ a - 1 \in 1..Len(T)
    BY <1>1, <1>5
  <2>. QED
    BY <1>1, <1>5, <2>1
<1>11. b + 1 \in 1..BlockSize /\ b + 1 <= file.size => file.bytes[b + 1] \notin Letters
  <2> SUFFICES ASSUME b + 1 \in 1..BlockSize, b + 1 <= file.size PROVE file.bytes[b + 1] \notin Letters
    OBVIOUS
  <2>1. b + 1 \in Nat \ {0} /\ b + 1 <= n
    BY <1>1
  <2>2. CASE b = Len(T)
    <3>1. file.bytes[b + 1] = Nul
      BY <1>1, <1>5, <2>1, <2>2
    <3>. QED
      BY <3>1, NameSearchAssumption
  <2>3. CASE b # Len(T)
    <3>1. b + 1 \in 1..Len(T)
      BY <1>1, <1>5, <2>3
    <3>. QED
      BY <1>1, <1>5, <2>3, <3>1
  <2>. QED
    BY <2>2, <2>3
<1>12. WordAt(w, file, a)
  BY <1>7, <1>8, <1>9, <1>10, <1>11 DEF WordAt
<1>13. file.block
  BY <1>1, <1>5
<1>. QED
  BY <1>3, <1>8, <1>12, <1>13 DEF file

\* A word of the query in the first block of a text is one of its content.
LEMMA WordMatches ==
    ASSUME TypeOK, NEW doc \in docs, ~doc.dir, doc.file.block,
           \A i \in 1..SizeRead(doc.file) : doc.file.bytes[i] \notin {Nul, High},
           NEW w \in Words(query), NEW i \in 1..BlockSize,
           Len(w) <= MaxWord, WordAt(w, doc.file, i)
    PROVE  ContentMatches(query, doc)
<1> DEFINE file == doc.file
           T == FileContent(file)
           n == SizeRead(file)
           j == i + Len(w) - 1
<1>0. file.block \in BOOLEAN /\ file.size \in Nat /\ file.bytes \in [1..BlockSize -> Chars]
  BY DocFacts
<1>1. /\ n \in 0..BlockSize /\ BlockSize \in Nat
      /\ \A k \in Nat \ {0} : k <= n <=> k \in 1..BlockSize /\ k <= file.size
      /\ T \in Seq(Chars)
      /\ Len(T) = n
      /\ \A k \in 1..n : T[k] = file.bytes[k]
  <2>1. IsText(file)
    BY DEF IsText
  <2> HIDE DEF file
  <2>2. BlockSize \in Nat
    BY NameSearchAssumption
  <2>3. /\ n \in 0..BlockSize
        /\ \A k \in Nat \ {0} : k <= n <=> k \in 1..BlockSize /\ k <= file.size
        /\ T \in Seq(Chars)
        /\ \A k \in 1..Len(T) : T[k] = file.bytes[k]
    BY <1>0, ContentFacts
  <2>4. Len(T) = n
    BY <1>0, <2>1, ContentFacts
  <2> HIDE DEF T, n
  <2>. QED
    BY <2>2, <2>3, <2>4
<1> HIDE DEF T, n, file
<1>2. query \in Seq(Chars)
  BY NameSearchAssumption DEF TypeOK
<1>3. w \in Seq(Chars) /\ Len(w) \in Nat \ {0} /\ \A k \in 1..Len(w) : w[k] \in Letters
  <2>1. PICK a \in DOMAIN query, b \in DOMAIN query :
                <<a, b>> \in Spans(query) /\ w = LowerCase(SubSeq(query, a, b))
    BY <1>2, WordFacts
  <2>2. /\ Len(query) \in Nat /\ a \in 1..Len(query) /\ b \in 1..Len(query) /\ a <= b
        /\ \A k \in a..b : query[k] \in Letters
    BY <1>2, <2>1 DEF Spans
  <2>3. /\ w \in Seq(Chars) /\ Len(w) = b - a + 1
        /\ \A k \in 1..(b - a + 1) : w[k] = Lower[query[a + k - 1]]
    <3>1. query \in Seq(Chars) /\ a <= b /\ w = LowerCase(SubSeq(query, a, b))
      BY <1>2, <2>1, <2>2
    <3>2. /\ LowerCase(SubSeq(query, a, b)) \in Seq(Chars)
          /\ Len(LowerCase(SubSeq(query, a, b))) = b - a + 1
          /\ \A k \in 1..(b - a + 1) : LowerCase(SubSeq(query, a, b))[k] = Lower[query[a + k - 1]]
      BY <3>1, LowerPart
    <3>. QED
      BY <3>1, <3>2
  <2>4. ASSUME NEW k \in 1..(b - a + 1) PROVE w[k] \in Letters
    <3>1. a + k - 1 \in a..b
      BY <2>2
    <3>2. query[a + k - 1] \in Letters
      BY <2>2, <3>1
    <3>. QED
      BY <2>3, <3>2, NameSearchAssumption
  <2>. QED
    BY <2>2, <2>3, <2>4
<1>4. /\ j \in 1..BlockSize /\ j <= file.size
      /\ \A k \in i..j : Lower[file.bytes[k]] = w[k - i + 1]
      /\ \A k \in {i - 1, j + 1} : k \in 1..BlockSize /\ k <= file.size => file.bytes[k] \notin Letters
  BY DEF WordAt, file
<1>5. i \in Nat /\ j \in Nat /\ 1 <= i /\ i <= j /\ j <= n /\ j - i + 1 = Len(w)
  BY <1>1, <1>3, <1>4
<1> HIDE DEF j
<1>6. DOMAIN T = 1..n /\ i \in DOMAIN T /\ j \in DOMAIN T
  BY <1>1, <1>5
<1>7. ASSUME NEW k \in i..j PROVE T[k] \in Letters /\ Lower[T[k]] = w[k - i + 1]
  <2>1. k \in 1..n /\ k - i + 1 \in 1..Len(w)
    BY <1>1, <1>5
  <2>2. Lower[T[k]] = w[k - i + 1] /\ T[k] \in Chars
    BY <1>1, <1>4, <1>6, <2>1
  <2>. QED
    BY <1>3, <2>1, <2>2, NameSearchAssumption
<1>8. i = 1 \/ T[i - 1] \notin Letters
  <2> SUFFICES ASSUME i # 1 PROVE T[i - 1] \notin Letters
    OBVIOUS
  <2>1. i - 1 \in Nat \ {0} /\ i - 1 \in 1..n
    BY <1>1, <1>5
  <2>2. i - 1 \in 1..BlockSize /\ i - 1 <= file.size
    BY <1>1, <2>1
  <2>3. file.bytes[i - 1] \notin Letters
    BY <1>4, <2>2
  <2>4. T[i - 1] = file.bytes[i - 1]
    BY <1>1, <2>1
  <2>. QED
    BY <2>3, <2>4
<1>9. j = Len(T) \/ T[j + 1] \notin Letters
  <2> SUFFICES ASSUME j # n PROVE T[j + 1] \notin Letters
    BY <1>1
  <2>1. j + 1 \in Nat \ {0} /\ j + 1 \in 1..n
    BY <1>1, <1>5
  <2>2. j + 1 \in 1..BlockSize /\ j + 1 <= file.size
    BY <1>1, <2>1
  <2>3. file.bytes[j + 1] \notin Letters
    BY <1>4, <2>2
  <2>4. T[j + 1] = file.bytes[j + 1]
    BY <1>1, <2>1
  <2>. QED
    BY <2>3, <2>4
<1>10. <<i, j>> \in Spans(T)
  BY <1>5, <1>6, <1>7, <1>8, <1>9 DEF Spans
<1>11. w = LowerCase(SubSeq(T, i, j))
  <2> DEFINE s == LowerCase(SubSeq(T, i, j))
  <2>1. s \in Seq(Chars) /\ Len(s) = j - i + 1 /\ \A k \in 1..(j - i + 1) : s[k] = Lower[T[i + k - 1]]
    <3>1. T \in Seq(Chars) /\ i \in DOMAIN T /\ j \in DOMAIN T /\ i <= j
      BY <1>1, <1>5, <1>6
    <3> HIDE DEF j
    <3>2. /\ LowerCase(SubSeq(T, i, j)) \in Seq(Chars)
          /\ Len(LowerCase(SubSeq(T, i, j))) = j - i + 1
          /\ \A k \in 1..(j - i + 1) : LowerCase(SubSeq(T, i, j))[k] = Lower[T[i + k - 1]]
      BY <3>1, LowerPart
    <3>. QED
      BY <3>2
  <2> HIDE DEF s
  <2>2. ASSUME NEW k \in 1..Len(w) PROVE s[k] = w[k]
    <3>1. i + k - 1 \in i..j /\ (i + k - 1) - i + 1 = k /\ k \in 1..(j - i + 1)
      BY <1>3, <1>5
    <3>. QED
      BY <1>7, <2>1, <3>1
  <2>3. s = w
    BY <1>3, <1>5, <2>1, <2>2, SeqEqual
  <2>. QED
    BY <2>3 DEF s
<1>12. w \in Words(T)
  BY <1>1, <1>6, <1>10, <1>11, WordFacts
<1>13. w \in ContentTerms(doc)
  BY <1>12 DEF ContentTerms, T, file
<1>. QED
  BY <1>13 DEF ContentMatches

\* What is found for its content has a word of the query, and nothing is missed among
\* the texts.
THEOREM FindsWords == Spec => []WordsOfTheFileFound
<1>1. TypeOK /\ SearchInv => WordsOfTheFileFound
  <2> SUFFICES ASSUME TypeOK, SearchInv, pc = "done", NEW doc \in docs
               PROVE  LET file == doc.file
                          hasWord == \E w \in Words(query) : \E i \in 1..BlockSize :
                                        Len(w) <= MaxWord /\ WordAt(w, file, i)
                          isText == file.block /\ \A i \in 1..SizeRead(file) : file.bytes[i] \notin {Nul, High}
                      IN  /\ doc \in found => ~doc.dir /\ file.block /\ hasWord
                          /\ hasWord /\ isText /\ ~doc.dir => doc \in found
    BY DEF WordsOfTheFileFound
  <2>1. doc \in found <=> ContentMatches(query, doc)
    BY DEF SearchInv
  <2>2. doc \in found => /\ ~doc.dir /\ doc.file.block
                         /\ \E w \in Words(query) : \E i \in 1..BlockSize :
                               Len(w) <= MaxWord /\ WordAt(w, doc.file, i)
    BY <2>1, ContentWord
  <2>3. ASSUME ~doc.dir, doc.file.block,
               \A i \in 1..SizeRead(doc.file) : doc.file.bytes[i] \notin {Nul, High},
               NEW w \in Words(query), NEW i \in 1..BlockSize,
               Len(w) <= MaxWord, WordAt(w, doc.file, i)
        PROVE  doc \in found
    BY <2>1, <2>3, WordMatches
  <2>. QED
    BY <2>2, <2>3
<1>. QED
  BY <1>1, SearchInvariant, PTL
===============================================================================
