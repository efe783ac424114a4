--------------------------- MODULE FormerIndexProofs ---------------------------
(***************************************************************************)
(* Proofs about FormerIndex, for every contents of directory_file, every   *)
(* query, any number of runs and every FlushEvery.                         *)
(***************************************************************************)
EXTENDS FormerIndex, BasicLemmas, FiniteSetTheorems

(***************************************************************************)
(* The inductive invariant.                                                *)
(***************************************************************************)

Documents == [path : Word, terms : SUBSET Seq(Chars)]

\* The i-th document index makes of file f.
DocumentOf(f, i) == Document(WordsOf(f)[2 * i - 1], WordsOf(f)[2 * i])

\* After r pairs of f have been read: what is left, ...
Left(f, r, left) ==
    /\ left \in Seq(Word)
    /\ Len(left) = Len(WordsOf(f)) - 2 * r
    /\ \A k \in 1..Len(left) : left[k] = WordsOf(f)[2 * r + k]

\* ... and what has been made of them: the documents `from' and on.
MadeOf(f, docs, from) == \A i \in DOMAIN docs : docs[i] = DocumentOf(f, from + i)

\* What a search showed of what is stored.
Shown(docs, res) ==
    res # None =>
        \E q \in Queries :
            LET found == {i \in DOMAIN docs : docs[i].terms \cap q # {}}
            IN  /\ res.query = q
                /\ res.docs \subseteq found
                /\ Cardinality(found) <= MaxShown => res.docs = found

\* While index runs, what it has read is stored or pending, in that order; what a run
\* that ended otherwise has dropped is less than FlushEvery.
ReadSoFar ==
    \E r \in Nat :
        /\ Left(file, r, words)
        /\ pc = "index" => r = Len(stored) + Len(pending)
        /\ r - Len(stored) \in 0..(FlushEvery - 1)
        /\ MadeOf(file, stored, 0)
        /\ MadeOf(file, pending, Len(stored))

PrefixInv ==
    /\ file \in Files /\ runs \in Nat
    /\ pending \in Seq(Documents) /\ stored \in Seq(Documents)
    /\ Len(pending) < FlushEvery
    /\ pc \in {"idle", "index"}
    /\ pc = "idle" => pending = <<>>
    /\ pc = "index" => runs > 0 /\ result = None
    /\ runs = 0 => stored = <<>>
    /\ runs > 0 => ReadSoFar
    /\ Shown(stored, result)

(***************************************************************************)
(* The words of a file.                                                    *)
(***************************************************************************)

LEMMA WordsFacts ==
    ASSUME NEW f \in Files
    PROVE  /\ WordsOf(f) \in Seq(Word)
           /\ OneWordEach(f) => /\ Len(WordsOf(f)) = 2 * Len(f)
                                /\ \A i \in 1..Len(f) : WordsOf(f)[2 * i] = f[i].name[1]
<1> DEFINE seqs == [i \in DOMAIN f |-> f[i].path \o f[i].name]
           L == Len(f)
<1>1. L \in Nat /\ DOMAIN f = 1..L /\ (L = 0 => f = <<>>)
      /\ \A i \in 1..L : f[i].path \in Seq(Word) /\ f[i].name \in Seq(Word)
  <2>1. f \in Seq([path : Seq(Word), name : Seq(Word)])
    BY FormerAssumption
  <2> HIDE DEF L
  <2>2. Len(f) \in Nat /\ DOMAIN f = 1..Len(f) /\ (Len(f) = 0 => f = <<>>)
        /\ \A i \in 1..Len(f) : f[i] \in [path : Seq(Word), name : Seq(Word)]
    <3> DEFINE R == [path : Seq(Word), name : Seq(Word)]
    <3> HIDE DEF R
    <3>1. f \in Seq(R)
      BY <2>1 DEF R
    <3>2. Len(f) \in Nat /\ DOMAIN f = 1..Len(f) /\ (Len(f) = 0 => f = <<>>)
          /\ \A i \in 1..Len(f) : f[i] \in R
      BY <3>1
    <3>. QED
      BY <3>2 DEF R
  <2>. QED
    BY <2>2 DEF L
<1>2. ASSUME NEW i \in 1..L
      PROVE  /\ f[i].path \o f[i].name \in Seq(Word)
             /\ Len(f[i].path \o f[i].name) = Len(f[i].path) + Len(f[i].name)
             /\ Len(f[i].path) = 1 /\ Len(f[i].name) = 1 =>
                   (f[i].path \o f[i].name)[2] = f[i].name[1]
  <2> DEFINE p == f[i].path
             n == f[i].name
  <2>1. p \in Seq(Word) /\ n \in Seq(Word)
    BY <1>1
  <2> HIDE DEF p, n
  <2>2. /\ p \o n \in Seq(Word) /\ Len(p \o n) = Len(p) + Len(n)
        /\ \A k \in 1..(Len(p) + Len(n)) :
              (p \o n)[k] = IF k <= Len(p) THEN p[k] ELSE n[k - Len(p)]
    BY <2>1, ConcatProperties
  <2>3. Len(p) = 1 /\ Len(n) = 1 => (p \o n)[2] = n[1]
    BY <2>2
  <2>. QED
    BY <2>2, <2>3 DEF p, n
<1>3. /\ seqs \in Seq(Seq(Word)) /\ Len(seqs) = L /\ DOMAIN seqs = 1..L
      /\ \A i \in 1..L : seqs[i] = f[i].path \o f[i].name
  <2> HIDE DEF L
  <2>1. seqs = [i \in 1..L |-> f[i].path \o f[i].name]
    BY <1>1
  <2>2. seqs \in [1..L -> Seq(Word)]
    BY <1>2, <2>1
  <2>3. seqs \in Seq(Seq(Word)) /\ Len(seqs) = L
    BY <1>1, <2>2
  <2>. QED
    BY <2>1, <2>3
<1> HIDE DEF L, seqs
<1>4. PICK g \in [0..L -> Seq(Word)] :
              /\ g[0] = <<>>
              /\ \A i \in 1..L : g[i] = g[i - 1] \o seqs[i]
              /\ L # 0 => FlattenSeq(seqs) = g[L]
  <2>1. PICK g \in [0..L -> Seq(Word)] :
                /\ g[0] = <<>>
                /\ \A i \in 1..Len(seqs) : g[i] = g[i - 1] \o seqs[i]
                /\ Len(seqs) # 0 =>
                      LET flatten[i \in 1..Len(seqs)] ==
                              IF i = 1 THEN seqs[i] ELSE flatten[i - 1] \o seqs[i]
                      IN  flatten[Len(seqs)] = g[Len(seqs)]
    BY <1>3, Concatenations
  <2>2. L # 0 => FlattenSeq(seqs) = g[L]
    BY <1>3, <2>1 DEF FlattenSeq
  <2>. QED
    BY <1>3, <2>1, <2>2
<1>5. WordsOf(f) = g[L]
  <2>1. WordsOf(f) = FlattenSeq(seqs)
    BY DEF WordsOf, seqs
  <2>2. CASE L = 0
    <3>1. Len(seqs) = 0 /\ seqs = <<>>
      BY <1>3, <2>2
    <3>. QED
      BY <1>4, <2>1, <2>2, <3>1 DEF FlattenSeq
  <2>. QED
    BY <1>4, <2>1, <2>2
<1>6. ASSUME OneWordEach(f)
      PROVE  Len(g[L]) = 2 * L /\ \A i \in 1..L : g[L][2 * i] = f[i].name[1]
  <2> DEFINE Names(n) == Len(g[n]) = 2 * n /\ \A i \in 1..n : g[n][2 * i] = f[i].name[1]
             T == {n \in Nat : n <= L => Names(n)}
  <2>1. 0 \in T
    BY <1>4
  <2>2. ASSUME NEW n \in Nat, n \in T PROVE n + 1 \in T
    <3> SUFFICES ASSUME n + 1 <= L PROVE Names(n + 1)
      OBVIOUS
    <3> DEFINE a == g[n]
               b == seqs[n + 1]
    <3>1. n + 1 \in 1..L /\ n \in 0..L /\ (n + 1) - 1 = n /\ n <= L
      BY <1>1
    <3>2. a \in Seq(Word) /\ Len(a) = 2 * n /\ \A i \in 1..n : a[2 * i] = f[i].name[1]
      BY <2>2, <3>1
    <3>3. b \in Seq(Word) /\ Len(b) = 2 /\ b[2] = f[n + 1].name[1]
      <4>1. Len(f[n + 1].path) = 1 /\ Len(f[n + 1].name) = 1
        BY <1>1, <1>6, <3>1 DEF OneWordEach
      <4>2. b = f[n + 1].path \o f[n + 1].name
        BY <1>3, <3>1
      <4>3. /\ f[n + 1].path \o f[n + 1].name \in Seq(Word)
            /\ Len(f[n + 1].path \o f[n + 1].name) = 2
            /\ (f[n + 1].path \o f[n + 1].name)[2] = f[n + 1].name[1]
        <5> HIDE DEF T, Names, a, b
        <5> DEFINE m == n + 1
        <5>1. m \in 1..L /\ Len(f[m].path) = 1 /\ Len(f[m].name) = 1
          BY <3>1, <4>1
        <5> HIDE DEF m
        <5>2. /\ f[m].path \o f[m].name \in Seq(Word)
              /\ Len(f[m].path \o f[m].name) = Len(f[m].path) + Len(f[m].name)
              /\ (f[m].path \o f[m].name)[2] = f[m].name[1]
          BY <1>2, <5>1
        <5>. QED
          BY <5>1, <5>2 DEF m
      <4>. QED
        BY <4>2, <4>3
    <3>4. g[n + 1] = a \o b
      BY <1>4, <3>1
    <3> HIDE DEF a, b
    <3>5. /\ Len(a \o b) = Len(a) + Len(b)
          /\ \A k \in 1..(Len(a) + Len(b)) : (a \o b)[k] = IF k <= Len(a) THEN a[k] ELSE b[k - Len(a)]
      BY <3>2, <3>3, ConcatProperties
    <3>6. Len(a \o b) = 2 * (n + 1)
      BY <3>2, <3>3, <3>5
    <3>7. ASSUME NEW i \in 1..(n + 1) PROVE (a \o b)[2 * i] = f[i].name[1]
      <4>1. CASE i = n + 1
        <5>1. 2 * i \in 1..(Len(a) + Len(b)) /\ ~(2 * i <= Len(a)) /\ 2 * i - Len(a) = 2
          BY <3>2, <3>3, <4>1
        <5>. QED
          BY <3>3, <3>5, <4>1, <5>1
      <4>2. CASE i # n + 1
        <5>1. i \in 1..n /\ 2 * i \in 1..(Len(a) + Len(b)) /\ 2 * i <= Len(a)
          BY <3>2, <3>3, <4>2
        <5>. QED
          BY <3>2, <3>5, <5>1
      <4>. QED
        BY <4>1, <4>2
    <3>. QED
      BY <3>4, <3>6, <3>7
  <2>3. \A n \in Nat : n \in T
    <3> HIDE DEF T
    <3>. QED
      BY <2>1, <2>2, Induction
  <2>. QED
    BY <1>1, <2>3
<1>7. L \in 0..L
  BY <1>1
<1>. QED
  BY <1>4, <1>5, <1>6, <1>7 DEF L

(***************************************************************************)
(* Documents.                                                              *)
(***************************************************************************)

\* The terms of a name are what it contains.
LEMMA TermsFacts ==
    ASSUME NEW name \in Word
    PROVE  /\ Terms(name) \subseteq Seq(Chars)
           /\ \A q \in Word : q \in Terms(name) <=> IsPartOf(name, q)
<1> DEFINE L == Len(name)
<1>1. name \in Seq(Chars) /\ L \in Nat /\ DOMAIN name = 1..L
  BY DEF Word
<1>2. ASSUME NEW t
      PROVE  t \in Terms(name) <=>
                \E i \in DOMAIN name, j \in DOMAIN name : i <= j /\ t = SubSeq(name, i, j)
  <2>1. ASSUME t \in Terms(name)
        PROVE  \E i \in DOMAIN name, j \in DOMAIN name : i <= j /\ t = SubSeq(name, i, j)
    <3>1. PICK x \in (DOMAIN name) \X (DOMAIN name) : x[1] <= x[2] /\ t = SubSeq(name, x[1], x[2])
      BY <2>1 DEF Terms
    <3>2. x[1] \in DOMAIN name /\ x[2] \in DOMAIN name
      OBVIOUS
    <3>. QED
      BY <3>1, <3>2
  <2>2. ASSUME NEW i \in DOMAIN name, NEW j \in DOMAIN name, i <= j, t = SubSeq(name, i, j)
        PROVE  t \in Terms(name)
    <3>1. <<i, j>>[1] = i /\ <<i, j>>[2] = j /\ <<i, j>> \in (DOMAIN name) \X (DOMAIN name)
      OBVIOUS
    <3>. QED
      BY <2>2, <3>1 DEF Terms
  <2>. QED
    BY <2>1, <2>2
<1> HIDE DEF L
<1>3. Terms(name) \subseteq Seq(Chars)
  <2> SUFFICES ASSUME NEW t \in Terms(name) PROVE t \in Seq(Chars)
    OBVIOUS
  <2>1. PICK i \in DOMAIN name, j \in DOMAIN name : i <= j /\ t = SubSeq(name, i, j)
    BY <1>2
  <2>2. SubSeq(name, i, j) \in Seq(Chars)
    BY <1>1, <2>1, PartFacts
  <2>. QED
    BY <2>1, <2>2
<1>4. ASSUME NEW q \in Word PROVE q \in Terms(name) <=> IsPartOf(name, q)
  <2>1. q \in Seq(Chars) /\ Len(q) \in Nat \ {0}
    BY DEF Word
  <2>2. ASSUME q \in Terms(name) PROVE IsPartOf(name, q)
    <3>1. PICK i \in DOMAIN name, j \in DOMAIN name : i <= j /\ q = SubSeq(name, i, j)
      BY <1>2, <2>2
    <3>2. Len(q) = j - i + 1
      BY <1>1, <3>1, PartFacts
    <3>3. i \in 1..(L - Len(q) + 1) /\ i + Len(q) - 1 = j
      BY <1>1, <2>1, <3>1, <3>2
    <3>. QED
      BY <3>1, <3>3 DEF IsPartOf, L
  <2>3. ASSUME IsPartOf(name, q) PROVE q \in Terms(name)
    <3>1. PICK i \in 1..(L - Len(q) + 1) : SubSeq(name, i, i + Len(q) - 1) = q
      BY <2>3 DEF IsPartOf, L
    <3>2. i \in DOMAIN name /\ i + Len(q) - 1 \in DOMAIN name /\ i <= i + Len(q) - 1
      BY <1>1, <2>1
    <3>. QED
      BY <1>2, <3>1, <3>2
  <2>. QED
    BY <2>2, <2>3
<1>. QED
  BY <1>3, <1>4

\* A document is one.
LEMMA DocumentTyped ==
    ASSUME NEW path \in Word, NEW name \in Word
    PROVE  Document(path, name) \in Documents
BY TermsFacts DEF Document, Documents

\* After one more pair.
LEMMA LeftStep ==
    ASSUME NEW f \in Files, NEW r \in Nat, NEW left, Left(f, r, left), Len(left) >= 2
    PROVE  /\ Left(f, r + 1, SubSeq(left, 3, Len(left)))
           /\ left[1] \in Word /\ left[2] \in Word
           /\ Document(left[1], left[2]) = DocumentOf(f, r + 1)
<1> DEFINE n == Len(left)
           W == WordsOf(f)
           s == SubSeq(left, 3, n)
<1>1. /\ left \in Seq(Word) /\ n \in Nat /\ n >= 2 /\ n = Len(W) - 2 * r
      /\ \A k \in 1..n : left[k] = W[2 * r + k]
  BY DEF Left
<1>2. W \in Seq(Word) /\ Len(W) \in Nat
  BY WordsFacts
<1> HIDE DEF W
<1>3. /\ s \in Seq(Word) /\ Len(s) = n - 2
      /\ \A k \in 1..(n - 2) : s[k] = left[k + 2]
  <2> HIDE DEF n
  <2>1. \A k \in 3..n : left[k] \in Word
    BY <1>1 DEF n
  <2>2. /\ s \in Seq(Word) /\ Len(s) = IF 3 <= n THEN n - 3 + 1 ELSE 0
        /\ \A k \in 1..(n - 3 + 1) : s[k] = left[3 + k - 1]
    BY <1>1, <2>1, SubSeqProperties
  <2>3. \A k \in 1..(n - 2) : k \in 1..(n - 3 + 1) /\ 3 + k - 1 = k + 2
    BY <1>1
  <2> HIDE DEF s
  <2>. QED
    BY <1>1, <2>2, <2>3
<1> HIDE DEF s, n
<1>4. Len(s) = Len(W) - 2 * (r + 1)
  BY <1>1, <1>2, <1>3
<1>5. ASSUME NEW k \in 1..Len(s) PROVE s[k] = W[2 * (r + 1) + k]
  <2>1. k \in 1..(n - 2) /\ k + 2 \in 1..n /\ 2 * r + (k + 2) = 2 * (r + 1) + k
    BY <1>1, <1>3
  <2>. QED
    BY <1>1, <1>3, <2>1
<1>6. Left(f, r + 1, s)
  BY <1>3, <1>4, <1>5 DEF Left, W
<1>7. left[1] = W[2 * (r + 1) - 1] /\ left[2] = W[2 * (r + 1)]
  <2>1. 1 \in 1..n /\ 2 \in 1..n /\ 2 * r + 1 = 2 * (r + 1) - 1 /\ 2 * r + 2 = 2 * (r + 1)
    BY <1>1
  <2>. QED
    BY <1>1, <2>1
<1>8. left[1] \in Word /\ left[2] \in Word
  BY <1>1 DEF n
<1>. QED
  BY <1>6, <1>7, <1>8 DEF DocumentOf, W, s, n

\* What was made of a file, and what comes behind it.
LEMMA MadeAppend ==
    ASSUME NEW f \in Files, NEW docs \in Seq(Documents), NEW from \in Nat, MadeOf(f, docs, from),
           NEW d \in Documents, d = DocumentOf(f, from + Len(docs) + 1)
    PROVE  MadeOf(f, Append(docs, d), from)
<1>1. /\ Len(docs) \in Nat /\ DOMAIN docs = 1..Len(docs)
      /\ DOMAIN Append(docs, d) = 1..(Len(docs) + 1)
      /\ \A i \in 1..Len(docs) : Append(docs, d)[i] = docs[i]
      /\ Append(docs, d)[Len(docs) + 1] = d
  OBVIOUS
<1>2. from + (Len(docs) + 1) = from + Len(docs) + 1
  BY <1>1
<1>. QED
  BY <1>1, <1>2 DEF MadeOf

LEMMA MadeConcat ==
    ASSUME NEW f \in Files, NEW docs \in Seq(Documents), NEW more \in Seq(Documents),
           MadeOf(f, docs, 0), MadeOf(f, more, Len(docs))
    PROVE  MadeOf(f, docs \o more, 0)
<1>1. /\ Len(docs) \in Nat /\ DOMAIN docs = 1..Len(docs)
      /\ Len(more) \in Nat /\ DOMAIN more = 1..Len(more)
      /\ docs \o more \in Seq(Documents)
      /\ Len(docs \o more) = Len(docs) + Len(more)
      /\ \A i \in 1..(Len(docs) + Len(more)) :
            (docs \o more)[i] = IF i <= Len(docs) THEN docs[i] ELSE more[i - Len(docs)]
  BY ConcatProperties
<1>2. DOMAIN (docs \o more) = 1..(Len(docs) + Len(more))
  BY <1>1
<1>3. ASSUME NEW i \in 1..(Len(docs) + Len(more))
      PROVE  (docs \o more)[i] = DocumentOf(f, 0 + i)
  <2>1. CASE i <= Len(docs)
    <3>1. i \in DOMAIN docs
      BY <1>1, <2>1
    <3>. QED
      BY <1>1, <2>1, <3>1 DEF MadeOf
  <2>2. CASE ~(i <= Len(docs))
    <3>1. i - Len(docs) \in DOMAIN more /\ Len(docs) + (i - Len(docs)) = 0 + i
      BY <1>1, <2>2
    <3>. QED
      BY <1>1, <2>2, <3>1 DEF MadeOf
  <2>. QED
    BY <2>1, <2>2
<1>. QED
  BY <1>2, <1>3 DEF MadeOf

(***************************************************************************)
(* The steps.                                                              *)
(***************************************************************************)

\* What is read of a file when index begins.
LEMMA LeftAll == ASSUME NEW f \in Files PROVE Left(f, 0, WordsOf(f))
<1>1. WordsOf(f) \in Seq(Word) /\ Len(WordsOf(f)) \in Nat
  BY WordsFacts
<1>. QED
  BY <1>1 DEF Left

LEMMA OpenStep == PrefixInv /\ OpenDatabase => PrefixInv'
<1> SUFFICES ASSUME PrefixInv, OpenDatabase PROVE PrefixInv'
  OBVIOUS
<1>1. /\ pc = "idle" /\ pending = <<>> /\ UNCHANGED pending
      /\ file' \in Files /\ words' = WordsOf(file')
      /\ runs \in Nat /\ runs' = runs + 1
      /\ stored' = <<>> /\ result' = None /\ pc' = "index"
      /\ FlushEvery \in Nat \ {0}
  BY FormerAssumption DEF OpenDatabase, Overwritten, PrefixInv
<1>2. Left(file', 0, words')
  BY <1>1, LeftAll
<1>3. /\ pending' \in Seq(Documents) /\ stored' \in Seq(Documents)
      /\ Len(pending') = 0 /\ Len(stored') = 0
      /\ MadeOf(file', stored', 0) /\ MadeOf(file', pending', Len(stored'))
  BY <1>1 DEF MadeOf
<1>4. Shown(stored', result')
  BY <1>1 DEF Shown
<1>5. runs' \in Nat /\ runs' > 0 /\ 0 \in Nat /\ 0 = Len(stored') + Len(pending')
      /\ 0 - Len(stored') \in 0..(FlushEvery - 1) /\ Len(pending') < FlushEvery
  BY <1>1, <1>3
<1>6. ReadSoFar'
  BY <1>2, <1>3, <1>5 DEF ReadSoFar
<1>. QED
  BY <1>1, <1>3, <1>4, <1>5, <1>6 DEF PrefixInv

LEMMA AddStep == PrefixInv /\ AddDocument => PrefixInv'
<1> SUFFICES ASSUME PrefixInv, AddDocument PROVE PrefixInv'
  OBVIOUS
<1> DEFINE d == Document(words[1], words[2])
           now == Append(pending, d)
<1>1. /\ pc = "index" /\ Len(words) >= 2
      /\ words' = SubSeq(words, 3, Len(words))
      /\ file' = file /\ runs' = runs /\ result' = result /\ pc' = pc
      /\ IF Len(now) = FlushEvery THEN stored' = stored \o now /\ pending' = <<>>
         ELSE pending' = now /\ stored' = stored
  BY DEF AddDocument
<1>2. /\ file \in Files /\ runs \in Nat /\ runs > 0 /\ result = None
      /\ pending \in Seq(Documents) /\ stored \in Seq(Documents)
      /\ Len(pending) \in Nat /\ Len(stored) \in Nat /\ Len(pending) < FlushEvery
      /\ FlushEvery \in Nat \ {0}
  BY <1>1, FormerAssumption DEF PrefixInv
<1>3. PICK r \in Nat : /\ Left(file, r, words)
                       /\ r = Len(stored) + Len(pending)
                       /\ MadeOf(file, stored, 0)
                       /\ MadeOf(file, pending, Len(stored))
  BY <1>1, <1>2 DEF PrefixInv, ReadSoFar
<1>4. /\ Left(file, r + 1, words')
      /\ words[1] \in Word /\ words[2] \in Word
      /\ d = DocumentOf(file, r + 1)
  BY <1>1, <1>2, <1>3, LeftStep
<1>5. d \in Documents
  BY <1>4, DocumentTyped
<1> HIDE DEF d
<1>6. /\ now \in Seq(Documents) /\ Len(now) = Len(pending) + 1
      /\ MadeOf(file, now, Len(stored))
  <2>1. now \in Seq(Documents) /\ Len(now) = Len(pending) + 1
    BY <1>2, <1>5
  <2>2. Len(stored) + Len(pending) + 1 = r + 1
    BY <1>3
  <2>. QED
    BY <1>2, <1>3, <1>4, <1>5, <2>1, <2>2, MadeAppend
<1> HIDE DEF now
<1>7. /\ stored' \in Seq(Documents) /\ pending' \in Seq(Documents)
      /\ Len(pending') \in Nat /\ Len(pending') < FlushEvery
      /\ Len(stored') + Len(pending') = r + 1
      /\ Len(stored') \in Nat
      /\ MadeOf(file, stored', 0) /\ MadeOf(file, pending', Len(stored'))
  <2>1. CASE Len(now) = FlushEvery
    <3>1. stored' = stored \o now /\ pending' = <<>>
      BY <1>1, <2>1
    <3>2. stored \o now \in Seq(Documents) /\ Len(stored \o now) = Len(stored) + Len(now)
      BY <1>2, <1>6, ConcatProperties
    <3>3. MadeOf(file, stored \o now, 0)
      BY <1>2, <1>3, <1>6, MadeConcat
    <3>4. /\ <<>> \in Seq(Documents) /\ Len(<<>>) = 0
          /\ MadeOf(file, <<>>, Len(stored'))
      BY DEF MadeOf
    <3>. QED
      BY <1>2, <1>3, <1>6, <3>1, <3>2, <3>3, <3>4
  <2>2. CASE Len(now) # FlushEvery
    <3>1. stored' = stored /\ pending' = now
      BY <1>1, <2>2
    <3>. QED
      BY <1>2, <1>3, <1>6, <2>2, <3>1
  <2>. QED
    BY <2>1, <2>2
<1>8. ReadSoFar'
  <2>1. r + 1 \in Nat /\ (r + 1) - Len(stored') \in 0..(FlushEvery - 1)
    BY <1>2, <1>3, <1>7
  <2>. QED
    BY <1>1, <1>4, <1>7, <2>1 DEF ReadSoFar
<1>9. Shown(stored', result')
  BY <1>1, <1>2 DEF Shown
<1>. QED
  BY <1>1, <1>2, <1>7, <1>8, <1>9 DEF PrefixInv

LEMMA EndStep == PrefixInv /\ EndIndex => PrefixInv'
<1> SUFFICES ASSUME PrefixInv, EndIndex PROVE PrefixInv'
  OBVIOUS
<1>1. /\ pc = "index" /\ stored' = stored \o pending /\ pending' = <<>> /\ pc' = "idle"
      /\ file' = file /\ runs' = runs /\ words' = words /\ result' = result
  BY DEF EndIndex
<1>2. /\ file \in Files /\ runs \in Nat /\ runs > 0 /\ result = None
      /\ pending \in Seq(Documents) /\ stored \in Seq(Documents)
      /\ Len(pending) \in Nat /\ Len(stored) \in Nat
      /\ FlushEvery \in Nat \ {0}
  BY <1>1, FormerAssumption DEF PrefixInv
<1>3. PICK r \in Nat : /\ Left(file, r, words)
                       /\ r = Len(stored) + Len(pending)
                       /\ MadeOf(file, stored, 0)
                       /\ MadeOf(file, pending, Len(stored))
  BY <1>1, <1>2 DEF PrefixInv, ReadSoFar
<1>4. stored' \in Seq(Documents) /\ Len(stored') = r
  BY <1>1, <1>2, <1>3, ConcatProperties
<1>5. MadeOf(file, stored', 0)
  BY <1>1, <1>2, <1>3, MadeConcat
<1>6. pending' \in Seq(Documents) /\ Len(pending') = 0 /\ MadeOf(file, pending', Len(stored'))
  BY <1>1 DEF MadeOf
<1>7. ReadSoFar'
  <2>1. r - Len(stored') \in 0..(FlushEvery - 1)
    BY <1>2, <1>4
  <2>. QED
    BY <1>1, <1>3, <1>5, <1>6, <2>1 DEF ReadSoFar
<1>8. Shown(stored', result')
  BY <1>1, <1>2 DEF Shown
<1>. QED
  BY <1>1, <1>2, <1>4, <1>6, <1>7, <1>8 DEF PrefixInv

\* The runs that end otherwise: what is pending is dropped.
LEMMA DropStep == PrefixInv /\ (CatchError \/ Crash) => PrefixInv'
<1> SUFFICES ASSUME PrefixInv, CatchError \/ Crash PROVE PrefixInv'
  OBVIOUS
<1>1. /\ pc = "index" /\ pending' = <<>> /\ pc' = "idle"
      /\ file' = file /\ runs' = runs /\ words' = words /\ stored' = stored /\ result' = result
  BY DEF CatchError, Crash
<1>2. /\ file \in Files /\ runs \in Nat /\ runs > 0 /\ result = None
      /\ stored \in Seq(Documents) /\ FlushEvery \in Nat \ {0}
  BY <1>1, FormerAssumption DEF PrefixInv
<1>3. PICK r \in Nat : /\ Left(file, r, words)
                       /\ r - Len(stored) \in 0..(FlushEvery - 1)
                       /\ MadeOf(file, stored, 0)
  BY <1>2 DEF PrefixInv, ReadSoFar
<1>4. pending' \in Seq(Documents) /\ Len(pending') = 0 /\ MadeOf(file, pending', Len(stored'))
  BY <1>1 DEF MadeOf
<1>5. ReadSoFar'
  BY <1>1, <1>3, <1>4 DEF ReadSoFar
<1>6. Shown(stored', result')
  BY <1>1, <1>2 DEF Shown
<1>. QED
  BY <1>1, <1>2, <1>4, <1>5, <1>6 DEF PrefixInv

\* As many of what is found as there are, or as may be shown.
LEMMA SearchStep == ASSUME NEW q \in Queries PROVE PrefixInv /\ Search(q) => PrefixInv'
<1> SUFFICES ASSUME PrefixInv, Search(q) PROVE PrefixInv'
  OBVIOUS
<1> DEFINE found == {i \in DOMAIN stored : stored[i].terms \cap q # {}}
<1>1. /\ pc = "idle" /\ runs > 0
      /\ file' = file /\ runs' = runs /\ words' = words /\ pending' = pending
      /\ stored' = stored /\ pc' = pc
  BY DEF Search
<1>2. PICK docs \in SUBSET found :
              /\ Cardinality(docs) = IF Cardinality(found) > MaxShown THEN MaxShown ELSE Cardinality(found)
              /\ result' = [query |-> q, docs |-> docs]
  BY DEF Search, Found
<1>3. IsFiniteSet(found) /\ Cardinality(found) \in Nat
  <2>1. stored \in Seq(Documents)
    BY DEF PrefixInv
  <2>2. Len(stored) \in Nat /\ DOMAIN stored = 1..Len(stored)
    BY <2>1
  <2>3. IsFiniteSet(1..Len(stored))
    BY <2>2, FS_Interval
  <2>4. found \in SUBSET (1..Len(stored))
    BY <2>2
  <2>5. IsFiniteSet(found)
    BY <2>3, <2>4, FS_Subset
  <2>. QED
    BY <2>5, FS_CardinalityType
<1>4. Cardinality(found) <= MaxShown => docs = found
  <2> HIDE DEF found
  <2> SUFFICES ASSUME Cardinality(found) <= MaxShown PROVE docs = found
    OBVIOUS
  <2>1. Cardinality(docs) = Cardinality(found)
    BY <1>2, <1>3, FormerAssumption
  <2>. QED
    BY <1>2, <1>3, <2>1, FS_Subset
<1>5. result'.query = q /\ result'.docs = docs
  BY <1>2
<1>6. Shown(stored', result')
  BY <1>1, <1>2, <1>4, <1>5 DEF Shown
<1>7. ReadSoFar => ReadSoFar'
  BY <1>1 DEF ReadSoFar
<1>. QED
  BY <1>1, <1>6, <1>7 DEF PrefixInv

LEMMA PrefixInvariant == Spec => []PrefixInv
<1>1. Init => PrefixInv
  BY FormerAssumption DEF Init, PrefixInv, Shown, None
<1>2. PrefixInv /\ [Next]_vars => PrefixInv'
  <2> SUFFICES ASSUME PrefixInv, [Next]_vars PROVE PrefixInv'
    OBVIOUS
  <2>1. CASE UNCHANGED vars
    BY <2>1 DEF vars, PrefixInv, ReadSoFar
  <2>. QED
    BY <2>1, OpenStep, AddStep, EndStep, DropStep, SearchStep DEF Next
<1>. QED
  BY <1>1, <1>2, PTL DEF Spec

\* The database holds the beginning of the present file, and less than FlushEvery of what
\* was read is missing.
THEOREM StoresAPrefix == Spec => []StoredIsPrefix
<1>1. PrefixInv => StoredIsPrefix
  <2> SUFFICES ASSUME PrefixInv, runs > 0
               PROVE  LET read == (Len(WordsOf(file)) - Len(words)) \div 2
                      IN  /\ read - Len(stored) \in 0..(FlushEvery - 1)
                          /\ \A i \in DOMAIN stored :
                                stored[i] = Document(Pairs(file)[i][1], Pairs(file)[i][2])
    BY DEF StoredIsPrefix
  <2> DEFINE W == WordsOf(file)
             n == Len(stored)
  <2>1. file \in Files /\ stored \in Seq(Documents)
    BY DEF PrefixInv
  <2>2. PICK r \in Nat : /\ Left(file, r, words)
                         /\ r - n \in 0..(FlushEvery - 1)
                         /\ MadeOf(file, stored, 0)
    BY DEF PrefixInv, ReadSoFar
  <2>3. /\ Len(W) \in Nat /\ Len(words) \in Nat /\ Len(words) = Len(W) - 2 * r
        /\ n \in Nat /\ DOMAIN stored = 1..n /\ FlushEvery \in Nat
    BY <2>1, <2>2, WordsFacts, FormerAssumption DEF Left
  <2> HIDE DEF W, n
  <2>4. (Len(W) - Len(words)) \div 2 = r /\ r <= Len(W) \div 2 /\ n <= r
    BY <2>2, <2>3
  <2>5. ASSUME NEW i \in 1..n PROVE stored[i] = Document(Pairs(file)[i][1], Pairs(file)[i][2])
    <3>1. i \in 1..(Len(W) \div 2)
      BY <2>3, <2>4
    <3>2. Pairs(file)[i] = <<W[2 * i - 1], W[2 * i]>>
      BY <3>1 DEF Pairs, W
    <3>3. stored[i] = DocumentOf(file, 0 + i) /\ 0 + i = i
      BY <2>2, <2>3 DEF MadeOf
    <3>. QED
      BY <3>2, <3>3 DEF DocumentOf, W
  <2>. QED
    BY <2>2, <2>3, <2>4, <2>5 DEF W, n
<1>. QED
  BY <1>1, PrefixInvariant, PTL

\* What is shown contains a word of the query, and nothing that does is missing if it is
\* no more than MaxShown.
THEOREM ShowsWhatContains == Spec => []ShowsNamesThatContain
<1>1. PrefixInv => ShowsNamesThatContain
  <2> SUFFICES ASSUME PrefixInv, result # None, OneWordEach(file)
               PROVE  LET hits == {i \in DOMAIN stored : \E q \in result.query : IsPartOf(file[i].name[1], q)}
                      IN  /\ result.docs \subseteq hits
                          /\ Cardinality(hits) <= MaxShown => result.docs = hits
    BY DEF ShowsNamesThatContain
  <2>1. file \in Files /\ stored \in Seq(Documents)
    BY DEF PrefixInv
  <2>2. PICK q \in Queries :
                LET found == {i \in DOMAIN stored : stored[i].terms \cap q # {}}
                IN  /\ result.query = q
                    /\ result.docs \subseteq found
                    /\ Cardinality(found) <= MaxShown => result.docs = found
    BY DEF PrefixInv, Shown
  <2>3. ASSUME NEW i \in DOMAIN stored
        PROVE  stored[i].terms \cap q # {} <=> \E t \in q : IsPartOf(file[i].name[1], t)
    <3> DEFINE W == WordsOf(file)
               n == Len(stored)
    <3>1. n \in Nat /\ i \in 1..n /\ stored # <<>>
      BY <2>1
    <3>2. runs > 0
      BY <3>1 DEF PrefixInv
    <3>3. PICK r \in Nat : /\ Left(file, r, words)
                           /\ r - n \in 0..(FlushEvery - 1)
                           /\ MadeOf(file, stored, 0)
      BY <3>2 DEF PrefixInv, ReadSoFar
    <3>4. /\ W \in Seq(Word) /\ Len(W) = 2 * Len(file) /\ Len(file) \in Nat
          /\ \A k \in 1..Len(file) : W[2 * k] = file[k].name[1]
      <4>1. W \in Seq(Word) /\ Len(W) = 2 * Len(file)
            /\ \A k \in 1..Len(file) : W[2 * k] = file[k].name[1]
        BY <2>1, WordsFacts
      <4>2. Len(file) \in Nat
        BY <2>1, FormerAssumption, LenProperties
      <4>. QED
        BY <4>1, <4>2
    <3>5. Len(words) \in Nat /\ Len(words) = Len(W) - 2 * r /\ FlushEvery \in Nat
      BY <3>3, FormerAssumption DEF Left
    <3>6. stored[i] = DocumentOf(file, 0 + i) /\ 0 + i = i
      BY <3>1, <3>3 DEF MadeOf
    <3> HIDE DEF n, W
    <3>7. i \in 1..Len(file) /\ 2 * i \in 1..Len(W)
      BY <3>1, <3>3, <3>4, <3>5
    <3>8. W[2 * i] = file[i].name[1] /\ W[2 * i] \in Word
      BY <3>4, <3>7
    <3>9. stored[i].terms = Terms(file[i].name[1])
      BY <3>6, <3>8 DEF DocumentOf, Document, W
    <3>10. q \subseteq Word
      BY FormerAssumption
    <3>11. \A t \in q : t \in Terms(file[i].name[1]) <=> IsPartOf(file[i].name[1], t)
      BY <3>8, <3>10, TermsFacts
    <3>. QED
      BY <3>9, <3>11
  <2>4. {i \in DOMAIN stored : stored[i].terms \cap q # {}}
           = {i \in DOMAIN stored : \E t \in q : IsPartOf(file[i].name[1], t)}
    BY <2>3
  <2>. QED
    BY <2>2, <2>4
<1>. QED
  BY <1>1, PrefixInvariant, PTL
===============================================================================
