------------------------------- MODULE NameSearch -----------------------------
(***************************************************************************)
(* DB::add and DB::search (src/DB.cpp 41-56, 65-103) as far as terms go:   *)
(* those a file is indexed under, for its name and for its content (which  *)
(* read_file_inode, src/ostream.h 362-393, makes of its first block), the  *)
(* documents a query then matches by name and by content, and the line     *)
(* printed for each name, with the query highlighted.                      *)
(*                                                                         *)
(* Xapian is external and modelled as the code uses it:                    *)
(*  - TermGenerator::index_text(text, 1, prefix) adds the words of the text*)
(*    in lower case, except those longer than MaxWord (64 in Xapian), under*)
(*    a prefix that keeps names ("N") and contents ("C") apart;            *)
(*  - QueryParser makes an OR of the words of the query; with FLAG_PARTIAL,*)
(*    the last one, if it ends the query, stands for every term it begins  *)
(*    (operators, phrases and syntax errors are left out);                 *)
(*  - matches come in any order.                                           *)
(* Names and queries are sequences of characters, because what is said of  *)
(* them is about positions; so is the first block of a file.  A document is*)
(* a record: its parent (with the slash that ends it), its name, whether it*)
(* was added as a directory, and the file: whether it has a block, its size*)
(* and all the bytes of its first block.                                   *)
(* Positions are counted from 0, as in the code; npos + n is n - 1.        *)
(***************************************************************************)
EXTENDS Integers, Sequences, SequencesExt, FiniteSets

CONSTANTS Chars,         \* characters
          Letters,       \* those that words are made of
          Lower,         \* tolower
          Slash,
          Nul, High,     \* the byte 0, and a byte that is not ASCII
          MaxWord,       \* the longest word that is indexed
          BlockSize,     \* block_size_
          Checked,       \* how many bytes have to be ASCII (100)
          Contents,      \* sets of documents the database may hold
          Queries        \* what may be typed

VARIABLES docs,          \* the documents in the database
          query,         \* querystr
          pc,            \* where search is
          hits,          \* what result still holds
          shown,         \* the lines printed, in their three parts
          found          \* those printed under "content:"

vars == <<docs, query, pc, hits, shown, found>>

ASSUME NameSearchAssumption ==
    /\ Letters \subseteq Chars
    /\ Lower \in [Chars -> Chars]
    /\ Slash \in Chars \ Letters
    /\ {Nul, High} \subseteq Chars \ Letters
    /\ \A ch \in Chars : Lower[ch] \in Letters <=> ch \in Letters
    /\ MaxWord \in Nat /\ BlockSize \in Nat /\ Checked \in Nat
    /\ Queries \subseteq Seq(Chars)

\* What read_current_directory adds: every prefix is that of main, "/", or has a name and
\* "/" behind it; a name in a directory has no slash.
ASSUME DocumentsAssumption ==
    \A documents \in Contents : \A doc \in documents :
        /\ doc.parent \in Seq(Chars) /\ doc.parent # <<>> /\ Last(doc.parent) = Slash
        /\ doc.name \in Seq(Chars \ {Slash})
        /\ doc.dir \in BOOLEAN
        /\ doc.file.block \in BOOLEAN /\ doc.file.size \in Nat
        /\ doc.file.bytes \in [1..BlockSize -> Chars]

-------------------------------------------------------------------------------
(* Words and terms. *)

LowerCase(t) == [i \in DOMAIN t |-> Lower[t[i]]]

\* The maximal runs of letters in t.
Spans(t) == {ij \in (DOMAIN t) \X (DOMAIN t) :
                /\ ij[1] <= ij[2]
                /\ \A k \in ij[1]..ij[2] : t[k] \in Letters
                /\ ij[1] = 1 \/ t[ij[1] - 1] \notin Letters
                /\ ij[2] = Len(t) \/ t[ij[2] + 1] \notin Letters}

Words(t) == {LowerCase(SubSeq(t, ij[1], ij[2])) : ij \in Spans(t)}

(* Definitions named ..._Mutant are what a plausible mistake would make of the
   definition that follows them. Nothing here uses them. *)

\* Only the name itself, not what remains of it from each position on.
NameTerms_Mutant(name) == {w \in Words(name) : Len(w) <= MaxWord}

\* The loop of DB::add: every suffix of the name is indexed.
NameTerms(name) ==
    {w \in UNION {Words(SubSeq(name, i, Len(name))) : i \in DOMAIN name} : Len(w) <= MaxWord}

\* doc.set_data: prefix + name, and "/" behind the name of a directory.
Path(doc) == doc.parent \o doc.name \o (IF doc.dir THEN <<Slash>> ELSE <<>>)

\* What parse_query makes of q: exact words, and a word that may go on.
Partial(q) == {LowerCase(SubSeq(q, ij[1], ij[2])) : ij \in {x \in Spans(q) : x[2] = Len(q)}}
Exact(q) == {LowerCase(SubSeq(q, ij[1], ij[2])) : ij \in {x \in Spans(q) : x[2] # Len(q)}}

Matches(q, doc) ==
    \E term \in NameTerms(doc.name) :
        \/ term \in Exact(q)
        \/ \E w \in Partial(q) : IsPrefix(w, term)

-------------------------------------------------------------------------------
(* Contents. *)

\* Not terminated at the end of the file: the rest of the block belongs to it.
SizeRead_Mutant(file) == BlockSize
SizeRead(file) == IF file.size > BlockSize THEN BlockSize ELSE file.size

\* The check for ASCII, of the beginning.
IsASCII(file) == \A i \in 1..SizeRead(file) : i <= Checked => file.bytes[i] # High

\* What read_file_inode leaves in file_content, as the C string that main makes of it.
\* Behind a full block the terminator is one byte outside the buffer, in what malloc
\* adds to a block of memory of that size.
FileContent(file) ==
    LET text == IF file.block /\ IsASCII(file) THEN SubSeq(file.bytes, 1, SizeRead(file)) ELSE <<>>
        nul == SelectInSeq(text, LAMBDA ch : ch = Nul)
    IN  IF nul = 0 THEN text ELSE SubSeq(text, 1, nul - 1)

\* db.add is given the content of a file, and none for a directory.
ContentTerms(doc) ==
    {w \in IF doc.dir THEN {} ELSE Words(FileContent(doc.file)) : Len(w) <= MaxWord}

\* Without FLAG_PARTIAL: a word of the query is one of the content.
ContentMatches(q, doc) == Words(q) \cap ContentTerms(doc) # {}

-------------------------------------------------------------------------------
(* The line of a hit. *)

\* string::find: the first position of q in t, -1 if there is none.
Find(t, q) ==
    LET at == {i \in 0..(Len(t) - Len(q)) : SubSeq(t, i + 1, i + Len(q)) = q}
    IN  IF at = {} THEN -1 ELSE CHOOSE i \in at : \A k \in at : i <= k

\* string::rfind of the slash, -1 if there is none.
RFindSlash(t) == LET at == {i \in DOMAIN t : t[i] = Slash}
                 IN  IF at = {} THEN -1 ELSE (CHOOSE i \in at : \A k \in at : k <= i) - 1

\* `n': where the last component begins.
LastName(path) ==
    LET n == RFindSlash(path) + 1
    IN  IF n = Len(path) THEN RFindSlash(Front(path)) + 1 ELSE n

\* Look for the query in the whole path.
Light_Mutant(path, q) == Find(path, q)

\* p.find(querystr, n): npos stays npos.
Light_MutantNpos(path, q) ==
    LET at == Find(SubSeq(path, LastName(path) + 1, Len(path)), q)
    IN  IF at = -1 THEN -1 ELSE at + LastName(path)

\* `light': npos + n wraps round to n - 1.
Light(path, q) == Find(SubSeq(path, LastName(path) + 1, Len(path)), q) + LastName(path)

\* substr(pos, n) throws when pos is beyond the end, and else yields what is there.
Substr(t, pos, n) ==
    SubSeq(t, pos + 1, IF pos + n > Len(t) THEN Len(t) ELSE pos + n)

Throws(path, q) == Light(path, q) < 0 \/ Light(path, q) + Len(q) > Len(path)

Line(doc, q) ==
    LET path == Path(doc)
        light == Light(path, q)
        len == Len(q)
    IN  [doc |-> doc,
         before |-> Substr(path, 0, light),
         marked |-> Substr(path, light, len),
         after |-> Substr(path, light + len, Len(path) - light - len + 1)]

-------------------------------------------------------------------------------
Locations == {"search", "names", "done", "uncaught"}

TypeOK ==
    /\ docs \in Contents
    /\ query \in Queries
    /\ pc \in Locations
    /\ hits \subseteq docs
    /\ {l.doc : l \in shown} \subseteq docs
    /\ found \subseteq docs

Init ==
    /\ docs \in Contents
    /\ query \in Queries
    /\ pc = "search"
    /\ hits = {}
    /\ shown = {}
    /\ found = {}

\* The query is run on a revision that holds other documents, too.
Snapshot_Mutant == UNION Contents
Snapshot == docs

\* Parse and run the query.
RunQuery ==
    /\ pc = "search"
    /\ hits' = {doc \in Snapshot : Matches(query, doc)}
    /\ pc' = "names"
    /\ UNCHANGED <<docs, query, shown, found>>

\* A hit is printed ...
ShowHit ==
    /\ pc = "names"
    /\ \E doc \in hits :
          /\ ~Throws(Path(doc), query)
          /\ shown' = shown \cup {Line(doc, query)}
          /\ hits' = hits \ {doc}
    /\ UNCHANGED <<docs, query, pc, found>>

\* ... or std::out_of_range ends the program, with the hits before it printed.
HitThrows ==
    /\ pc = "names"
    /\ \E doc \in hits : Throws(Path(doc), query)
    /\ pc' = "uncaught"
    /\ UNCHANGED <<docs, query, hits, shown, found>>

\* All names are printed: parse and run the query again, for contents, and print them.
SearchContents ==
    /\ pc = "names"
    /\ hits = {}
    /\ found' = {doc \in Snapshot : ContentMatches(query, doc)}
    /\ pc' = "done"
    /\ UNCHANGED <<docs, query, hits, shown>>

Next == RunQuery \/ ShowHit \/ HitThrows \/ SearchContents

Spec == Init /\ [][Next]_vars

-------------------------------------------------------------------------------
(* Properties. *)

OneWord(q) == q # <<>> /\ \A i \in DOMAIN q : q[i] \in Letters

\* q occurs in t, in upper or lower case, in a word that is not too long to be
\* indexed from there on.
OccursAt(q, t, i) ==
    /\ LowerCase(SubSeq(t, i, i + Len(q) - 1)) = LowerCase(q)
    /\ \E j \in i..Len(t) :
          /\ \A k \in i..j : t[k] \in Letters
          /\ j = Len(t) \/ t[j + 1] \notin Letters
          /\ j - i + 1 <= MaxWord

Occurs(q, t) == \E i \in 1..(Len(t) - Len(q) + 1) : OccursAt(q, t, i)

\* A query of one word finds exactly the files whose name contains it, anywhere in a
\* word and in any case: that is what indexing every suffix of a name and a partial
\* query are for. (A part that starts more than MaxWord before the end of a longer
\* word is not found.)
SubstringsFound ==
    pc = "done" /\ OneWord(query) =>
        {l.doc : l \in shown} = {doc \in docs : Occurs(query, doc.name)}

\* The word w begins at the i-th byte of the file, in any case, and the bytes beside it,
\* if they are in the file and in its first block, are no letters.
WordAt(w, file, i) ==
    LET j == i + Len(w) - 1
        InFile(k) == k \in 1..BlockSize /\ k <= file.size
    IN  /\ InFile(j)
        /\ \A k \in i..j : Lower[file.bytes[k]] = w[k - i + 1]
        /\ \A k \in {i - 1, j + 1} : InFile(k) => file.bytes[k] \notin Letters

\* What is shown for its content is a file that has a word of the query in its first
\* block and before its end, whole and in any case: never because of what else was left
\* in that block by a file that had it before, nor for a part of a word that ends in the
\* block. And nothing is missed among the files whose first block is all text.
WordsOfTheFileFound ==
    pc = "done" =>
        \A doc \in docs :
            LET file == doc.file
                hasWord == \E w \in Words(query) : \E i \in 1..BlockSize :
                              Len(w) <= MaxWord /\ WordAt(w, file, i)
                isText == file.block /\ \A i \in 1..SizeRead(file) : file.bytes[i] \notin {Nul, High}
            IN  /\ doc \in found => ~doc.dir /\ file.block /\ hasWord
                /\ hasWord /\ isText /\ ~doc.dir => doc \in found

\* No query of one word ends the program: what it matches is at least as long as it
\* is, also where find() does not find it because of its case.
OneWordSurvives ==
    OneWord(query) => pc # "uncaught"

\* What is printed is the path, whole and in order, whatever is highlighted in it; and
\* that is the query, in the name and not in a directory above it, if the name contains
\* it as it was typed.
MarksTheQuery ==
    \A l \in shown :
        /\ l.before \o l.marked \o l.after = Path(l.doc)
        /\ Find(l.doc.name, query) >= 0 =>
              l.marked = query /\ Len(l.before) >= Len(l.doc.parent)
===============================================================================
