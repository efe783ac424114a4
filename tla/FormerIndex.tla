------------------------------ MODULE FormerIndex -----------------------------
(***************************************************************************)
(* index() and search() of src/index.cpp and src/search.cpp, the program's *)
(* former indexer and searcher: one process after the other on the database*)
(* `proverbs'.                                                             *)
(*                                                                         *)
(* index reads pairs of a path and a name from directory_file, each up to  *)
(* the next white space; Xapian is external: overwriting empties the       *)
(* database at once, documents become durable FlushEvery at a time and when*)
(* the database object is destroyed, and a document with a term longer than*)
(* MaxTerm is refused by an exception that drops what is pending.  A text  *)
(* is a sequence of words, which are sequences of characters.              *)
(***************************************************************************)
EXTENDS Integers, FiniteSets, SequencesExt

CONSTANTS Chars,         \* characters, white space apart
          Files,         \* directory_file: sequences of pairs of texts
          Queries,       \* the words of a query
          MaxTerm,       \* 245 in Xapian
          FlushEvery,    \* XAPIAN_FLUSH_THRESHOLD
          MaxShown,      \* 10
          MaxRuns        \* bound on the calls of index

VARIABLES file,          \* directory_file
          runs,          \* calls of index so far
          words,         \* what index has not read
          pending,       \* documents it added that are not durable
          stored,        \* the database
          result,        \* what the last search showed, and its query
          pc             \* "idle", or "index" inside index()

vars == <<file, runs, words, pending, stored, result, pc>>

\* A word has at least one character.
Word == Seq(Chars) \ {<<>>}

ASSUME FormerAssumption ==
    /\ MaxTerm \in Nat \ {0} /\ FlushEvery \in Nat \ {0} /\ MaxShown \in Nat
    /\ Files \subseteq Seq([path : Seq(Word), name : Seq(Word)])
    /\ \A q \in Queries : q \subseteq Word

-------------------------------------------------------------------------------
(* Definitions named ..._Mutant are what a plausible mistake would make of the
   definition that follows them. Nothing here uses them. *)

\* What operator>> splits the file into.
WordsOf(f) == FlattenSeq([i \in DOMAIN f |-> f[i].path \o f[i].name])

\* j + i < size: the substrings at the end are missing.
Terms_Mutant(name) ==
    {SubSeq(name, ij[1], ij[2]) : ij \in {x \in (DOMAIN name) \X (DOMAIN name) : x[1] <= x[2] /\ x[2] < Len(name)}}

\* Every substring of the name.
Terms(name) ==
    {SubSeq(name, ij[1], ij[2]) : ij \in {x \in (DOMAIN name) \X (DOMAIN name) : x[1] <= x[2]}}

Document(path, name) == [path |-> path, terms |-> Terms(name)]

None == [query |-> {}, docs |-> {}]

Init ==
    /\ file \in Files
    /\ runs = 0
    /\ words = <<>>
    /\ pending = <<>>
    /\ stored = <<>>
    /\ result = None
    /\ pc = "idle"

\* DB_CREATE_OR_OPEN: the old documents stay.
Overwritten_Mutant == stored
Overwritten == <<>>

\* index begins, on whatever directory_file now is.
OpenDatabase ==
    /\ pc = "idle" /\ runs < MaxRuns
    /\ file' \in Files
    /\ words' = WordsOf(file')
    /\ runs' = runs + 1
    /\ stored' = Overwritten
    /\ result' = None
    /\ pc' = "index"
    /\ UNCHANGED pending

TooLong(name) == Len(name) > MaxTerm

AddDocument ==
    /\ pc = "index" /\ Len(words) >= 2 /\ ~TooLong(words[2])
    /\ LET now == Append(pending, Document(words[1], words[2]))
       IN  IF Len(now) = FlushEvery THEN stored' = stored \o now /\ pending' = <<>>
           ELSE pending' = now /\ UNCHANGED stored
    /\ words' = SubSeq(words, 3, Len(words))
    /\ UNCHANGED <<file, runs, result, pc>>

\* The file ends; the database is destroyed, and what was added is flushed.
EndIndex ==
    /\ pc = "index" /\ Len(words) < 2
    /\ stored' = stored \o pending
    /\ pending' = <<>>
    /\ pc' = "idle"
    /\ UNCHANGED <<file, runs, words, result>>

\* add_document throws: Xapian drops what is pending, and the handler ends the loop.
CatchError ==
    /\ pc = "index" /\ Len(words) >= 2 /\ TooLong(words[2])
    /\ pending' = <<>>
    /\ pc' = "idle"
    /\ UNCHANGED <<file, runs, words, stored, result>>

\* The process ends in the middle.
Crash ==
    /\ pc = "index"
    /\ pending' = <<>>
    /\ pc' = "idle"
    /\ UNCHANGED <<file, runs, words, stored, result>>

Found(q) == {i \in DOMAIN stored : stored[i].terms \cap q # {}}

\* search: the words of the query are or'ed, and ten of the matches are shown.
Search(q) ==
    /\ pc = "idle" /\ runs > 0
    /\ \E docs \in SUBSET Found(q) :
          /\ Cardinality(docs) =
                IF Cardinality(Found(q)) > MaxShown THEN MaxShown ELSE Cardinality(Found(q))
          /\ result' = [query |-> q, docs |-> docs]
    /\ UNCHANGED <<file, runs, words, pending, stored, pc>>

Next == OpenDatabase \/ AddDocument \/ EndIndex \/ CatchError \/ Crash \/ \E q \in Queries : Search(q)

Spec == Init /\ [][Next]_vars

-------------------------------------------------------------------------------
(* Properties. *)

\* The pairs index makes of a file.
Pairs(f) == [i \in 1..(Len(WordsOf(f)) \div 2) |-> <<WordsOf(f)[2 * i - 1], WordsOf(f)[2 * i]>>]

\* Whatever came before, also runs that did not finish, what is stored is the beginning
\* of the present file, in its order, and nothing of an earlier one; and of what was
\* read less than FlushEvery is missing, however the run ended.
StoredIsPrefix ==
    runs > 0 =>
        LET read == (Len(WordsOf(file)) - Len(words)) \div 2
        IN  /\ read - Len(stored) \in 0..(FlushEvery - 1)
            /\ \A i \in DOMAIN stored :
                  stored[i] = Document(Pairs(file)[i][1], Pairs(file)[i][2])

\* If no path and no name holds white space, a document is shown only if its own name
\* contains a word of the query; and all such documents that are stored are shown, if
\* they are no more than MaxShown.
OneWordEach(f) == \A i \in DOMAIN f : Len(f[i].path) = 1 /\ Len(f[i].name) = 1

IsPartOf(name, q) == \E i \in 1..(Len(name) - Len(q) + 1) : SubSeq(name, i, i + Len(q) - 1) = q

ShowsNamesThatContain ==
    result # None /\ OneWordEach(file) =>
        LET hits == {i \in DOMAIN stored : \E q \in result.query : IsPartOf(file[i].name[1], q)}
        IN  /\ result.docs \subseteq hits
            /\ Cardinality(hits) <= MaxShown => result.docs = hits
===============================================================================
