-------------------------- MODULE DesktopSearchProofs -------------------------
(***************************************************************************)
(* Proofs about DesktopSearch, for every set of runs, devices, paths and   *)
(* queries and whatever the walks add; and, in the last part, that         *)
(* WholeProgram implements it. What is proved before that part uses none   *)
(* of what WholeProgram assumes.                                           *)
(***************************************************************************)
EXTENDS WholeProgram, TLAPS

(***************************************************************************)
(* Lemmas on the data: revisions and their documents.                      *)
(***************************************************************************)

\* The empty revision is a revision without paths.
LEMMA EmptyRevisionFacts ==
    /\ EmptyRevision \in Revision
    /\ EmptyRevision.version = NoVersion
    /\ EmptyRevision.docs = <<>>
BY DEF EmptyRevision, Revision, NoVersion

\* A stamp of a run is never the absent version.
LEMMA StampFacts ==
    ASSUME NEW r \in Runs, NEW place \in {"open", "close"}
    PROVE  /\ [by |-> r, at |-> place] \in Stamp
           /\ [by |-> r, at |-> place] # NoVersion
BY DBAssumption DEF Stamp, NoVersion

\* Append adds one document at the end and keeps the others in place.
LEMMA AppendFacts ==
    ASSUME NEW s \in Seq(Document), NEW d \in Document
    PROVE  /\ Append(s, d) \in Seq(Document)
           /\ Append(s, d) # <<>>
           /\ DOMAIN Append(s, d) = DOMAIN s \cup {Len(s) + 1}
           /\ \A i \in DOMAIN s : Append(s, d)[i] = s[i]
           /\ Append(s, d)[Len(s) + 1] = d
           /\ Len(s) + 1 \notin DOMAIN s
OBVIOUS

\* The paths of a sequence of documents, in order.
PathsOf(seq) == [i \in DOMAIN seq |-> seq[i].path]

\* Appending a document appends its path.
LEMMA AppendPaths ==
    ASSUME NEW s \in Seq(Document), NEW d \in Document
    PROVE  PathsOf(Append(s, d)) = Append(PathsOf(s), d.path)
<1>1. /\ DOMAIN s = 1..Len(s) /\ Len(s) \in Nat
      /\ PathsOf(s) \in Seq(Paths) /\ Len(PathsOf(s)) = Len(s)
      /\ d.path \in Paths
  <2>1. DOMAIN s = 1..Len(s) /\ Len(s) \in Nat /\ \A i \in 1..Len(s) : s[i].path \in Paths
    <3>1. DOMAIN s = 1..Len(s) /\ Len(s) \in Nat /\ \A i \in 1..Len(s) : s[i] \in Document
      OBVIOUS
    <3>. QED
      BY <3>1 DEF Document
  <2>2. PathsOf(s) = [i \in 1..Len(s) |-> s[i].path]
    BY <2>1 DEF PathsOf
  <2>3. PathsOf(s) \in Seq(Paths) /\ Len(PathsOf(s)) = Len(s)
    BY <2>1, <2>2
  <2>. QED
    BY <2>1, <2>3 DEF Document
<1>2. /\ DOMAIN Append(s, d) = 1..(Len(s) + 1)
      /\ \A i \in 1..Len(s) : Append(s, d)[i] = s[i]
      /\ Append(s, d)[Len(s) + 1] = d
  BY <1>1
<1>3. /\ Append(PathsOf(s), d.path) = [i \in 1..(Len(s) + 1) |-> Append(PathsOf(s), d.path)[i]]
      /\ \A i \in 1..Len(s) : Append(PathsOf(s), d.path)[i] = PathsOf(s)[i]
      /\ Append(PathsOf(s), d.path)[Len(s) + 1] = d.path
  BY <1>1
<1>4. \A i \in 1..(Len(s) + 1) : Append(s, d)[i].path = Append(PathsOf(s), d.path)[i]
  BY <1>1, <1>2, <1>3 DEF PathsOf
<1>. QED
  BY <1>2, <1>3, <1>4 DEF PathsOf

\* Documents have paths, and no documents have none.
LEMMA PathsOfNone ==
    /\ PathsOf(<<>>) = <<>>
    /\ \A s \in Seq(Document) : s # <<>> => PathsOf(s) # <<>>
<1>1. PathsOf(<<>>) = <<>>
  BY DEF PathsOf
<1>2. ASSUME NEW s \in Seq(Document), s # <<>> PROVE PathsOf(s) # <<>>
  <2>1. 1 \in DOMAIN s
    BY <1>2
  <2>. QED
    BY <2>1 DEF PathsOf
<1>. QED
  BY <1>1, <1>2

\* What add() makes of a revision.
LEMMA AddedRevision ==
    ASSUME NEW rev \in Revision, NEW d \in Document
    PROVE  /\ [rev EXCEPT !.docs = Append(@, d)] \in Revision
           /\ [rev EXCEPT !.docs = Append(@, d)] =
                 [version |-> rev.version, docs |-> Append(rev.docs, d)]
<1>1. rev = [version |-> rev.version, docs |-> rev.docs]
  BY DEF Revision
<1>2. rev.version \in Stamp \cup {NoVersion} /\ rev.docs \in Seq(Document)
  BY DEF Revision
<1>3. [rev EXCEPT !.docs = Append(@, d)] =
        [version |-> rev.version, docs |-> Append(rev.docs, d)]
  BY SMTT(60) DEF Revision
<1>4. Append(rev.docs, d) \in Seq(Document)
  BY <1>2
<1>5. [version |-> rev.version, docs |-> Append(rev.docs, d)] \in Revision
  BY <1>2, <1>4 DEF Revision
<1>. QED
  BY <1>3, <1>5

(***************************************************************************)
(* Typing. A walk has a device (WalkInv): without it, the document that    *)
(* IndexFile adds would have no type.                                      *)
(***************************************************************************)
LEMMA TypeStep == IInv /\ [Next]_vars => TypeOK'
<1> SUFFICES ASSUME IInv, [Next]_vars PROVE TypeOK'
  OBVIOUS
<1> USE DEF TypeOK, DBTypeOK, Locations
<1>0. TypeOK
  BY DEF IInv
<1>1. ASSUME NEW r \in Runs, ParseOptions(r) PROVE TypeOK'
  BY <1>0, <1>1 DEF ParseOptions, Goto, dbVars
<1>2. ASSUME NEW r \in Runs, ConstructDB(r) PROVE TypeOK'
  <2>1. CASE Construct(r) /\ Goto(r, "check")
    <3>1. DBTypeOK'
      BY <1>0, <2>1 DEF Construct, Unlocked, NoEnquire
    <3>2. pc' \in [Runs -> Locations] /\ UNCHANGED <<device, walked, answer>>
      BY <1>0, <1>2, <2>1 DEF ConstructDB, Goto
    <3>. QED
      BY <1>0, <3>1, <3>2
  <2>2. CASE ConstructThrows(r) /\ Goto(r, "stopped")
    BY <1>0, <1>2, <2>2 DEF ConstructDB, ConstructThrows, Goto, dbVars
  <2>. QED
    BY <1>2, <2>1, <2>2 DEF ConstructDB
<1>3. ASSUME NEW r \in Runs, CheckCreated(r) PROVE TypeOK'
  BY <1>0, <1>3 DEF CheckCreated, HasIndex, Goto, dbVars
<1>4. ASSUME NEW r \in Runs, OpenDB(r) PROVE TypeOK'
  BY <1>0, <1>4, StampFacts DEF OpenDB, Open, StampVersion, Goto, Revision
<1>5. ASSUME NEW r \in Runs, IndexFile(r) PROVE TypeOK'
  <2>1. device[r] \in Devices
    BY <1>0, <1>5 DEF IInv, WalkInv, IndexFile
  <2>2. PICK p \in Paths :
           /\ Add(r, [dev |-> device[r], path |-> p])
           /\ walked' = [walked EXCEPT ![r] = Append(@, p)]
    BY <1>5 DEF IndexFile
  <2>3. [dev |-> device[r], path |-> p] \in Document
    BY <2>1 DEF Document
  <2>4. [wdb[r] EXCEPT !.docs = Append(@, [dev |-> device[r], path |-> p])] \in Revision
    BY <1>0, <2>3, AddedRevision
  <2>5. /\ store' = [wdb[r] EXCEPT !.docs = Append(@, [dev |-> device[r], path |-> p])]
        /\ wdb' = [wdb EXCEPT ![r] = store']
        /\ UNCHANGED <<lock, db, enquire, heap, pc, device, answer>>
    BY <1>5, <2>2 DEF IndexFile, Add, Commit
  <2>6. store' \in Revision /\ wdb' \in [Runs -> Revision]
    BY <1>0, <2>4, <2>5
  <2>7. walked' \in [Runs -> Seq(Paths)]
    <3>1. Append(walked[r], p) \in Seq(Paths)
      BY <1>0
    <3>. QED
      BY <1>0, <2>2, <3>1
  <2>. QED
    BY <1>0, <2>5, <2>6, <2>7
<1>6. ASSUME NEW r \in Runs, ReturnFromReadInode(r) PROVE TypeOK'
  BY <1>0, <1>6 DEF ReturnFromReadInode, Destroy, Goto
<1>7. ASSUME NEW r \in Runs, CloseDB(r) PROVE TypeOK'
  BY <1>0, <1>7, StampFacts DEF CloseDB, Close, StampVersion, Goto, Revision
<1>8. ASSUME NEW r \in Runs, Query(r) PROVE TypeOK'
  BY <1>0, <1>8 DEF Query, Search, Reopen, Answer, Result, Revision
<1>9. ASSUME NEW r \in Runs, Exit(r) PROVE TypeOK'
  BY <1>0, <1>9, EmptyRevisionFacts DEF Exit, ProcessEnds, Goto
<1>10. ASSUME NEW r \in Runs, Crash(r) PROVE TypeOK'
  BY <1>0, <1>10, EmptyRevisionFacts DEF Crash, ProcessEnds, Goto
<1>11. CASE UNCHANGED vars
  BY <1>0, <1>11 DEF vars, dbVars, mainVars
<1>12. QED
  BY <1>1, <1>2, <1>3, <1>4, <1>5, <1>6, <1>7, <1>8, <1>9, <1>10, <1>11
     DEF Next, Step, ProgramStep

(***************************************************************************)
(* The lock: a run is alive past its constructor exactly while it holds it.*)
(***************************************************************************)
LEMMA LockStep == IInv /\ [Next]_vars => LockInv'
<1> SUFFICES ASSUME IInv, [Next]_vars PROVE LockInv'
  OBVIOUS
<1> USE DBAssumption DEF LockInv, Alive, TypeOK, DBTypeOK, Locations
<1>0. TypeOK /\ LockInv
  BY DEF IInv
<1>1. ASSUME NEW r \in Runs, ParseOptions(r) PROVE LockInv'
  BY <1>0, <1>1 DEF ParseOptions, Goto, dbVars
<1>2. ASSUME NEW r \in Runs, ConstructDB(r) PROVE LockInv'
  BY <1>0, <1>2 DEF ConstructDB, Construct, Unlocked, NoEnquire, ConstructThrows, Goto, dbVars
<1>3. ASSUME NEW r \in Runs, CheckCreated(r) PROVE LockInv'
  BY <1>0, <1>3 DEF CheckCreated, HasIndex, Goto, dbVars
<1>4. ASSUME NEW r \in Runs, OpenDB(r) PROVE LockInv'
  BY <1>0, <1>4 DEF OpenDB, Open, StampVersion, Goto
<1>5. ASSUME NEW r \in Runs, IndexFile(r) PROVE LockInv'
  BY <1>0, <1>5 DEF IndexFile, Add, Commit
<1>6. ASSUME NEW r \in Runs, ReturnFromReadInode(r) PROVE LockInv'
  BY <1>0, <1>6 DEF ReturnFromReadInode, Destroy, Goto
<1>7. ASSUME NEW r \in Runs, CloseDB(r) PROVE LockInv'
  BY <1>0, <1>7 DEF CloseDB, Close, StampVersion, Goto
<1>8. ASSUME NEW r \in Runs, Query(r) PROVE LockInv'
  BY <1>0, <1>8 DEF Query, Search, Reopen
<1>9. ASSUME NEW r \in Runs, Exit(r) PROVE LockInv'
  BY <1>0, <1>9 DEF Exit, ProcessEnds, Goto
<1>10. ASSUME NEW r \in Runs, Crash(r) PROVE LockInv'
  BY <1>0, <1>10 DEF Crash, ProcessEnds, Goto
<1>11. CASE UNCHANGED vars
  BY <1>0, <1>11 DEF vars, dbVars, mainVars
<1>12. QED
  BY <1>1, <1>2, <1>3, <1>4, <1>5, <1>6, <1>7, <1>8, <1>9, <1>10, <1>11
     DEF Next, Step, ProgramStep

(***************************************************************************)
(* The Enquire object.                                                     *)
(***************************************************************************)
LEMMA EnquireStep == IInv /\ [Next]_vars => EnquireSound' /\ EnquireInv'
<1> SUFFICES ASSUME IInv, [Next]_vars PROVE EnquireSound' /\ EnquireInv'
  OBVIOUS
<1> USE DBAssumption DEF EnquireSound, EnquireInv, TypeOK, DBTypeOK, Locations, EnquireIds
<1>0. TypeOK /\ EnquireSound /\ EnquireInv
  BY DEF IInv
<1>1. ASSUME NEW r \in Runs, ParseOptions(r) PROVE EnquireSound' /\ EnquireInv'
  BY <1>0, <1>1 DEF ParseOptions, Goto, dbVars
<1>2. ASSUME NEW r \in Runs, ConstructDB(r) PROVE EnquireSound' /\ EnquireInv'
  BY <1>0, <1>2 DEF ConstructDB, Construct, Unlocked, NoEnquire, ConstructThrows, Goto, dbVars
<1>3. ASSUME NEW r \in Runs, CheckCreated(r) PROVE EnquireSound' /\ EnquireInv'
  BY <1>0, <1>3 DEF CheckCreated, HasIndex, Goto, dbVars
<1>4. ASSUME NEW r \in Runs, OpenDB(r) PROVE EnquireSound' /\ EnquireInv'
  BY <1>0, <1>4 DEF OpenDB, Open, StampVersion, Goto
<1>5. ASSUME NEW r \in Runs, IndexFile(r) PROVE EnquireSound' /\ EnquireInv'
  BY <1>0, <1>5 DEF IndexFile, Add, Commit
<1>6. ASSUME NEW r \in Runs, ReturnFromReadInode(r) PROVE EnquireSound' /\ EnquireInv'
  BY <1>0, <1>6 DEF ReturnFromReadInode, Destroy, Goto
<1>7. ASSUME NEW r \in Runs, CloseDB(r) PROVE EnquireSound' /\ EnquireInv'
  BY <1>0, <1>7 DEF CloseDB, Close, StampVersion, Goto
<1>8. ASSUME NEW r \in Runs, Query(r) PROVE EnquireSound' /\ EnquireInv'
  BY <1>0, <1>8 DEF Query, Search, Reopen
<1>9. ASSUME NEW r \in Runs, Exit(r) PROVE EnquireSound' /\ EnquireInv'
  BY <1>0, <1>9 DEF Exit, ProcessEnds, Goto
<1>10. ASSUME NEW r \in Runs, Crash(r) PROVE EnquireSound' /\ EnquireInv'
  BY <1>0, <1>10 DEF Crash, ProcessEnds, Goto
<1>11. CASE UNCHANGED vars
  BY <1>0, <1>11 DEF vars, dbVars, mainVars
<1>12. QED
  BY <1>1, <1>2, <1>3, <1>4, <1>5, <1>6, <1>7, <1>8, <1>9, <1>10, <1>11
     DEF Next, Step, ProgramStep

\* Answers are given at the prompt only.
LEMMA AnswerStep == IInv /\ [Next]_vars => AnswerInv'
<1> SUFFICES ASSUME IInv, [Next]_vars PROVE AnswerInv'
  OBVIOUS
<1>0. TypeOK /\ AnswerInv
  BY DEF IInv
<1>1. ASSUME NEW r \in Runs, Step(r) PROVE AnswerInv'
  BY <1>0, <1>1
     DEF AnswerInv, TypeOK, DBTypeOK, Locations, Step, ProgramStep, ParseOptions, ConstructDB,
         CheckCreated, HasIndex, OpenDB, IndexFile, ReturnFromReadInode, CloseDB, Query, Exit, Crash, Goto
<1>2. CASE UNCHANGED vars
  BY <1>0, <1>2 DEF AnswerInv, vars, mainVars
<1>. QED
  BY <1>1, <1>2 DEF Next

(***************************************************************************)
(* The store. Only IndexFile changes it, and then its run holds the lock.  *)
(***************************************************************************)
StoreInv == FreshInv /\ HandleInv /\ WalkInv /\ CreatedIffNonEmpty /\ OneSource

\* One more document: the heart of the matter.
LEMMA IndexFileStep ==
    ASSUME IInv, NEW r \in Runs, IndexFile(r)
    PROVE  StoreInv'
<1> USE DEF TypeOK, DBTypeOK
<1>0. TypeOK /\ LockInv /\ StoreInv
  BY DEF IInv, StoreInv
<1>1. PICK p \in Paths :
         /\ Add(r, [dev |-> device[r], path |-> p])
         /\ walked' = [walked EXCEPT ![r] = Append(@, p)]
  BY DEF IndexFile
<1> DEFINE doc == [dev |-> device[r], path |-> p]
<1>2. /\ pc[r] = "walk"
      /\ device[r] \in Devices
      /\ wdb[r] = [version |-> [by |-> r, at |-> "open"], docs |-> store.docs]
      /\ walked[r] = StoredPaths
      /\ store = EmptyRevision \/ store.version = [by |-> r, at |-> "open"]
  BY <1>0 DEF IndexFile, StoreInv, WalkInv
<1>3. doc \in Document /\ store.docs \in Seq(Document)
  BY <1>0, <1>2 DEF Document, Revision
<1>4. /\ store' = [version |-> [by |-> r, at |-> "open"], docs |-> Append(store.docs, doc)]
      /\ wdb' = [wdb EXCEPT ![r] = store']
  <2>1. wdb[r] \in Revision /\ wdb[r].version = [by |-> r, at |-> "open"] /\ wdb[r].docs = store.docs
    BY <1>0, <1>2
  <2>. QED
    BY <1>0, <1>1, <1>3, <2>1, AddedRevision DEF Add, Commit
<1>5. StoredPaths' = Append(StoredPaths, p)
  <2>1. PathsOf(Append(store.docs, doc)) = Append(PathsOf(store.docs), p)
    BY <1>3, AppendPaths
  <2>2. store'.docs = Append(store.docs, doc)
    BY <1>4
  <2>. QED
    BY <2>1, <2>2 DEF StoredPaths, PathsOf
<1>6. /\ store'.version # NoVersion
      /\ store'.docs # <<>>
      /\ store'.version = [by |-> r, at |-> "open"]
      /\ Owner' = r
  BY <1>3, <1>4, StampFacts, AppendFacts DEF Owner
<1>7. UNCHANGED <<pc, device, db, lock>>
  BY <1>1 DEF IndexFile, Add, Commit
<1>8. \A q \in Runs \ {r} : pc[q] \notin Alive
  BY <1>0, <1>2 DEF LockInv, Alive
<1>9. \A i \in DOMAIN store.docs : store.docs[i].dev = device[r]
  <2>1. CASE store = EmptyRevision
    <3>1. DOMAIN store.docs = {}
      BY <2>1, EmptyRevisionFacts
    <3>. QED
      BY <3>1
  <2>2. CASE store.version = [by |-> r, at |-> "open"]
    <3>1. store.version # NoVersion /\ store.version.by = r
      BY <2>2, DBAssumption DEF NoVersion
    <3>. QED
      BY <1>0, <3>1 DEF StoreInv, OneSource, Owner
  <2>. QED
    BY <1>2, <2>1, <2>2
<1>10. FreshInv'
  BY <1>0, <1>1, <1>2, <1>7 DEF StoreInv, FreshInv
<1>11. HandleInv'
  BY <1>2, <1>7, <1>8 DEF HandleInv, Alive
<1>12. WalkInv'
  BY <1>0, <1>1, <1>2, <1>4, <1>5, <1>6, <1>7, <1>8, MainAssumption DEF WalkInv, Alive
<1>13. CreatedIffNonEmpty'
  BY <1>6 DEF CreatedIffNonEmpty
<1>14. OneSource'
  <2>1. \A i \in DOMAIN store'.docs : store'.docs[i].dev = device[r]
    BY <1>3, <1>4, <1>9, AppendFacts
  <2>2. StoredPaths' = walked'[r]
    BY <1>0, <1>1, <1>2, <1>5
  <2>. QED
    BY <1>2, <1>6, <1>7, <2>1, <2>2, MainAssumption DEF OneSource
<1>. QED
  BY <1>10, <1>11, <1>12, <1>13, <1>14 DEF StoreInv

\* What every other step leaves alone: the store, and the paths of the run whose
\* documents it holds.
LEMMA StoreStep == IInv /\ [Next]_vars => StoreInv'
<1> SUFFICES ASSUME IInv, [Next]_vars PROVE StoreInv'
  OBVIOUS
<1> USE DBAssumption DEF TypeOK, DBTypeOK, Locations
<1> DEFINE Parts == /\ FreshInv' /\ HandleInv' /\ WalkInv'
                    /\ CreatedIffNonEmpty' /\ OneSource'
<1>0. TypeOK /\ LockInv /\ StoreInv
  BY DEF IInv, StoreInv
<1>a. FreshInv /\ HandleInv /\ WalkInv /\ CreatedIffNonEmpty /\ OneSource
  BY <1>0 DEF StoreInv
\* Two conjuncts speak of the store and of the run that owns it only.
<1>b. ASSUME store' = store, walked' = walked,
             store.version # NoVersion => device'[Owner] = device[Owner]
      PROVE  CreatedIffNonEmpty' /\ OneSource'
  <2>1. CreatedIffNonEmpty'
    BY <1>a, <1>b DEF CreatedIffNonEmpty
  <2>2. Owner' = Owner /\ StoredPaths' = StoredPaths
    BY <1>b DEF Owner, StoredPaths
  <2>3. OneSource'
    BY <1>a, <1>b, <2>2 DEF OneSource
  <2>. QED
    BY <2>1, <2>3
<1>1. ASSUME NEW r \in Runs, ParseOptions(r) PROVE Parts
  <2>0. UNCHANGED <<dbVars, walked>> /\ pc[r] = "idle"
    BY <1>1 DEF ParseOptions
  <2>1. store.version # NoVersion => Owner \in Runs /\ Owner # r
    <3> SUFFICES ASSUME store.version # NoVersion PROVE Owner \in Runs /\ Owner # r
      OBVIOUS
    <3>1. Owner \in Runs
      BY <1>0 DEF Owner, Revision, Stamp
    <3>2. store.docs # <<>> /\ store.docs \in Seq(Document)
      BY <1>0, <1>a DEF CreatedIffNonEmpty, Revision
    <3>3. StoredPaths # <<>>
      BY <3>2, PathsOfNone DEF StoredPaths, PathsOf
    <3>4. walked[Owner] # <<>>
      BY <1>a, <3>3 DEF OneSource
    <3>5. walked[r] = <<>>
      BY <1>a, <2>0 DEF FreshInv
    <3>. QED
      BY <3>1, <3>4, <3>5
  <2>2. \A q \in Runs \ {r} : device'[q] = device[q] /\ pc'[q] = pc[q]
    BY <1>0, <1>1 DEF ParseOptions, Goto
  <2>3. CreatedIffNonEmpty' /\ OneSource'
    BY <1>b, <2>0, <2>1, <2>2 DEF dbVars
  <2>4. pc'[r] = "construct"
    BY <1>0, <1>1 DEF ParseOptions, Goto
  <2>5. FreshInv' /\ HandleInv'
    BY <1>a, <2>0, <2>2, <2>4 DEF FreshInv, HandleInv, dbVars
  <2>6. WalkInv'
    BY <1>a, <2>0, <2>2, <2>4 DEF WalkInv, StoredPaths, dbVars
  <2>. QED
    BY <2>3, <2>5, <2>6
<1>2. ASSUME NEW r \in Runs, ConstructDB(r) PROVE Parts
  <2>1. UNCHANGED <<store, device, walked>>
    BY <1>2 DEF ConstructDB, Construct, Unlocked, NoEnquire, ConstructThrows, dbVars
  <2>2. CreatedIffNonEmpty' /\ OneSource'
    BY <1>b, <2>1
  <2>3. FreshInv' /\ HandleInv' /\ WalkInv'
    BY <1>0, <1>a, <1>2, <2>1
       DEF ConstructDB, Construct, Unlocked, NoEnquire, ConstructThrows, Goto, dbVars,
           FreshInv, HandleInv, WalkInv, StoredPaths
  <2>. QED
    BY <2>2, <2>3
<1>3. ASSUME NEW r \in Runs, CheckCreated(r) PROVE Parts
  <2>1. UNCHANGED <<dbVars, device, walked>> /\ pc[r] = "check"
    BY <1>3 DEF CheckCreated, HasIndex
  <2>2. CreatedIffNonEmpty' /\ OneSource'
    BY <1>b, <2>1 DEF dbVars
  <2>3. pc' = [pc EXCEPT ![r] = IF IsCreated(r) THEN "prompt" ELSE "open"]
    BY <1>3 DEF CheckCreated, HasIndex, Goto
  <2>4. pc'[r] = "open" => store = EmptyRevision
    <3> SUFFICES ASSUME pc'[r] = "open" PROVE store = EmptyRevision
      OBVIOUS
    <3>1. db[r] = store
      BY <1>a, <2>1 DEF HandleInv
    <3>2. store.version = NoVersion
      BY <1>0, <2>3, <3>1 DEF IsCreated
    <3>3. store.docs = <<>>
      BY <1>a, <3>2 DEF CreatedIffNonEmpty
    <3>. QED
      BY <1>0, <3>2, <3>3 DEF EmptyRevision, Revision
  <2>5. FreshInv' /\ HandleInv' /\ WalkInv'
    BY <1>0, <1>a, <2>1, <2>3, <2>4 DEF FreshInv, HandleInv, WalkInv, StoredPaths, dbVars
  <2>. QED
    BY <2>2, <2>5
<1>4. ASSUME NEW r \in Runs, OpenDB(r) PROVE Parts
  <2>1. /\ UNCHANGED <<store, device, walked, db>>
        /\ pc[r] = "open"
        /\ pc' = [pc EXCEPT ![r] = IF device[r] # NoDevice THEN "walk" ELSE "close"]
        /\ wdb' = [wdb EXCEPT ![r] = [@ EXCEPT !.version = [by |-> r, at |-> "open"]]]
    BY <1>4 DEF OpenDB, Open, StampVersion, Goto
  <2>2. CreatedIffNonEmpty' /\ OneSource'
    BY <1>b, <2>1
  <2>3. wdb[r] = EmptyRevision /\ store = EmptyRevision
    BY <1>a, <2>1 DEF HandleInv
  <2>4. wdb'[r] = [version |-> [by |-> r, at |-> "open"], docs |-> store.docs]
    BY <1>0, <2>1, <2>3 DEF EmptyRevision
  <2>5. StoredPaths = <<>> /\ walked[r] = <<>>
    <3>1. StoredPaths = PathsOf(<<>>)
      BY <2>3, EmptyRevisionFacts DEF StoredPaths, PathsOf
    <3>. QED
      BY <1>a, <2>1, <3>1, PathsOfNone DEF FreshInv
  <2>6. WalkInv'
    <3>1. WalkInv /\ UNCHANGED StoredPaths
      BY <1>a, <2>1 DEF StoredPaths
    <3>. QED
      BY <1>0, <2>1, <2>3, <2>4, <2>5, <3>1 DEF WalkInv
  <2>7. FreshInv' /\ HandleInv'
    BY <1>0, <1>a, <2>1 DEF FreshInv, HandleInv
  <2>. QED
    BY <2>2, <2>6, <2>7
<1>5. ASSUME NEW r \in Runs, IndexFile(r) PROVE Parts
  BY <1>5, IndexFileStep DEF StoreInv
<1>6. ASSUME NEW r \in Runs, ReturnFromReadInode(r) PROVE Parts
  <2>1. UNCHANGED <<store, device, walked, db, wdb>> /\ pc' = [pc EXCEPT ![r] = "close"]
    BY <1>6 DEF ReturnFromReadInode, Destroy, Goto
  <2>2. CreatedIffNonEmpty' /\ OneSource'
    BY <1>b, <2>1
  <2>. QED
    BY <1>0, <1>a, <2>1, <2>2 DEF FreshInv, HandleInv, WalkInv, StoredPaths
<1>7. ASSUME NEW r \in Runs, CloseDB(r) PROVE Parts
  <2>1. /\ UNCHANGED <<store, device, walked, db>>
        /\ pc' = [pc EXCEPT ![r] = "prompt"]
        /\ \A q \in Runs \ {r} : wdb'[q] = wdb[q]
    BY <1>0, <1>7 DEF CloseDB, Close, StampVersion, Goto
  <2>2. CreatedIffNonEmpty' /\ OneSource'
    BY <1>b, <2>1
  <2>. QED
    BY <1>0, <1>a, <2>1, <2>2 DEF FreshInv, HandleInv, WalkInv, StoredPaths
<1>8. ASSUME NEW r \in Runs, Query(r) PROVE Parts
  <2>1. /\ UNCHANGED <<store, device, walked, wdb, pc>>
        /\ pc[r] = "prompt"
        /\ \A q \in Runs \ {r} : db'[q] = db[q]
    BY <1>0, <1>8 DEF Query, Search, Reopen
  <2>2. CreatedIffNonEmpty' /\ OneSource'
    BY <1>b, <2>1
  <2>. QED
    BY <1>0, <1>a, <2>1, <2>2 DEF FreshInv, HandleInv, WalkInv, StoredPaths
<1>9. ASSUME NEW r \in Runs, Exit(r) \/ Crash(r) PROVE Parts
  <2>1. /\ UNCHANGED <<store, device, walked>>
        /\ pc' = [pc EXCEPT ![r] = "stopped"]
        /\ \A q \in Runs \ {r} : wdb'[q] = wdb[q] /\ db'[q] = db[q]
    BY <1>0, <1>9 DEF Exit, Crash, ProcessEnds, Goto
  <2>2. CreatedIffNonEmpty' /\ OneSource'
    BY <1>b, <2>1
  <2>. QED
    BY <1>0, <1>a, <2>1, <2>2 DEF FreshInv, HandleInv, WalkInv, StoredPaths
<1>10. CASE UNCHANGED vars
  <2>1. UNCHANGED <<store, device, walked, db, wdb, pc>>
    BY <1>10 DEF vars, dbVars, mainVars
  <2>2. CreatedIffNonEmpty' /\ OneSource'
    BY <1>b, <2>1
  <2>. QED
    BY <1>a, <2>1, <2>2 DEF StoreInv, FreshInv, HandleInv, WalkInv, StoredPaths
<1>11. QED
  BY <1>1, <1>2, <1>3, <1>4, <1>5, <1>6, <1>7, <1>8, <1>9, <1>10
     DEF Next, Step, ProgramStep, StoreInv

(***************************************************************************)
(* The invariants.                                                         *)
(***************************************************************************)

\* Before any run has started the database is empty and every part holds.
LEMMA InitStep == Init => IInv
<1> SUFFICES ASSUME Init PROVE IInv
  OBVIOUS
<1> USE DBAssumption, EmptyRevisionFacts DEF Init, DBInit
<1>1. TypeOK
  BY DEF TypeOK, DBTypeOK, Locations
<1>2. LockInv
  BY DEF LockInv, Alive
<1>3. FreshInv /\ HandleInv /\ WalkInv
  BY DEF FreshInv, HandleInv, WalkInv
<1>4. CreatedIffNonEmpty /\ OneSource
  BY DEF CreatedIffNonEmpty, OneSource
<1>5. EnquireSound /\ EnquireInv
  BY DEF EnquireSound, EnquireInv
<1>6. AnswerInv
  BY DEF AnswerInv
<1>. QED
  BY <1>1, <1>2, <1>3, <1>4, <1>5, <1>6 DEF IInv

\* Every step preserves all parts together.
LEMMA InductiveStep == IInv /\ [Next]_vars => IInv'
BY TypeStep, LockStep, EnquireStep, AnswerStep, StoreStep DEF IInv, StoreInv

\* The inductive invariant holds for any number of runs and devices: whoever is
\* past DB::DB holds the lock, and so the store is what it last read or wrote.
THEOREM Inductive == Spec => []IInv
  BY InitStep, InductiveStep, PTL DEF Spec

\* Every variable keeps its type.
THEOREM TypeCorrect == Spec => []TypeOK
<1>1. IInv => TypeOK
  BY DEF IInv
<1>. QED
  BY <1>1, Inductive, PTL

\* The durable version is there exactly when a document is: the test main() makes
\* before it indexes means what main() takes it to mean.
THEOREM VersionMeansDocuments == Spec => []CreatedIffNonEmpty
<1>1. IInv => CreatedIffNonEmpty
  BY DEF IInv
<1>. QED
  BY <1>1, Inductive, PTL

\* The documents are the work of one run, from one device, however runs overlap.
THEOREM SingleSource == Spec => []OneSource
<1>1. IInv => OneSource
  BY DEF IInv
<1>. QED
  BY <1>1, Inductive, PTL

\* The Enquire pointer shared by the copies of a DB is never dangling or leaked.
THEOREM EnquireSafe == Spec => []EnquireSound
<1>1. IInv => EnquireSound
  BY DEF IInv
<1>. QED
  BY <1>1, Inductive, PTL

\* What a step does to the store: nothing, unless its run is in its walk and
\* appends one document to a store that was empty or its own.
LEMMA StoreChange ==
    ASSUME IInv, [Next]_vars
    PROVE  \/ store' = store
           \/ \E r \in Runs :
                 /\ IndexFile(r)
                 /\ \E p \in Paths :
                       /\ [dev |-> device[r], path |-> p] \in Document
                       /\ store' = [version |-> [by |-> r, at |-> "open"],
                                    docs |-> Append(store.docs, [dev |-> device[r], path |-> p])]
<1>1. ASSUME NEW r \in Runs, Step(r), ~IndexFile(r) PROVE store' = store
  BY <1>1 DEF Step, ProgramStep, ParseOptions, ConstructDB, Construct, Unlocked, NoEnquire, ConstructThrows,
              CheckCreated, HasIndex, OpenDB, Open, ReturnFromReadInode, Destroy, CloseDB, Close,
              StampVersion, Query, Search, Reopen, Exit, Crash, ProcessEnds, dbVars
<1>2. CASE UNCHANGED vars
  BY <1>2 DEF vars, dbVars
<1>3. ASSUME NEW r \in Runs, IndexFile(r)
      PROVE  \E p \in Paths :
                /\ [dev |-> device[r], path |-> p] \in Document
                /\ store' = [version |-> [by |-> r, at |-> "open"],
                             docs |-> Append(store.docs, [dev |-> device[r], path |-> p])]
  <2>1. PICK p \in Paths : Add(r, [dev |-> device[r], path |-> p])
    BY <1>3 DEF IndexFile
  <2>2. /\ device[r] \in Devices
        /\ wdb[r] \in Revision
        /\ wdb[r] = [version |-> [by |-> r, at |-> "open"], docs |-> store.docs]
    BY <1>3 DEF IInv, TypeOK, DBTypeOK, WalkInv, IndexFile
  <2>3. [dev |-> device[r], path |-> p] \in Document
    BY <2>2 DEF Document
  <2>4. store' = [version |-> wdb[r].version,
                  docs |-> Append(wdb[r].docs, [dev |-> device[r], path |-> p])]
    BY <2>1, <2>2, <2>3, AddedRevision DEF Add, Commit
  <2>5. wdb[r].version = [by |-> r, at |-> "open"] /\ wdb[r].docs = store.docs
    BY <2>2
  <2>6. store' = [version |-> [by |-> r, at |-> "open"],
                  docs |-> Append(store.docs, [dev |-> device[r], path |-> p])]
    BY <2>4, <2>5
  <2>. QED
    BY <2>1, <2>3, <2>6
<1>. QED
  BY <1>1, <1>2, <1>3 DEF Next

\* What the invariant says of a run that is walking.
LEMMA WalkFacts ==
    ASSUME IInv, NEW r \in Runs, pc[r] = "walk"
    PROVE  /\ device[r] \in Devices
           /\ walked[r] = StoredPaths
           /\ store = EmptyRevision \/ store.version = [by |-> r, at |-> "open"]
<1>1. /\ device[r] \in Devices
      /\ wdb[r] = [version |-> [by |-> r, at |-> "open"], docs |-> store.docs]
      /\ walked[r] = StoredPaths
      /\ store = EmptyRevision \/ store.version = wdb[r].version
  BY DEF IInv, TypeOK, DBTypeOK, WalkInv
<1>2. wdb[r].version = [by |-> r, at |-> "open"]
  BY <1>1
<1>. QED
  BY <1>1, <1>2

\* A database that has documents changes only by those its own run appends.
THEOREM AppendOnly == Spec => OnlyTheOwnerAppends
<1> DEFINE Good == store.version # NoVersion =>
                      \/ store' = store
                      \/ /\ pc[Owner] = "walk"
                         /\ store'.version = store.version
                         /\ \E doc \in Document : store'.docs = Append(store.docs, doc)
<1>1. IInv /\ [Next]_vars => [Good]_vars
  <2> SUFFICES ASSUME IInv, [Next]_vars, store.version # NoVersion, store' # store
               PROVE  Good
    OBVIOUS
  <2>1. PICK r \in Runs :
           /\ IndexFile(r)
           /\ \E p \in Paths :
                 /\ [dev |-> device[r], path |-> p] \in Document
                 /\ store' = [version |-> [by |-> r, at |-> "open"],
                              docs |-> Append(store.docs, [dev |-> device[r], path |-> p])]
    BY StoreChange
  <2>2. pc[r] = "walk" /\ store.version = [by |-> r, at |-> "open"]
    <3>1. pc[r] = "walk"
      BY <2>1 DEF IndexFile
    <3>. QED
      BY <3>1, WalkFacts, EmptyRevisionFacts
  <2>3. Owner = r
    BY <2>2 DEF Owner
  <2>. QED
    BY <2>1, <2>2, <2>3
<1>. QED
  BY <1>1, Inductive, PTL DEF Spec, OnlyTheOwnerAppends

(***************************************************************************)
(* Refinement: the durable database is a WriteOnceIndex.                   *)
(***************************************************************************)

\* A run outside its walk does not come back to it once the store has documents:
\* only a run that found the store empty enters it.
LEMMA SealedStays ==
    ASSUME IInv, [Next]_vars, store.docs # <<>>, pc[Owner] # "walk"
    PROVE  pc'[Owner] # "walk"
<1> USE DEF TypeOK, DBTypeOK, Locations
<1>0. TypeOK /\ HandleInv
  BY DEF IInv
<1>1. \A r \in Runs : pc[r] # "open"
  BY <1>0, EmptyRevisionFacts DEF HandleInv
<1>2. CASE UNCHANGED vars
  BY <1>2 DEF vars, mainVars
<1>3. ASSUME NEW r \in Runs, Step(r) PROVE pc'[Owner] # "walk"
  <2>1. pc' = pc \/ \E there \in Locations \ {"walk"} : pc' = [pc EXCEPT ![r] = there]
    BY <1>1, <1>3 DEF Step, ProgramStep, ParseOptions, ConstructDB, CheckCreated, HasIndex, OpenDB,
                      IndexFile, ReturnFromReadInode, CloseDB, Query, Exit, Crash, Goto
  <2>2. Owner \in Runs
    BY <1>0 DEF IInv, CreatedIffNonEmpty, Owner, Revision, Stamp
  <2>. QED
    BY <1>0, <2>1, <2>2
<1>. QED
  BY <1>2, <1>3 DEF Next

\* A step that leaves the store alone leaves the owner's device alone.
LEMMA OwnerKeepsDevice ==
    ASSUME IInv, [Next]_vars, store.docs # <<>>
    PROVE  device'[Owner] = device[Owner]
<1> USE DEF TypeOK, DBTypeOK, Locations
<1>0. TypeOK /\ FreshInv /\ CreatedIffNonEmpty /\ OneSource
  BY DEF IInv
<1>1. Owner \in Runs
  BY <1>0 DEF CreatedIffNonEmpty, Owner, Revision, Stamp
<1>2. pc[Owner] # "idle"
  <2>1. store.docs \in Seq(Document)
    BY <1>0 DEF Revision
  <2>3. StoredPaths # <<>>
    BY <2>1, PathsOfNone DEF StoredPaths, PathsOf
  <2>4. StoredPaths = walked[Owner]
    BY <1>0 DEF OneSource, CreatedIffNonEmpty
  <2>. QED
    BY <1>0, <1>1, <2>3, <2>4 DEF FreshInv
<1>3. CASE UNCHANGED vars
  BY <1>3 DEF vars, mainVars
<1>4. ASSUME NEW r \in Runs, Step(r) PROVE device'[Owner] = device[Owner]
  BY <1>0, <1>1, <1>2, <1>4
     DEF Step, ProgramStep, ParseOptions, ConstructDB, CheckCreated, HasIndex, OpenDB,
         IndexFile, ReturnFromReadInode, CloseDB, Query, Exit, Crash
<1>. QED
  BY <1>3, <1>4 DEF Next

\* Whatever the runs do, the durable database behaves as WriteOnceIndex: every step
\* of theirs begins it, extends it, seals it or leaves it as it is.
THEOREM Refinement == Spec => IndexIsWriteOnce
<1> DEFINE src == IF store.docs = <<>> THEN NoDevice ELSE device[Owner]
           sld == store.docs # <<>> /\ pc[Owner] # "walk"
<1>1. Init => Index!Init
  BY EmptyRevisionFacts, PathsOfNone DEF Init, DBInit, Index!Init, StoredPaths, PathsOf
<1>2. IInv /\ IInv' /\ [Next]_vars => [Index!Next]_(Index!absVars)
  <2> SUFFICES ASSUME IInv, IInv', [Next]_vars
               PROVE  Index!Next \/ UNCHANGED Index!absVars
    OBVIOUS
  <2> USE DEF Index!Next, Index!absVars
  <2>0. /\ TypeOK /\ CreatedIffNonEmpty /\ OneSource
        /\ store.docs # <<>> => /\ store.version # NoVersion
                                /\ device[Owner] # NoDevice
                                /\ Owner \in Runs
    BY DEF IInv, CreatedIffNonEmpty, OneSource, Owner, TypeOK, DBTypeOK, Revision, Stamp
  <2>1. CASE store' = store
    <3>1. StoredPaths' = StoredPaths /\ Owner' = Owner
      BY <2>1 DEF StoredPaths, Owner
    <3>2. src' = src
      BY <2>1, <3>1, OwnerKeepsDevice
    <3>3. CASE store.docs = <<>>
      BY <2>1, <3>1, <3>2, <3>3
    <3>4. CASE store.docs # <<>> /\ pc[Owner] # "walk"
      <4>1. pc'[Owner] # "walk"
        BY <3>4, SealedStays
      <4>. QED
        BY <2>1, <3>1, <3>2, <3>4, <4>1
    <3>5. CASE store.docs # <<>> /\ pc[Owner] = "walk"
      <4>1. CASE pc'[Owner] = "walk"
        BY <2>1, <3>1, <3>2, <3>5, <4>1
      <4>2. CASE pc'[Owner] # "walk"
        <5>1. ~sld /\ sld' /\ src # NoDevice
          BY <2>0, <2>1, <3>1, <3>5, <4>2
        <5>2. Index!Seal
          BY <3>1, <3>2, <5>1 DEF Index!Seal
        <5>. QED
          BY <5>2
      <4>. QED
        BY <4>1, <4>2
    <3>. QED
      BY <3>3, <3>4, <3>5
  <2>2. ASSUME NEW r \in Runs, NEW p \in Paths, IndexFile(r),
               [dev |-> device[r], path |-> p] \in Document,
               store' = [version |-> [by |-> r, at |-> "open"],
                         docs |-> Append(store.docs, [dev |-> device[r], path |-> p])]
        PROVE  Index!Next
    <3>1. /\ pc[r] = "walk" /\ pc' = pc /\ device' = device
          /\ device[r] # NoDevice /\ device[r] \in Devices
          /\ walked[r] = StoredPaths
          /\ store = EmptyRevision \/ store.version = [by |-> r, at |-> "open"]
      <4>1. pc[r] = "walk" /\ pc' = pc /\ device' = device
        BY <2>2 DEF IndexFile
      <4>. QED
        BY <4>1, WalkFacts, MainAssumption
    <3>2. store.docs \in Seq(Document)
      BY <2>0 DEF TypeOK, DBTypeOK, Revision
    <3>3. /\ store'.docs = Append(store.docs, [dev |-> device[r], path |-> p])
          /\ store'.docs # <<>>
          /\ Owner' = r
      BY <2>2, <3>2, AppendFacts DEF Owner
    <3>4. StoredPaths' = Append(StoredPaths, p)
      <4>1. PathsOf(store'.docs) = Append(PathsOf(store.docs), p)
        BY <2>2, <3>2, <3>3, AppendPaths
      <4>. QED
        BY <4>1 DEF PathsOf, StoredPaths
    <3>5. src' = device[r] /\ ~sld'
      BY <3>1, <3>3
    <3>6. CASE store.docs = <<>>
      <4>1. StoredPaths = <<>> /\ src = NoDevice /\ ~sld
        BY <3>6, PathsOfNone DEF StoredPaths, PathsOf
      <4>2. StoredPaths' = <<p>>
        BY <3>4, <4>1
      <4>3. Index!Begin
        BY <3>1, <3>5, <4>1, <4>2 DEF Index!Begin
      <4>. QED
        BY <4>3
    <3>7. CASE store.docs # <<>>
      <4>1. store.version = [by |-> r, at |-> "open"]
        BY <3>1, <3>7, EmptyRevisionFacts
      <4>2. Owner = r /\ src = device[r] /\ ~sld
        BY <3>1, <3>7, <4>1 DEF Owner
      <4>3. Index!Extend
        BY <3>1, <3>4, <3>5, <4>2 DEF Index!Extend
      <4>. QED
        BY <4>3
    <3>. QED
      BY <3>6, <3>7
  <2>. QED
    BY <2>1, <2>2, StoreChange
<1>. QED
  BY <1>1, <1>2, Inductive, PTL DEF Spec, IndexIsWriteOnce, Index!Spec

(***************************************************************************)
(* The answers given at the prompt.                                        *)
(***************************************************************************)

\* A run at its prompt holds the lock, so nobody adds a document behind its back and
\* its last answer stays the answer.
THEOREM CurrentAnswers == Spec => []AnswersCurrent
<1>1. Init => AnswersCurrent
  BY DEF Init, AnswersCurrent
<1>2. IInv /\ AnswersCurrent /\ [Next]_vars => AnswersCurrent'
  <2> SUFFICES ASSUME IInv, AnswersCurrent, [Next]_vars, NEW q \in Runs,
                      pc'[q] = "prompt", answer'[q] # NoAnswer
               PROVE  answer'[q].docs = Result(store', answer'[q].query)
    BY DEF AnswersCurrent, Result
  <2> USE DEF TypeOK, DBTypeOK, Locations
  <2>0. TypeOK /\ LockInv /\ AnswerInv
    BY DEF IInv
  <2>1. CASE pc[q] # "prompt"
    <3>1. answer[q] = NoAnswer
      <4>1. CASE UNCHANGED vars
        BY <2>1, <4>1 DEF vars, mainVars
      <4>2. ASSUME NEW r \in Runs, Step(r) PROVE pc[q] # "stopped"
        BY <2>0, <2>1, <4>2
           DEF Step, ProgramStep, ParseOptions, ConstructDB, CheckCreated, HasIndex, OpenDB,
               IndexFile, ReturnFromReadInode, CloseDB, Query, Exit, Crash, Goto
      <4>. QED
        BY <2>0, <2>1, <4>1, <4>2 DEF Next, AnswerInv
    <3>2. answer'[q] = answer[q]
      <4>1. CASE UNCHANGED vars
        BY <4>1 DEF vars, mainVars
      <4>2. ASSUME NEW r \in Runs, Step(r) PROVE answer'[q] = answer[q]
        BY <2>0, <2>1, <4>2
           DEF Step, ProgramStep, ParseOptions, ConstructDB, CheckCreated, HasIndex, OpenDB,
               IndexFile, ReturnFromReadInode, CloseDB, Query, Exit, Crash
      <4>. QED
        BY <4>1, <4>2 DEF Next
    <3>. QED
      BY <3>1, <3>2
  <2>2. CASE pc[q] = "prompt"
    <3>1. store' = store
      <4>1. \A r \in Runs : pc[r] # "walk"
        BY <2>0, <2>2 DEF LockInv, Alive
      <4>. QED
        BY <4>1, StoreChange DEF IndexFile
    <3>2. CASE answer'[q] = answer[q]
      BY <2>2, <3>1, <3>2 DEF AnswersCurrent
    <3>3. CASE answer'[q] # answer[q]
      <4>1. Query(q)
        <5>1. CASE UNCHANGED vars
          BY <3>3, <5>1 DEF vars, mainVars
        <5>2. ASSUME NEW r \in Runs, Step(r) PROVE Query(q)
          BY <2>0, <3>3, <5>2
             DEF Step, ProgramStep, ParseOptions, ConstructDB, CheckCreated, HasIndex, OpenDB,
                 IndexFile, ReturnFromReadInode, CloseDB, Query, Exit, Crash
        <5>. QED
          BY <5>1, <5>2 DEF Next
      <4>2. PICK x \in Queries :
               answer' = [answer EXCEPT ![q] = [query |-> x, docs |-> Result(db'[q], x)]]
        BY <4>1 DEF Query
      <4>3. db'[q] = store
        BY <2>0, <4>1 DEF Query, Search, Reopen
      <4>4. answer'[q] = [query |-> x, docs |-> Result(store, x)]
        BY <2>0, <4>2, <4>3
      <4>. QED
        BY <3>1, <4>4
    <3>. QED
      BY <3>2, <3>3
  <2>. QED
    BY <2>1, <2>2
<1>. QED
  BY <1>1, <1>2, Inductive, PTL DEF Spec

(***************************************************************************)
(* The whole program implements DesktopSearch: what module WholeProgram    *)
(* says with the recursion of module Indexer is allowed by DesktopSearch.  *)
(* Everything proved above then holds of the whole program, and what is    *)
(* proved of the recursion holds of the database that it leaves.           *)
(***************************************************************************)

\* The proofs about the walk of the process that is in read_inode.
WP == INSTANCE IndexerProofs WITH
    Volumes <- {Disk[d] : d \in Devices},
    Rewrites <- {}, MaxRewrites <- 0, past <- <<>>, pc <- where

\* What module Indexer says is the same in W and in WP.
LEMMA SameData ==
    /\ W!Init <=> WP!Init
    /\ W!Entry = WP!Entry
    /\ W!VolumeType = WP!VolumeType
    /\ W!SoundDirectories <=> WP!SoundDirectories
BY Zenon DEF W!Init, WP!Init, W!Inodes, WP!Inodes, W!NoInode, WP!NoInode, W!Inode, WP!Inode,
       W!Entry, WP!Entry, W!VolumeType, WP!VolumeType, W!SoundDirectories, WP!SoundDirectories,
       W!UniqueNames, WP!UniqueNames, W!Kept, WP!Kept

\* So are its steps ...
LEMMA SameStep == W!WalkStep <=> WP!WalkStep
BY Zenon DEF W!WalkStep, WP!WalkStep, W!OpenVolume, WP!OpenVolume, W!LoadMetaData,
       WP!LoadMetaData, W!GetInodeAborts, WP!GetInodeAborts, W!ReadJournal, WP!ReadJournal,
       W!ReadRoot, WP!ReadRoot, W!AddDirectory, WP!AddDirectory, W!Descend, WP!Descend,
       W!NotADirectory, WP!NotADirectory, W!TakeFile, WP!TakeFile, W!ReadFile, WP!ReadFile,
       W!AddFile, WP!AddFile, W!Return, WP!Return, W!EnterDirectory, WP!EnterDirectory,
       W!BufferEntries, WP!BufferEntries, W!NameTooLong, WP!NameTooLong, W!Kept, WP!Kept,
       W!WantsInode, WP!WantsInode, W!Abort, WP!Abort, W!Wanted, WP!Wanted, W!Bit, WP!Bit,
       W!Group, WP!Group, W!GetInode, WP!GetInode, W!RootInode, WP!RootInode, W!AfterRead,
       WP!AfterRead, W!AfterReadOf, WP!AfterReadOf, W!TableRead, WP!TableRead, W!TableAccepted,
       WP!TableAccepted, W!NoInode, WP!NoInode, W!JournalAccepted, WP!JournalAccepted, W!Top,
       WP!Top, W!NextEntries, WP!NextEntries, W!Consume, WP!Consume, W!TakenForDirectory,
       WP!TakenForDirectory, W!AddDoc, WP!AddDoc, W!Calm, WP!Calm, W!Caller, WP!Caller, W!device,
       WP!device, W!tables, WP!tables, W!Inodes, WP!Inodes, W!IsRead, WP!IsRead, W!Unread,
       WP!Unread, W!Front, WP!Front

\* ... and the walks that it calls complete.
LEMMA SameWalks == W!CompleteWalks = WP!CompleteWalks
BY Zenon DEF W!CompleteWalks, WP!CompleteWalks, W!PathsWithin, WP!PathsWithin, W!IsEntered,
       WP!IsEntered, W!ListedOf, WP!ListedOf, W!ChildEntries, WP!ChildEntries, W!SpecialEntries,
       WP!SpecialEntries, W!IsDirectory, WP!IsDirectory, W!Lookup, WP!Lookup, W!Along, WP!Along,
       W!Step, WP!Step, W!RootInode, WP!RootInode, W!Kept, WP!Kept, W!TakenForDirectory,
       WP!TakenForDirectory, W!Front, WP!Front, W!Last, WP!Last

\* What modules Volume and Indexer assume, of these devices.
LEMMA VolumeAssumed ==
    /\ NInodes \in Nat \ {0, 1} /\ InodesPerGroup \in Nat \ {0} /\ BlockBits \in Nat /\ UInt \in Nat
    /\ InodesPerGroup <= BlockBits
    /\ BlockBits < UInt
    /\ Empty \in Texts
    /\ 0 \notin Blocks /\ Beyond \subseteq Blocks
BY WholeAssumption

\* (Nobody writes to them.)
LEMMA IndexerAssumed ==
    /\ {Disk[d] : d \in Devices} \subseteq WP!VolumeType
    /\ \A vw \in {} : /\ vw[2] \in {Disk[d] : d \in Devices}
                      /\ vw[2].accepted = vw[1].accepted
                      /\ vw[2].extJournal = vw[1].extJournal
                      /\ vw[2].journal = vw[1].journal
                      /\ vw[2].logs = vw[1].logs
    /\ 0 \in Nat
    /\ Garbage \subseteq SUBSET WP!Entry
    /\ MaxDepth \in Nat \ {0}
    /\ NoEntry \notin WP!Entry
BY WholeAssumption, SameData

\* Whatever the program does, its walk takes a step of module Indexer, begins, or waits.
LEMMA WalkMoves ==
    ASSUME TypeOK, [WholeNext]_wholeVars
    PROVE  [WP!Next]_(WP!vars) \/ WP!Init'
<1> USE DEF walkVars, WP!vars, WP!device, WP!tables
<1>1. CASE UNCHANGED wholeVars
  BY <1>1 DEF wholeVars
<1>2. ASSUME NEW r \in Runs, OpenAndCall(r) PROVE [WP!Next]_(WP!vars) \/ WP!Init'
  <2>1. CASE device[r] = NoDevice
    BY <1>2, <2>1 DEF OpenAndCall
  <2>2. CASE device[r] # NoDevice
    <3>1. device[r] \in Devices
      BY <2>2 DEF TypeOK
    <3>2. W!Inodes = WP!Inodes /\ W!NoInode = WP!NoInode
      BY DEF W!Inodes, WP!Inodes, W!NoInode, WP!NoInode
    <3>. QED
      BY <1>2, <2>2, <3>1, <3>2 DEF OpenAndCall, WP!Init
  <2>. QED
    BY <2>1, <2>2
<1>3. ASSUME NEW r \in Runs, ReadInode(r) PROVE [WP!Next]_(WP!vars)
  BY <1>3, SameStep DEF ReadInode, WP!Next
<1>4. CASE UNCHANGED walkVars
  BY <1>4
<1>. QED
  BY <1>1, <1>2, <1>3, <1>4 DEF WholeNext, WholeProgramStep, ReturnToMain

\* The paths of the documents that the walk has added.
DocPaths == [i \in DOMAIN docs |-> docs[i].path]

\* They are those that the process in the walk has added.
RunsWalk ==
    \A r \in Runs : pc[r] = "walk" => vol = Disk[device[r]] /\ walked[r] = DocPaths

\* Only one run is past its constructor.
LEMMA OneAlive ==
    ASSUME IInv, NEW r \in Runs, NEW q \in Runs, pc[r] \in Alive, pc[q] \in Alive
    PROVE  q = r
BY DEF IInv, LockInv

\* A step of another kind leaves a walk as it was.
LEMMA RunsWalkOn ==
    ASSUME RunsWalk, UNCHANGED <<vol, docs>>,
           \A q \in Runs : pc'[q] = "walk" =>
               pc[q] = "walk" /\ device'[q] = device[q] /\ walked'[q] = walked[q]
    PROVE  RunsWalk'
BY DEF RunsWalk, DocPaths

\* A document more is a path more, and one that main() can store.
LEMMA PathMore ==
    ASSUME WP!TypeOK, WP!DepthInv, [WP!Next]_(WP!vars), docs' # docs
    PROVE  /\ docs'[Len(docs')].path \in Paths
           /\ DocPaths' = Append(DocPaths, docs'[Len(docs')].path)
<1>1. PICK d \in WP!Doc : /\ docs' = Append(docs, d)
                          /\ \E n \in 1..MaxDepth : d.path \in [1..n -> Names]
  BY WP!PathFits, VolumeAssumed, IndexerAssumed
<1>2. d.path \in Paths
  BY <1>1, WholeAssumption
<1>3. docs \in Seq(WP!Doc) /\ Len(docs) \in Nat /\ DOMAIN docs = 1..Len(docs)
  BY DEF WP!TypeOK
<1>4. /\ Len(docs') = Len(docs) + 1 /\ DOMAIN docs' = 1..(Len(docs) + 1)
      /\ docs'[Len(docs) + 1] = d
      /\ \A i \in 1..Len(docs) : docs'[i] = docs[i]
  <2>1. /\ DOMAIN docs' = DOMAIN docs \cup {Len(docs) + 1}
        /\ \A i \in DOMAIN docs : docs'[i] = docs[i]
        /\ docs'[Len(docs) + 1] = d
    BY <1>1, WP!AppendDoc, VolumeAssumed, IndexerAssumed
  <2>2. Len(Append(docs, d)) = Len(docs) + 1
    <3>1. ASSUME NEW S, NEW s \in Seq(S), NEW x \in S PROVE Len(Append(s, x)) = Len(s) + 1
      OBVIOUS
    <3>. QED
      BY <1>1, <1>3, <3>1, Zenon
  <2>3. 1..(Len(docs) + 1) = 1..Len(docs) \cup {Len(docs) + 1}
    BY <1>3
  <2>. QED
    BY <1>1, <1>3, <2>1, <2>2, <2>3
<1>5. DocPaths \in Seq(WP!Path) /\ Len(DocPaths) = Len(docs)
  <2>1. \A i \in 1..Len(docs) : docs[i] \in WP!Doc
    BY <1>3
  <2>2. \A i \in 1..Len(docs) : docs[i].path \in WP!Path
    BY <2>1 DEF WP!Doc
  <2>3. DocPaths = [i \in 1..Len(docs) |-> docs[i].path]
    BY <1>3 DEF DocPaths
  <2>. QED
    BY <1>3, <2>2, <2>3
<1>6. DocPaths' = [i \in 1..(Len(docs) + 1) |-> docs'[i].path]
  BY <1>4 DEF DocPaths
<1>7. /\ Append(DocPaths, d.path) = [i \in 1..(Len(docs) + 1) |-> Append(DocPaths, d.path)[i]]
      /\ \A i \in 1..Len(docs) : Append(DocPaths, d.path)[i] = DocPaths[i]
      /\ Append(DocPaths, d.path)[Len(docs) + 1] = d.path
  BY <1>3, <1>5
<1>8. \A i \in 1..(Len(docs) + 1) : docs'[i].path = Append(DocPaths, d.path)[i]
  BY <1>3, <1>4, <1>7 DEF DocPaths
<1>9. DocPaths' = Append(DocPaths, d.path)
  BY <1>6, <1>7, <1>8
<1>10. docs'[Len(docs')] = d
  BY <1>4
<1>. QED
  BY <1>2, <1>9, <1>10

\* A step of read_inode adds a path, ends the process, or is nothing to main().
LEMMA ReadInodeStep ==
    ASSUME IInv, WP!TypeOK, WP!DepthInv, RunsWalk, NEW r \in Runs, ReadInode(r)
    PROVE  [Next]_vars /\ RunsWalk'
<1>0. TypeOK /\ EnquireSound /\ EnquireInv /\ pc[r] = "walk"
  BY DEF IInv, ReadInode
<1>1. WP!WalkStep /\ [WP!Next]_(WP!vars)
  BY SameStep DEF ReadInode, WP!Next
<1>2. vol' = vol
  BY <1>1, WP!OnlyReads, VolumeAssumed, IndexerAssumed DEF WP!device
<1>3. \A q \in Runs : pc[q] = "walk" => q = r
  BY <1>0, OneAlive DEF Alive
<1> DEFINE path == docs'[Len(docs')].path
<1>4. CASE docs' # docs /\ AddThrough(r, path)
  <2>1. path \in Paths /\ DocPaths' = Append(DocPaths, path)
    BY <1>1, <1>4, PathMore
  <2> HIDE DEF path
  <2>2. /\ Add(r, [dev |-> device[r], path |-> path])
        /\ walked' = [walked EXCEPT ![r] = Append(@, path)]
        /\ UNCHANGED <<pc, device, answer>>
    BY <1>4 DEF AddThrough
  <2>3. Len(walked[r]) + 1 \in WalkLengths
    <3>1. walked[r] \in Seq(Paths)
      BY <1>0 DEF TypeOK
    <3>. QED
      BY <3>1, WholeAssumption
  <2>4. IndexFile(r)
    BY <1>0, <2>1, <2>2, <2>3 DEF IndexFile
  <2>5. RunsWalk'
    <3> SUFFICES ASSUME NEW q \in Runs, pc'[q] = "walk"
                 PROVE  vol' = Disk[device'[q]] /\ walked'[q] = DocPaths'
      BY DEF RunsWalk
    <3>1. q = r
      BY <1>3, <2>2
    <3>2. walked'[r] = Append(walked[r], path)
      BY <1>0, <2>2 DEF TypeOK
    <3>3. vol = Disk[device[r]] /\ walked[r] = DocPaths
      BY <1>0 DEF RunsWalk
    <3>. QED
      BY <1>2, <2>1, <2>2, <3>1, <3>2, <3>3
  <2>. QED
    BY <2>4, <2>5 DEF Next, Step, ProgramStep
<1>5. ASSUME UNCHANGED vars, docs' = docs PROVE [Next]_vars /\ RunsWalk'
  BY <1>2, <1>5, RunsWalkOn DEF vars, mainVars
<1>6. CASE Len(stack') < Len(stack) /\ Destroy(r) /\ UNCHANGED mainVars
  <2>1. docs' = docs
    BY <1>1, <1>6, WP!PopsQuietly, VolumeAssumed, IndexerAssumed
  <2>2. heap' = heap
    <3>1. heap' = [heap EXCEPT ![r] = @ \ {enquire[r]}]
      BY <1>6 DEF Destroy
    <3>2. enquire[r] = Null /\ heap[r] = {}
      BY <1>0 DEF EnquireInv, EnquireSound
    <3>3. heap \in [Runs -> SUBSET EnquireIds]
      BY <1>0 DEF TypeOK, DBTypeOK
    <3>. QED
      BY <3>1, <3>2, <3>3
  <2>3. UNCHANGED vars
    BY <1>6, <2>2 DEF Destroy, vars, dbVars
  <2>. QED
    BY <1>5, <2>1, <2>3
<1>7. CASE ProcessEnds(r) /\ Goto(r, "stopped") /\ UNCHANGED <<device, walked, answer>>
  <2>1. Crash(r)
    BY <1>0, <1>7 DEF Crash
  <2>2. \A q \in Runs : pc'[q] # "walk"
    BY <1>0, <1>3, <1>7 DEF Goto, TypeOK
  <2>. QED
    BY <2>1, <2>2 DEF RunsWalk, Next, Step
<1>8. CASE docs' = docs /\ UNCHANGED <<dbVars, mainVars>>
  BY <1>5, <1>8 DEF vars
<1>. QED
  BY <1>4, <1>6, <1>7, <1>8 DEF ReadInode

\* A step of the program is one of DesktopSearch, or none.
LEMMA WholeStep ==
    ASSUME IInv, WP!TypeOK, WP!DepthInv, RunsWalk, [WholeNext]_wholeVars
    PROVE  [Next]_vars /\ RunsWalk'
<1>0. TypeOK /\ FreshInv /\ pc \in [Runs -> Locations]
  BY DEF IInv, TypeOK
<1>1. CASE UNCHANGED wholeVars
  BY <1>1, RunsWalkOn DEF wholeVars, vars, mainVars, walkVars
<1>2. ASSUME NEW r \in Runs, OpenAndCall(r) PROVE [Next]_vars /\ RunsWalk'
  <2>1. /\ OpenDB(r) /\ pc[r] = "open" /\ UNCHANGED <<device, walked>>
        /\ pc' = [pc EXCEPT ![r] = IF device[r] # NoDevice THEN "walk" ELSE "close"]
    BY <1>2 DEF OpenAndCall, OpenDB, Goto
  <2>2. \A q \in Runs : pc'[q] = "walk" => q = r
    <3> SUFFICES ASSUME NEW q \in Runs, pc'[q] = "walk", q # r PROVE FALSE
      OBVIOUS
    <3>1. pc[q] = "walk"
      BY <1>0, <2>1
    <3>. QED
      BY <2>1, <3>1, OneAlive DEF Alive
  <2>3. RunsWalk'
    <3>1. CASE device[r] = NoDevice
      <4>1. \A q \in Runs : pc'[q] # "walk"
        BY <1>0, <2>1, <2>2, <3>1
      <4>. QED
        BY <4>1 DEF RunsWalk
    <3>2. CASE device[r] # NoDevice
      <4>1. vol' = Disk[device[r]] /\ docs' = <<>>
        BY <1>2, <3>2 DEF OpenAndCall
      <4>2. DocPaths' = <<>>
        BY <4>1 DEF DocPaths
      <4>3. walked[r] = <<>>
        BY <1>0, <2>1 DEF FreshInv
      <4>. QED
        BY <2>1, <2>2, <4>1, <4>2, <4>3 DEF RunsWalk
    <3>. QED
      BY <3>1, <3>2
  <2>. QED
    BY <2>1, <2>3 DEF Next, Step, ProgramStep
<1>3. ASSUME NEW r \in Runs, ReadInode(r) PROVE [Next]_vars /\ RunsWalk'
  BY <1>3, ReadInodeStep
<1>4. ASSUME NEW r \in Runs, ReturnToMain(r) PROVE [Next]_vars /\ RunsWalk'
  <2>1. /\ ReturnFromReadInode(r) /\ pc' = [pc EXCEPT ![r] = "close"]
        /\ UNCHANGED <<device, walked, answer, walkVars>>
    BY <1>4 DEF ReturnToMain, ReturnFromReadInode, Goto
  <2>2. RunsWalk'
    BY <1>0, <2>1, RunsWalkOn DEF walkVars
  <2>. QED
    BY <2>1, <2>2 DEF Next, Step, ProgramStep
<1>5. ASSUME NEW r \in Runs,
             ConstructDB(r) \/ CheckCreated(r) \/ CloseDB(r) \/ ParseOptions(r) \/ Query(r) \/ Exit(r)
                 \/ Crash(r),
             UNCHANGED walkVars
      PROVE  [Next]_vars /\ RunsWalk'
  <2>1. Next
    BY <1>5 DEF Next, Step, ProgramStep
  <2>2. walked' = walked /\ (device' = device \/ ParseOptions(r))
    BY <1>5 DEF ConstructDB, CheckCreated, CloseDB, ParseOptions, Query, Exit, Crash
  <2>3. pc' = pc \/ \E there \in Locations \ {"walk"} : pc' = [pc EXCEPT ![r] = there]
    BY <1>5 DEF ConstructDB, CheckCreated, CloseDB, ParseOptions, Query, Exit, Crash, Goto, Locations
  <2>4. \A q \in Runs : pc'[q] = "walk" => pc[q] = "walk"
    BY <1>0, <2>3
  <2>5. \A q \in Runs : pc[q] = "walk" => device'[q] = device[q]
    BY <1>0, <2>2 DEF ParseOptions, TypeOK
  <2>6. RunsWalk'
    BY <1>5, <2>2, <2>4, <2>5, RunsWalkOn DEF walkVars
  <2>. QED
    BY <2>1, <2>6
<1>. QED
  BY <1>1, <1>2, <1>3, <1>4, <1>5 DEF WholeNext, WholeProgramStep

\* The inductive invariant of the whole program, for any devices.
WholeInv == IInv /\ WP!TypeOK /\ WP!DepthInv /\ WP!CalmDocs /\ RunsWalk

\* It holds before any run has started.
LEMMA WholeStarts == WholeInit => WholeInv /\ Init
<1> SUFFICES ASSUME WholeInit PROVE WholeInv /\ Init
  OBVIOUS
<1>1. Init /\ WP!Init
  BY SameData DEF WholeInit
<1>2. WP!TypeOK /\ WP!DepthInv /\ WP!CalmDocs
  BY <1>1, WP!DepthStarts, VolumeAssumed, IndexerAssumed
<1>3. RunsWalk
  BY <1>1 DEF Init, RunsWalk
<1>. QED
  BY <1>1, <1>2, <1>3, InitStep DEF WholeInv

\* The whole program is DesktopSearch, for every number of devices that may fail at any
\* read and of runs that may overlap and die.
THEOREM WholeRefined == WholeSpec => Spec
<1>1. WP!Init => WP!TypeOK /\ WP!DepthInv /\ WP!CalmDocs
  BY WP!DepthStarts, VolumeAssumed, IndexerAssumed
<1>2. /\ WP!TypeOK /\ WP!DepthInv /\ WP!CalmDocs /\ [WP!Next]_(WP!vars)
      => WP!TypeOK' /\ WP!DepthInv' /\ WP!CalmDocs'
  BY WP!TypeStep, WP!DepthStep, WP!CalmDocsStep, VolumeAssumed, IndexerAssumed
<1>3. IInv /\ [WholeNext]_wholeVars => [WP!Next]_(WP!vars) \/ WP!Init'
  BY WalkMoves DEF IInv
<1>4. IInv /\ WP!TypeOK /\ WP!DepthInv /\ RunsWalk /\ [WholeNext]_wholeVars
         => [Next]_vars /\ RunsWalk'
  BY WholeStep
<1>. QED
  BY <1>1, <1>2, <1>3, <1>4, WholeStarts, InductiveStep, PTL DEF WholeSpec, Spec, WholeInv

(***************************************************************************)
(* What the walk leaves in the database.                                   *)
(***************************************************************************)

\* The documents in the database are those of the last walk, and when its process has
\* come back from it, that walk is over.
LastWalk ==
    store.docs # <<>> =>
        /\ StoredPaths = DocPaths
        /\ pc[Owner] \in {"close", "prompt"} => where = "done" /\ vol = Disk[device[Owner]]

\* A step that leaves the store and the walk alone does not bring its owner back.
LEMMA LastWalkOn ==
    ASSUME IInv, [Next]_vars, LastWalk, UNCHANGED <<store, vol, where, docs>>,
           store.docs # <<>> /\ pc[Owner] \notin {"close", "prompt"}
               => pc'[Owner] \notin {"close", "prompt"}
    PROVE  LastWalk'
<1> SUFFICES ASSUME store.docs # <<>>
             PROVE  /\ StoredPaths' = DocPaths'
                    /\ pc'[Owner] \in {"close", "prompt"} => where = "done" /\ vol = Disk[device'[Owner]]
  BY DEF LastWalk, Owner
<1>1. device'[Owner] = device[Owner]
  BY OwnerKeepsDevice
<1>2. StoredPaths' = StoredPaths /\ DocPaths' = DocPaths
  BY DEF StoredPaths, DocPaths
<1>. QED
  BY <1>1, <1>2 DEF LastWalk

\* The run that is walking owns the documents, if there are any.
LEMMA WalkerOwns ==
    ASSUME IInv, NEW r \in Runs, pc[r] = "walk"
    PROVE  store.docs # <<>> => Owner = r
<1> SUFFICES ASSUME store.docs # <<>> PROVE Owner = r
  OBVIOUS
<1>1. store.version = [by |-> r, at |-> "open"]
  BY WalkFacts, EmptyRevisionFacts
<1>. QED
  BY <1>1 DEF Owner

\* Only read_inode adds, and only its return lets the owner go on.
LEMMA LastWalkStep ==
    ASSUME WholeInv, WholeInv', LastWalk, [WholeNext]_wholeVars
    PROVE  LastWalk'
<1>0. /\ TypeOK /\ FreshInv /\ HandleInv /\ IInv /\ WP!TypeOK /\ RunsWalk /\ [Next]_vars
  BY WholeStep DEF WholeInv, IInv
<1>1. store.docs # <<>> => Owner \in Runs /\ walked[Owner] # <<>>
  <2> SUFFICES ASSUME store.docs # <<>> PROVE Owner \in Runs /\ walked[Owner] # <<>>
    OBVIOUS
  <2>1. store.version # NoVersion /\ StoredPaths = walked[Owner] /\ store.docs \in Seq(Document)
    BY <1>0 DEF IInv, CreatedIffNonEmpty, OneSource, TypeOK, DBTypeOK, Revision
  <2>2. Owner \in Runs
    BY <1>0, <2>1 DEF Owner, TypeOK, DBTypeOK, Revision, Stamp
  <2>. QED
    BY <2>1, <2>2, PathsOfNone DEF StoredPaths, PathsOf
<1>2. store.docs # <<>> => pc[Owner] \in {"walk", "close", "prompt", "stopped"}
  BY <1>0, <1>1 DEF FreshInv, TypeOK, Locations
<1>3. CASE UNCHANGED wholeVars
  BY <1>0, <1>3, LastWalkOn DEF wholeVars, vars, dbVars, mainVars, walkVars
<1>4. ASSUME NEW r \in Runs, OpenAndCall(r) PROVE LastWalk'
  <2>1. store.docs = <<>> /\ store' = store
    BY <1>0, <1>4, EmptyRevisionFacts DEF OpenAndCall, OpenDB, Open, StampVersion, HandleInv
  <2>. QED
    BY <2>1 DEF LastWalk
<1>5. ASSUME NEW r \in Runs, ReadInode(r) PROVE LastWalk'
  <2>1. WP!WalkStep /\ pc[r] = "walk" /\ r \in Runs
    BY <1>5, SameStep DEF ReadInode
  <2>2. store.docs # <<>> => Owner = r
    BY <1>0, <2>1, WalkerOwns
  <2>3. CASE docs' # docs /\ AddThrough(r, docs'[Len(docs')].path)
    <3>1. pc'[r] = "walk" /\ IInv' /\ RunsWalk'
      BY <1>0, <2>1, <2>3 DEF AddThrough, WholeInv
    <3>2. \A q \in Runs : pc'[q] \in Alive => q = r
      BY <3>1 DEF IInv, LockInv, Alive
    <3>3. walked'[r] = DocPaths'
      BY <3>1 DEF RunsWalk
    <3>4. /\ store'.docs # <<>> => store'.version # NoVersion
          /\ store'.version # NoVersion => StoredPaths' = walked'[Owner'] /\ Owner' \in Runs
      BY <3>1 DEF IInv, CreatedIffNonEmpty, OneSource, Owner, TypeOK, DBTypeOK, Revision, Stamp
    <3>5. store'.docs # <<>> => Owner' = r
      <4>1. store' = [wdb[r] EXCEPT !.docs = Append(@, [dev |-> device[r], path |-> docs'[Len(docs')].path])]
        BY <2>3 DEF AddThrough, Add, Commit
      <4>2. wdb[r] = [version |-> [by |-> r, at |-> "open"], docs |-> store.docs]
        BY <1>0, <2>1 DEF IInv, WalkInv
      <4>3. store'.version = [by |-> r, at |-> "open"]
        BY <4>1, <4>2
      <4>. QED
        BY <4>3 DEF Owner
    <3>. QED
      BY <3>1, <3>3, <3>4, <3>5 DEF LastWalk
  <2>4. CASE Len(stack') < Len(stack) /\ Destroy(r) /\ UNCHANGED mainVars
    <3>1. docs' = docs
      BY <2>1, <2>4, <1>0, WP!PopsQuietly, VolumeAssumed, IndexerAssumed
    <3>2. store' = store /\ pc' = pc /\ device' = device
      BY <2>4 DEF Destroy, mainVars
    <3>3. StoredPaths' = StoredPaths /\ DocPaths' = DocPaths /\ Owner' = Owner
      BY <3>1, <3>2 DEF StoredPaths, DocPaths, Owner
    <3>. QED
      BY <2>1, <2>2, <3>2, <3>3 DEF LastWalk
  <2>5. CASE where' = "aborted" /\ ProcessEnds(r) /\ Goto(r, "stopped")
    <3>1. docs' = docs
      BY <1>0, <2>1, <2>5, WP!DocsStep, VolumeAssumed, IndexerAssumed DEF WP!Next
    <3>2. store' = store /\ pc'[r] = "stopped"
      BY <1>0, <2>5 DEF ProcessEnds, Goto, TypeOK
    <3>3. StoredPaths' = StoredPaths /\ DocPaths' = DocPaths /\ Owner' = Owner
      BY <3>1, <3>2 DEF StoredPaths, DocPaths, Owner
    <3>. QED
      BY <2>2, <3>2, <3>3 DEF LastWalk
  <2>6. CASE docs' = docs /\ UNCHANGED <<dbVars, mainVars>>
    <3>1. store' = store /\ pc' = pc /\ device' = device
      BY <2>6 DEF dbVars, mainVars
    <3>2. StoredPaths' = StoredPaths /\ DocPaths' = DocPaths /\ Owner' = Owner
      BY <2>6, <3>1 DEF StoredPaths, DocPaths, Owner
    <3>. QED
      BY <2>1, <2>2, <3>1, <3>2 DEF LastWalk
  <2>. QED
    BY <1>5, <2>3, <2>4, <2>5, <2>6 DEF ReadInode
<1>6. ASSUME NEW r \in Runs, ReturnToMain(r) PROVE LastWalk'
  <2>1. /\ pc[r] = "walk" /\ where = "done" /\ UNCHANGED <<store, device, walkVars>>
        /\ pc' = [pc EXCEPT ![r] = "close"]
    BY <1>6 DEF ReturnToMain, WalkIsOver, Destroy, Goto
  <2>2. store.docs # <<>> => Owner = r
    BY <1>0, <2>1, WalkerOwns
  <2>3. vol = Disk[device[r]]
    BY <1>0, <2>1 DEF RunsWalk
  <2>4. StoredPaths' = StoredPaths /\ DocPaths' = DocPaths /\ Owner' = Owner
    BY <2>1 DEF StoredPaths, DocPaths, Owner, walkVars
  <2>. QED
    BY <2>1, <2>2, <2>3, <2>4 DEF LastWalk, walkVars
<1>7. ASSUME NEW r \in Runs,
             ConstructDB(r) \/ CheckCreated(r) \/ CloseDB(r) \/ ParseOptions(r) \/ Query(r) \/ Exit(r)
                 \/ Crash(r),
             UNCHANGED walkVars
      PROVE  LastWalk'
  <2>1. store' = store
    BY <1>7 DEF ConstructDB, Construct, Unlocked, NoEnquire, ConstructThrows, CheckCreated, CloseDB, Close,
               StampVersion, ParseOptions, Query, Search, Reopen, Exit, Crash, ProcessEnds, dbVars
  <2>2. store.docs # <<>> /\ pc[Owner] \notin {"close", "prompt"} => pc'[Owner] \notin {"close", "prompt"}
    BY <1>0, <1>1, <1>2, <1>7
       DEF ConstructDB, CheckCreated, CloseDB, ParseOptions, Query, Exit, Crash, Goto, TypeOK
  <2>. QED
    BY <1>0, <1>7, <2>1, <2>2, LastWalkOn DEF walkVars
<1>. QED
  BY <1>3, <1>4, <1>5, <1>6, <1>7 DEF WholeNext, WholeProgramStep

\* All of it together: on sound directories, with what is known of the recursion.
LEMMA WalkLeft ==
    ASSUME W!SoundDirectories
    PROVE  WholeSpec => [](WholeInv /\ LastWalk /\ WP!WalkInv)
<1>1. WholeInit => LastWalk /\ WP!WalkInv
  <2>1. WholeInit => LastWalk
    BY EmptyRevisionFacts DEF WholeInit, Init, DBInit, LastWalk
  <2>2. WholeInit => WP!WalkInv
    BY SameData, WP!WalkStarts, VolumeAssumed, IndexerAssumed DEF WholeInit
  <2>. QED
    BY <2>1, <2>2
<1>2. WP!Init => WP!WalkInv /\ WP!TypeOK /\ WP!DepthInv /\ WP!CalmDocs
  BY WP!WalkStarts, WP!DepthStarts, VolumeAssumed, IndexerAssumed
<1>3. WP!WalkInv /\ [WP!Next]_(WP!vars) => WP!WalkInv'
  BY WP!WalkInvStep, SameData, VolumeAssumed, IndexerAssumed
<1>4. /\ WP!TypeOK /\ WP!DepthInv /\ WP!CalmDocs /\ [WP!Next]_(WP!vars)
      => WP!TypeOK' /\ WP!DepthInv' /\ WP!CalmDocs'
  BY WP!TypeStep, WP!DepthStep, WP!CalmDocsStep, VolumeAssumed, IndexerAssumed
<1>5. IInv /\ [WholeNext]_wholeVars => [WP!Next]_(WP!vars) \/ WP!Init'
  BY WalkMoves DEF IInv
<1>6. WholeInv /\ [WholeNext]_wholeVars => IInv' /\ RunsWalk'
  BY WholeStep, InductiveStep DEF WholeInv
<1>7. WholeInv /\ WholeInv' /\ LastWalk /\ [WholeNext]_wholeVars => LastWalk'
  BY LastWalkStep
<1>8. WholeInv <=> IInv /\ WP!TypeOK /\ WP!DepthInv /\ WP!CalmDocs /\ RunsWalk
  BY DEF WholeInv
<1>. QED
  BY <1>1, <1>2, <1>3, <1>4, <1>5, <1>6, <1>7, <1>8, WholeStarts, PTL DEF WholeSpec

\* read_inode comes back whatever it has walked; but if no read has failed, then the index
\* that a run leaves when it comes to its prompt is a complete walk of its device, by the
\* rules of the recursion, wherever the other runs were stopped.
THEOREM CompleteWithoutFailures == ASSUME W!SoundDirectories PROVE WholeSpec => []CompleteIndex
<1>1. WholeInv /\ LastWalk /\ WP!WalkInv => CompleteIndex
  <2> SUFFICES ASSUME WholeInv, LastWalk, WP!WalkInv, good, store.version # NoVersion,
                      pc[Owner] \in {"close", "prompt"}
               PROVE  {StoredPaths[i] : i \in DOMAIN StoredPaths} \in W!CompleteWalks[Disk[device[Owner]]]
    BY DEF CompleteIndex
  <2>1. store.docs # <<>>
    BY DEF WholeInv, IInv, CreatedIffNonEmpty
  <2>2. StoredPaths = DocPaths /\ where = "done" /\ vol = Disk[device[Owner]]
    BY <2>1 DEF LastWalk
  <2>3. WP!OnTheWay
    BY SameData, WP!WalkOnTheWay, VolumeAssumed, IndexerAssumed
  <2>4. WP!Calm
    BY DEF WP!Calm
  <2>5. WP!Listed \in WP!CompleteWalks[vol]
    BY <2>2, <2>3, <2>4 DEF WP!OnTheWay
  <2>6. \A i \in DOMAIN docs : docs[i].calm
    BY <2>4 DEF WholeInv, WP!CalmDocs
  <2>7. {DocPaths[i] : i \in DOMAIN DocPaths} = WP!Listed
    BY <2>6 DEF DocPaths, WP!Listed
  <2>. QED
    BY <2>2, <2>5, <2>7, SameWalks
<1>. QED
  BY <1>1, WalkLeft, PTL

\* No path is in the database twice, if no read has failed: what the recursion adds once,
\* no other run adds again.
THEOREM PathsOnce == ASSUME W!SoundDirectories PROVE WholeSpec => []NoPathTwice
<1>1. WholeInv /\ LastWalk /\ WP!WalkInv => NoPathTwice
  <2> SUFFICES ASSUME WholeInv, LastWalk, WP!WalkInv, good
               PROVE  \A i, j \in DOMAIN StoredPaths : StoredPaths[i] = StoredPaths[j] => i = j
    BY DEF NoPathTwice
  <2>1. CASE store.docs = <<>>
    <3>1. StoredPaths = <<>>
      BY <2>1, PathsOfNone DEF StoredPaths, PathsOf
    <3>. QED
      BY <3>1
  <2>2. CASE store.docs # <<>>
    <3>1. WP!EachPathOnce
      BY DEF WP!WalkInv, WP!OnceInv
    <3>2. StoredPaths = DocPaths
      BY <2>2 DEF LastWalk
    <3>. QED
      BY <3>1, <3>2 DEF WP!EachPathOnce, DocPaths
  <2>. QED
    BY <2>1, <2>2
<1>. QED
  BY <1>1, WalkLeft, PTL

\* The rest of what has been proved of DesktopSearch holds of the whole program too.
THEOREM WholeProgramKeeps ==
    WholeSpec => /\ []OneSource /\ []EnquireSound /\ []AnswersCurrent
                 /\ OnlyTheOwnerAppends
                 /\ IndexIsWriteOnce
BY WholeRefined, SingleSource, EnquireSafe, CurrentAnswers, AppendOnly, Refinement, PTL
===============================================================================
