----------------------------- MODULE IndexerProofs ----------------------------
(***************************************************************************)
(* Proofs about Indexer, for every set of volumes: any number of inodes,   *)
(* any directory contents, reads that fail or not, a writer or none.        *)
(***************************************************************************)
EXTENDS Indexer, BasicLemmas

(***************************************************************************)
(* The arithmetic of get_inode.                                            *)
(***************************************************************************)

\* The remainder of a division is less than the divisor.
LEMMA ModFacts ==
    ASSUME NEW n \in Nat, NEW m \in Nat \ {0}
    PROVE  n % m \in 0..(m - 1)
OBVIOUS

\* Every inode of the volume passes get_inode's assertion, given the one read_inode
\* makes about the bitmap; the 0 of a cleared entry does not.
THEOREM InodeIndex ==
    ASSUME NEW ino \in 0..NInodes
    PROVE  Bit(ino) < BlockBits <=> ino \in Inodes
<1>1. CASE ino = 0
  BY <1>1, VolumeAssumption DEF Bit, Inodes
<1>2. CASE ino # 0
  <2>1. ino - 1 \in Nat
    BY <1>2, VolumeAssumption
  <2>2. Bit(ino) \in 0..(InodesPerGroup - 1)
    BY <1>2, <2>1, ModFacts, VolumeAssumption DEF Bit
  <2>. QED
    BY <1>2, <2>2, VolumeAssumption DEF Inodes
<1>. QED
  BY <1>1, <1>2

\* The root directory's inode is one.
LEMMA RootFacts == RootInode \in Inodes
BY VolumeAssumption DEF RootInode, Inodes

\* An inode that get_inode returns is one.
LEMMA GetInodeFacts ==
    ASSUME NEW ino \in 0..NInodes, GetInode(ino)
    PROVE  ino \in Inodes
BY InodeIndex DEF GetInode

(***************************************************************************)
(* Typing.                                                                 *)
(***************************************************************************)

\* A volume's fields, and the inodes in memory.
LEMMA VolumeFacts ==
    ASSUME TypeOK
    PROVE  /\ vol.journal \in 0..NInodes
           /\ vol.faulty \in BOOLEAN
           /\ \A ino \in Inodes : vol.inodes[ino] \in Inode
           /\ \A ino \in Inodes : all_inodes[ino] \in Inode
           /\ \A ino \in Inodes : all_inodes[ino].block \in Blocks \cup {0}
           /\ \A b \in Blocks : vol.dirs[b] \in SUBSET Entry
BY IndexerAssumption DEF TypeOK, VolumeType, Inode

\* Whatever a directory buffer holds, it holds entries.
LEMMA BufferFacts ==
    ASSUME TypeOK, NEW b \in Blocks \cup {0}, NEW ok \in BOOLEAN,
           NEW entries \in BufferEntries(b, ok)
    PROVE  entries \in SUBSET Entry /\ Kept(entries) \in SUBSET Entry
BY VolumeFacts, IndexerAssumption DEF BufferEntries, Kept

\* The inode that is wanted next is a number that an entry or the superblock can hold.
LEMMA WantedFacts ==
    ASSUME TypeOK, WantsInode
    PROVE  Wanted \in 0..NInodes
<1>1. CASE pc = "journal"
  BY <1>1, VolumeFacts DEF Wanted
<1>2. CASE pc = "root"
  BY <1>2, RootFacts, VolumeAssumption DEF Wanted, Inodes
<1>3. CASE pc \in {"descend", "file"}
  BY <1>3 DEF Wanted, TypeOK, Entry
<1>. QED
  BY <1>1, <1>2, <1>3 DEF WantsInode

\* A sequence without its last element.
LEMMA FrontFacts ==
    ASSUME NEW S, NEW s \in Seq(S), s # <<>>
    PROVE  /\ Front(s) \in Seq(S)
           /\ Len(Front(s)) = Len(s) - 1
           /\ \A k \in DOMAIN Front(s) : k \in DOMAIN s /\ Front(s)[k] = s[k]
<1>1. Len(s) \in Nat /\ DOMAIN s = 1..Len(s)
  OBVIOUS
<1>2. Len(s) # 0
  BY EmptySeq, <1>1
<1>3. /\ 1 \in 1..Len(s) + 1
      /\ Len(s) - 1 \in 1 - 1 .. Len(s)
      /\ Len(s) - 1 = (Len(s) - 1) - 1 + 1
  BY <1>1, <1>2
<1>4. /\ SubSeq(s, 1, Len(s) - 1) \in Seq(S)
      /\ Len(SubSeq(s, 1, Len(s) - 1)) = Len(s) - 1
      /\ \A k \in 1..Len(s) - 1 : SubSeq(s, 1, Len(s) - 1)[k] = s[k]
  BY <1>1, <1>3
<1>5. DOMAIN SubSeq(s, 1, Len(s) - 1) = 1..Len(s) - 1
  BY <1>1, <1>4
<1>. QED
  BY <1>1, <1>3, <1>4, <1>5 DEF Front

\* The topmost activation, and the stack without it.
LEMMA TopFacts ==
    ASSUME TypeOK, stack # <<>>
    PROVE  /\ Len(stack) \in 1..Len(stack)
           /\ Top \in Frame
           /\ Top.path \in Path /\ Top.todo \in SUBSET Entry
           /\ Front(stack) \in Seq(Frame)
           /\ Len(stack) # 1 => Front(stack) # <<>>
<1>1. stack \in Seq(Frame) /\ Len(stack) \in 1..Len(stack)
  BY DEF TypeOK
<1>2. Top \in Frame
  BY <1>1 DEF Top
<1>3. Front(stack) \in Seq(Frame) /\ Len(Front(stack)) = Len(stack) - 1
  BY <1>1, FrontFacts
<1>. QED
  BY <1>1, <1>2, <1>3 DEF Frame

\* The stack after an entry has been taken from the topmost activation.
LEMMA ConsumeFacts ==
    ASSUME TypeOK, stack # <<>>, NEW e
    PROVE  /\ Consume(e) \in Seq(Frame)
           /\ Consume(e) # <<>>
           /\ Len(Consume(e)) = Len(stack)
           /\ \A k \in DOMAIN stack : Consume(e)[k].path = stack[k].path
<1>1. /\ stack \in Seq(Frame) /\ Len(stack) \in DOMAIN stack
      /\ \A k \in DOMAIN stack : stack[k] \in Frame
  BY DEF TypeOK
<1>2. [stack[Len(stack)] EXCEPT !.todo = @ \ {e}] \in Frame
  BY <1>1 DEF Frame
<1>. QED
  BY <1>1, <1>2 DEF Consume, Frame

\* Entering a directory: its frame is on top of the stack, or the program is over.
LEMMA EnterFacts ==
    ASSUME TypeOK, NEW path \in Path, NEW b \in Blocks \cup {0}, EnterDirectory(path, b)
    PROVE  /\ good' \in BOOLEAN
           /\ pc' \in {"entry", "aborted"}
           /\ stack' \in Seq(Frame)
           /\ pc' = "aborted" => stack' = stack
           /\ pc' = "entry" => \E todo : stack' = Append(stack, [path |-> path, todo |-> todo])
           /\ pc' = "entry" => stack' # <<>>
           /\ pc' = "entry" => Len(stack') = Len(stack) + 1
           /\ pc' = "entry" => Len(stack) # MaxDepth
<1> DEFINE Enter(ok, entries) ==
         /\ good' = ok
         /\ IF (\E e \in entries : NameTooLong(e)) \/ Len(stack) = MaxDepth
            THEN pc' = "aborted" /\ UNCHANGED stack
            ELSE /\ pc' = "entry"
                 /\ stack' = Append(stack, [path |-> path, todo |-> Kept(entries)])
<1>0. PICK ok \in BOOLEAN : \E entries \in BufferEntries(b, ok) : Enter(ok, entries)
  BY DEF EnterDirectory, AfterRead, AfterReadOf, TypeOK
<1>1. PICK entries \in BufferEntries(b, ok) : Enter(ok, entries)
  BY <1>0
<1>2. [path |-> path, todo |-> Kept(entries)] \in Frame
  BY BufferFacts DEF Frame
<1>3. stack \in Seq(Frame)
  BY DEF TypeOK
<1>4. CASE (\E e \in entries : NameTooLong(e)) \/ Len(stack) = MaxDepth
  BY <1>1, <1>3, <1>4
<1>5. CASE ~((\E e \in entries : NameTooLong(e)) \/ Len(stack) = MaxDepth)
  <2>1. pc' = "entry" /\ stack' = Append(stack, [path |-> path, todo |-> Kept(entries)])
    BY <1>1, <1>5
  <2>2. stack' \in Seq(Frame) /\ stack' # <<>> /\ Len(stack') = Len(stack) + 1
    BY <1>2, <1>3, <2>1
  <2>. QED
    BY <1>1, <2>1, <2>2
<1>. QED
  BY <1>4, <1>5

\* A document made of an entry of the topmost activation.
LEMMA DocFacts ==
    ASSUME NEW path \in Path, NEW e \in Entry, NEW slash \in BOOLEAN, NEW text \in Texts,
           NEW calm \in BOOLEAN
    PROVE  [path |-> Append(path, e.name), slash |-> slash, text |-> text, calm |-> calm] \in Doc
BY DEF Doc, Path, Entry

\* The document of the file in file_content.
FileDoc == [path |-> Append(Top.path, entry.name), slash |-> FALSE, text |-> file_content, calm |-> Calm]

LEMMA FileDocFacts ==
    ASSUME TypeOK, pc = "add"
    PROVE  /\ stack # <<>> /\ entry \in Entry
           /\ FileDoc \in Doc
           /\ FileDoc.path = Append(Top.path, entry.name) /\ ~FileDoc.slash
           /\ FileDoc.text = file_content /\ FileDoc.calm = Calm
<1>1. stack # <<>> /\ entry \in Entry /\ file_content \in Texts /\ Calm \in BOOLEAN
  BY DEF TypeOK, Calm
<1>2. Top.path \in Path
  BY <1>1, TopFacts
<1>. QED
  BY <1>1, <1>2, DocFacts DEF FileDoc

\* What reading a file into file_content changes.
LEMMA ReadFileFacts ==
    ASSUME TypeOK, ReadFile
    PROVE  /\ pc = "file" /\ pc' = "add" /\ entry.inode \in Inodes
           /\ good' \in BOOLEAN /\ file_content' \in Texts
           /\ good' => good /\ file_content' = Content(vol, all_inodes[entry.inode])
           /\ UNCHANGED <<vol, past, loaded, all_inodes, stack, entry, docs>>
<1>1. entry.inode \in Inodes /\ all_inodes[entry.inode] \in Inode
  <2>1. entry \in Entry
    BY DEF ReadFile, TypeOK
  <2>2. entry.inode \in Inodes
    BY <2>1, GetInodeFacts DEF ReadFile, Entry
  <2>. QED
    BY <2>2, VolumeFacts
<1>2. \A b \in Blocks : vol.data[b] \in Texts
  BY IndexerAssumption DEF TypeOK, VolumeType
<1>3. CASE IsRead(all_inodes[entry.inode])
  <2>1. all_inodes[entry.inode].block \in Blocks
    BY <1>1, <1>3 DEF IsRead, Inode
  <2>2. PICK ok \in AfterReadOf(all_inodes[entry.inode].block) :
           /\ good' = ok
           /\ file_content' \in IF ok THEN {vol.data[all_inodes[entry.inode].block]} ELSE Texts
    BY <1>3 DEF ReadFile
  <2>3. ok \in BOOLEAN /\ (ok => good)
    BY <2>2 DEF AfterReadOf, AfterRead
  <2>4. vol.data[all_inodes[entry.inode].block] \in Texts
    BY <1>2, <2>1
  <2>5. HasContent(all_inodes[entry.inode])
    BY <1>3 DEF IsRead, HasContent
  <2>. QED
    BY <1>1, <2>2, <2>3, <2>4, <2>5 DEF ReadFile, Content, device, tables
<1>4. CASE ~IsRead(all_inodes[entry.inode])
  <2>1. ~HasContent(all_inodes[entry.inode])
    BY <1>4 DEF IsRead, HasContent
  <2>2. file_content' = Empty /\ good' = good
    BY <1>4 DEF ReadFile, Unread
  <2>. QED
    BY <1>1, <2>1, <2>2, VolumeAssumption DEF ReadFile, Content, TypeOK, device, tables
<1>. QED
  BY <1>3, <1>4

\* What loading a group changes. It goes on only with the table that is on the volume.
LEMMA LoadFacts ==
    ASSUME TypeOK, LoadMetaData
    PROVE  /\ Wanted \in Inodes /\ Group(Wanted) \notin loaded /\ WantsInode
           /\ UNCHANGED <<vol, past, stack, entry, file_content, docs>>
           /\ loaded' = loaded \cup {Group(Wanted)}
           /\ all_inodes' \in [Inodes -> Inode]
           /\ good' \in BOOLEAN /\ (good' => good)
           /\ pc' \in {pc, "aborted"}
           /\ pc' # "aborted" =>
                 /\ pc' = pc /\ good'
                 /\ \A ino \in Inodes :
                       all_inodes'[ino] = IF Group(ino) = Group(Wanted) THEN vol.inodes[ino]
                                                                        ELSE all_inodes[ino]
           /\ \A ino \in Inodes : Group(ino) \in loaded => all_inodes'[ino] = all_inodes[ino]
           /\ \A ino \in Inodes : all_inodes'[ino] \in {vol.inodes[ino], all_inodes[ino], NoInode}
<1>1. Wanted \in Inodes
  BY WantedFacts, InodeIndex DEF LoadMetaData
<1>2. PICK ok \in AfterRead :
         /\ good' = ok
         /\ all_inodes' = [ino \in Inodes |-> IF Group(ino) = Group(Wanted) THEN TableRead(ino, ok)
                                                                         ELSE all_inodes[ino]]
         /\ IF TableAccepted(ok) THEN UNCHANGED pc ELSE pc' = "aborted"
  BY DEF LoadMetaData
<1>3. ok \in BOOLEAN /\ (ok => good)
  BY <1>2 DEF AfterRead
<1>4. /\ \A ino \in Inodes : TableRead(ino, ok) \in {vol.inodes[ino], NoInode}
      /\ ok => \A ino \in Inodes : TableRead(ino, ok) = vol.inodes[ino]
      /\ \A ino \in Inodes : TableRead(ino, ok) \in Inode
  BY VolumeFacts DEF TableRead, NoInode, Inode
<1>5. all_inodes' \in [Inodes -> Inode]
  <2>1. \A ino \in Inodes :
           (IF Group(ino) = Group(Wanted) THEN TableRead(ino, ok) ELSE all_inodes[ino]) \in Inode
    BY <1>4, VolumeFacts
  <2>. QED
    BY <1>2, <2>1
<1>6. \A ino \in Inodes :
         all_inodes'[ino] = IF Group(ino) = Group(Wanted) THEN TableRead(ino, ok) ELSE all_inodes[ino]
  BY <1>2
<1>7. /\ Group(Wanted) \notin loaded /\ WantsInode
      /\ UNCHANGED <<vol, past, stack, entry, file_content, docs>>
      /\ loaded' = loaded \cup {Group(Wanted)}
  BY DEF LoadMetaData, device
<1>8. pc' = IF ok THEN pc ELSE "aborted"
  BY <1>2, <1>3 DEF TableAccepted
<1>9. pc' # "aborted" =>
         /\ pc' = pc /\ good'
         /\ \A ino \in Inodes :
               all_inodes'[ino] = IF Group(ino) = Group(Wanted) THEN vol.inodes[ino] ELSE all_inodes[ino]
  <2> SUFFICES ASSUME pc' # "aborted"
               PROVE  /\ pc' = pc /\ good'
                      /\ \A ino \in Inodes :
                            all_inodes'[ino] = IF Group(ino) = Group(Wanted) THEN vol.inodes[ino]
                                                                             ELSE all_inodes[ino]
    OBVIOUS
  <2>1. ok
    BY <1>8
  <2>. QED
    BY <1>2, <1>4, <1>6, <1>8, <2>1
<1>10. \A ino \in Inodes : Group(ino) \in loaded => all_inodes'[ino] = all_inodes[ino]
  BY <1>6, <1>7
<1>11. \A ino \in Inodes : all_inodes'[ino] \in {vol.inodes[ino], all_inodes[ino], NoInode}
  BY <1>4, <1>6
<1>12. good' \in BOOLEAN /\ (good' => good) /\ pc' \in {pc, "aborted"}
  BY <1>2, <1>3, <1>8
<1>. QED
  BY <1>1, <1>5, <1>7, <1>9, <1>10, <1>11, <1>12, Zenon

\* Every variable keeps its type, at every step.
LEMMA TypeStep == TypeOK /\ [Next]_vars => TypeOK'
<1> SUFFICES ASSUME TypeOK, [Next]_vars PROVE TypeOK'
  OBVIOUS
<1> USE DEF Locations
<1>0. ASSUME Abort PROVE TypeOK'
  BY <1>0 DEF TypeOK, Abort, device, tables
<1>1. CASE OpenVolume
  BY <1>1 DEF TypeOK, OpenVolume, device, tables
<1>2. CASE LoadMetaData
  <2>1. Group(Wanted) \in Groups
    BY <1>2, LoadFacts DEF Groups
  <2>2. loaded' \in SUBSET Groups
    BY <1>2, <2>1, LoadFacts DEF TypeOK
  <2>. QED
    BY <1>2, <2>2, LoadFacts DEF TypeOK
<1>3. CASE ReadJournal
  BY <1>3 DEF TypeOK, ReadJournal, device, tables
<1>4. CASE ReadRoot
  <2>1. all_inodes[RootInode].block \in Blocks \cup {0}
    BY RootFacts, VolumeFacts
  <2>2. CASE all_inodes[RootInode].dir
    <3>1. EnterDirectory(<<>>, all_inodes[RootInode].block) /\ <<>> \in Path
      BY <1>4, <2>2 DEF ReadRoot, Path
    <3>. QED
      BY <1>4, <2>1, <3>1, EnterFacts DEF TypeOK, ReadRoot, device, tables
  <2>3. CASE ~all_inodes[RootInode].dir
    BY <1>4, <2>3 DEF TypeOK, ReadRoot, device, tables
  <2>. QED
    BY <2>2, <2>3
<1>5. CASE AddDirectory
  <2>1. PICK e \in NextEntries :
           /\ AddDoc([path |-> Append(Top.path, e.name), slash |-> TRUE, text |-> Empty, calm |-> Calm])
           /\ entry' = e
           /\ stack' = Consume(e)
    BY <1>5 DEF AddDirectory
  <2>2. stack # <<>>
    BY <1>5 DEF AddDirectory, TypeOK
  <2>3. e \in Entry /\ Top.path \in Path
    BY <2>2, TopFacts DEF NextEntries
  <2>4. [path |-> Append(Top.path, e.name), slash |-> TRUE, text |-> Empty, calm |-> Calm] \in Doc
    BY <2>3, DocFacts, VolumeAssumption DEF Calm, TypeOK
  <2>5. stack' \in Seq(Frame) /\ stack' # <<>>
    BY <2>1, <2>2, ConsumeFacts
  <2>6. docs' \in Seq(Doc)
    BY <2>1, <2>4 DEF AddDoc, TypeOK
  <2>. QED
    BY <1>5, <2>1, <2>3, <2>5, <2>6, IndexerAssumption DEF TypeOK, AddDirectory, device, tables
<1>6. CASE Descend
  <2>1. entry \in Entry /\ stack # <<>>
    BY <1>6 DEF Descend, TypeOK
  <2>2. entry.inode \in Inodes
    BY <1>6, <2>1, GetInodeFacts DEF Descend, Entry
  <2>3. Append(Top.path, entry.name) \in Path
    BY <2>1, TopFacts DEF Path, Entry
  <2>. QED
    BY <1>6, <2>2, <2>3, VolumeFacts, EnterFacts DEF TypeOK, Descend, device, tables
<1>7. CASE NotADirectory \/ Return
  <2>1. stack # <<>>
    BY <1>7 DEF NotADirectory, Return, TypeOK
  <2>. QED
    BY <1>7, <2>1, TopFacts DEF TypeOK, NotADirectory, Return, Caller, device, tables
<1>8. CASE TakeFile
  <2>1. PICK e \in NextEntries : entry' = e /\ stack' = Consume(e)
    BY <1>8 DEF TakeFile
  <2>2. stack # <<>>
    BY <1>8 DEF TakeFile, TypeOK
  <2>3. e \in Entry
    BY <2>2, TopFacts DEF NextEntries
  <2>4. stack' \in Seq(Frame) /\ stack' # <<>>
    BY <2>1, <2>2, ConsumeFacts
  <2>. QED
    BY <1>8, <2>1, <2>3, <2>4, IndexerAssumption DEF TypeOK, TakeFile, device, tables
<1>9. CASE AddFile
  <2>1. FileDoc \in Doc
    BY <1>9, FileDocFacts DEF AddFile
  <2>2. docs' = Append(docs, FileDoc)
    BY <1>9 DEF AddFile, AddDoc, FileDoc
  <2>3. docs' \in Seq(Doc)
    BY <2>1, <2>2 DEF TypeOK
  <2>. QED
    BY <1>9, <2>3, VolumeAssumption DEF TypeOK, AddFile, device, tables
<1>13. CASE ReadFile
  BY <1>13, ReadFileFacts DEF TypeOK
<1>10. CASE GetInodeAborts
  BY <1>0, <1>10 DEF GetInodeAborts
<1>11. CASE Rewrite
  BY <1>11 DEF TypeOK, Rewrite, tables
<1>12. CASE UNCHANGED vars
  BY <1>12 DEF TypeOK, vars, device, tables
<1>. QED
  BY <1>1, <1>2, <1>3, <1>4, <1>5, <1>6, <1>7, <1>8, <1>9, <1>10, <1>11, <1>12, <1>13 DEF Next, WalkStep

\* Every variable keeps its type, on every volume.
THEOREM TypeCorrect == Spec => []TypeOK
<1>1. Init => TypeOK
  BY VolumeAssumption DEF Init, TypeOK, Locations, NoInode, Inode
<1>. QED
  BY <1>1, TypeStep, PTL DEF Spec

(***************************************************************************)
(* Parents come first.                                                     *)
(***************************************************************************)

\* A document more: the ones before it stay where they were.
LEMMA AppendDoc ==
    ASSUME TypeOK, NEW d \in Doc, docs' = Append(docs, d)
    PROVE  /\ DOMAIN docs' = DOMAIN docs \cup {Len(docs) + 1}
           /\ Len(docs) \in Nat /\ DOMAIN docs = 1..Len(docs)
           /\ \A i \in DOMAIN docs : docs'[i] = docs[i]
           /\ docs'[Len(docs) + 1] = d
BY DEF TypeOK

\* A path and the one it was made from.
LEMMA PathAppend ==
    ASSUME NEW p \in Path, NEW n \in Names
    PROVE  /\ Append(p, n) \in Path
           /\ Front(Append(p, n)) = p
           /\ Len(Append(p, n)) > 1 => p # <<>>
<1>1. /\ Append(p, n) \in Seq(Names) /\ p \in Seq(Names) /\ Append(p, n) # <<>>
      /\ Len(Append(p, n)) = Len(p) + 1 /\ Len(p) \in Nat
      /\ \A i \in 1..Len(p) : Append(p, n)[i] = p[i]
  BY AppendProperties DEF Path
<1>2. /\ Front(Append(p, n)) \in Seq(Names)
      /\ Len(Front(Append(p, n))) = Len(p)
      /\ \A k \in DOMAIN Front(Append(p, n)) : Front(Append(p, n))[k] = Append(p, n)[k]
  <2>1. ASSUME NEW q \in Seq(Names), q # <<>>
        PROVE  /\ Front(q) \in Seq(Names)
               /\ Len(Front(q)) = Len(q) - 1
               /\ \A k \in DOMAIN Front(q) : Front(q)[k] = q[k]
    BY <2>1, FrontFacts
  <2>2. Len(Append(p, n)) - 1 = Len(p)
    BY <1>1
  <2>. QED
    BY <1>1, <2>1, <2>2, Zenon
<1>3. \A k \in 1..Len(p) : Front(Append(p, n))[k] = p[k]
  <2>1. DOMAIN Front(Append(p, n)) = 1..Len(p)
    BY <1>2, LenProperties
  <2>. QED
    BY <1>1, <1>2, <2>1
<1>4. Front(Append(p, n)) = p
  BY <1>1, <1>2, <1>3, SeqEqual
<1>. QED
  BY <1>1, <1>4 DEF Path

\* A directory that is listed after the step.
ListedNow(path) == \E j \in DOMAIN docs' : docs'[j].slash /\ docs'[j].path = path

\* The paths of the activations are the same after the step.
SamePaths ==
    /\ stack' \in Seq(Frame) /\ Len(stack') = Len(stack)
    /\ \A k \in DOMAIN stack : stack'[k].path = stack[k].path

\* A document whose directory is the topmost activation keeps parents first.
LEMMA NewDocStep ==
    ASSUME TypeOK, PrefixInv, stack # <<>>, NEW e \in Entry, NEW d \in Doc,
           d.path = Append(Top.path, e.name),
           docs' = Append(docs, d), SamePaths
    PROVE  /\ ParentFirst'
           /\ \A k \in DOMAIN stack' : stack'[k].path = <<>> \/ ListedNow(stack'[k].path)
           /\ Top'.path = Top.path
           /\ d.slash => ListedNow(d.path)
<1>1. stack # <<>> /\ stack \in Seq(Frame)
  BY DEF TypeOK
<1>2. /\ stack' \in Seq(Frame) /\ Len(stack') = Len(stack)
      /\ \A k \in DOMAIN stack : stack'[k].path = stack[k].path
      /\ DOMAIN stack' = DOMAIN stack
      /\ Len(stack) \in DOMAIN stack
  BY <1>1 DEF SamePaths
<1>3. \A p : DirListed(p) => ListedNow(p)
  BY AppendDoc DEF DirListed, ListedNow
<1>4. Top'.path = Top.path
  BY <1>2 DEF Top
<1>5. Top.path = <<>> \/ DirListed(Top.path)
  BY <1>2 DEF Top, PrefixInv
<1>6. Top.path \in Path /\ e.name \in Names
  BY <1>1, TopFacts DEF Entry
<1>7. ASSUME NEW i \in DOMAIN docs', Len(docs'[i].path) > 1
      PROVE  \E j \in 1..(i - 1) : docs'[j].slash /\ docs'[j].path = Front(docs'[i].path)
  <2>1. CASE i \in DOMAIN docs
    <3>1. docs'[i] = docs[i]
      BY <2>1, AppendDoc
    <3>2. PICK j \in 1..(i - 1) : docs[j].slash /\ docs[j].path = Front(docs[i].path)
      BY <1>7, <2>1, <3>1 DEF PrefixInv, ParentFirst
    <3>3. j \in DOMAIN docs
      BY <2>1, <3>2, AppendDoc
    <3>. QED
      BY <3>1, <3>2, <3>3, AppendDoc
  <2>2. CASE i = Len(docs) + 1
    <3>1. docs'[i] = d
      BY <2>2, AppendDoc
    <3>2. Front(d.path) = Top.path /\ Top.path # <<>>
      BY <1>6, <1>7, <3>1, PathAppend
    <3>3. PICK j \in DOMAIN docs : docs[j].slash /\ docs[j].path = Top.path
      BY <1>5, <3>2 DEF DirListed
    <3>4. j \in 1..(i - 1) /\ docs'[j] = docs[j]
      BY <2>2, <3>3, AppendDoc
    <3>. QED
      BY <3>1, <3>2, <3>3, <3>4
  <2>. QED
    BY <2>1, <2>2, AppendDoc
<1>8. ParentFirst'
  BY <1>7 DEF ParentFirst
<1>9. d.slash => ListedNow(d.path)
  BY AppendDoc DEF ListedNow
<1>10. \A k \in DOMAIN stack' : stack'[k].path = <<>> \/ ListedNow(stack'[k].path)
  BY <1>2, <1>3 DEF PrefixInv
<1>. QED
  BY <1>4, <1>8, <1>9, <1>10

\* An activation that ends leaves the others as they are.
LEMMA PopStep ==
    ASSUME TypeOK, PrefixInv, stack # <<>>, stack' = Front(stack), docs' = docs, pc' # "descend"
    PROVE  PrefixInv'
<1>1. \A k \in DOMAIN stack' : k \in DOMAIN stack /\ stack'[k] = stack[k]
  BY FrontFacts DEF TypeOK
<1>. QED
  BY <1>1 DEF PrefixInv, ParentFirst, DirListed

\* A new activation works on a path that is listed.
LEMMA PushStep ==
    ASSUME TypeOK, PrefixInv, NEW path \in Path, path = <<>> \/ DirListed(path),
           NEW b \in Blocks \cup {0}, EnterDirectory(path, b), docs' = docs
    PROVE  PrefixInv'
<1>1. pc' # "descend" /\ stack \in Seq(Frame)
  BY EnterFacts DEF TypeOK
<1>2. CASE stack' = stack
  BY <1>1, <1>2 DEF PrefixInv, ParentFirst, DirListed
<1>3. CASE stack' # stack
  <2>1. PICK todo : stack' = Append(stack, [path |-> path, todo |-> todo])
    BY <1>3, EnterFacts
  <2>2. /\ DOMAIN stack' = DOMAIN stack \cup {Len(stack) + 1}
        /\ \A k \in DOMAIN stack : stack'[k] = stack[k]
        /\ stack'[Len(stack) + 1].path = path
    BY <1>1, <2>1
  <2>. QED
    BY <1>1, <2>2 DEF PrefixInv, ParentFirst, DirListed
<1>. QED
  BY <1>2, <1>3

\* PrefixInv is kept by every step.
LEMMA PrefixStep == TypeOK /\ PrefixInv /\ [Next]_vars => PrefixInv'
<1> SUFFICES ASSUME TypeOK, PrefixInv, [Next]_vars PROVE PrefixInv'
  OBVIOUS
<1>0. ASSUME UNCHANGED <<stack, docs>>, pc' # "descend" PROVE PrefixInv'
  BY <1>0 DEF PrefixInv, ParentFirst, DirListed
<1>1. CASE OpenVolume \/ ReadJournal
  BY <1>0, <1>1 DEF OpenVolume, ReadJournal
<1>2. CASE ReadRoot
  <2>1. CASE all_inodes[RootInode].dir
    <3>1. all_inodes[RootInode].block \in Blocks \cup {0} /\ <<>> \in Path
      BY RootFacts, VolumeFacts DEF Path
    <3>. QED
      BY <1>2, <2>1, <3>1, PushStep DEF ReadRoot
  <2>2. CASE ~all_inodes[RootInode].dir
    BY <1>0, <1>2, <2>2 DEF ReadRoot
  <2>. QED
    BY <2>1, <2>2
<1>3. CASE AddDirectory
  <2>1. PICK e \in NextEntries :
           /\ AddDoc([path |-> Append(Top.path, e.name), slash |-> TRUE, text |-> Empty, calm |-> Calm])
           /\ entry' = e
           /\ stack' = Consume(e)
    BY <1>3 DEF AddDirectory
  <2>2. stack # <<>> /\ pc' = "descend"
    BY <1>3 DEF AddDirectory, TypeOK
  <2>3. e \in Entry /\ Top.path \in Path
    BY <2>2, TopFacts DEF NextEntries
  <2>4. [path |-> Append(Top.path, e.name), slash |-> TRUE, text |-> Empty, calm |-> Calm] \in Doc
    BY <2>3, DocFacts, VolumeAssumption DEF Calm, TypeOK
  <2>5. /\ ParentFirst'
        /\ \A k \in DOMAIN stack' : stack'[k].path = <<>> \/ ListedNow(stack'[k].path)
        /\ Top'.path = Top.path
        /\ ListedNow(Append(Top.path, e.name))
    BY <2>1, <2>2, <2>3, <2>4, NewDocStep, ConsumeFacts DEF AddDoc, SamePaths
  <2>. QED
    BY <2>1, <2>5, SMTT(60) DEF PrefixInv, DirListed, ListedNow
<1>4. CASE Descend
  <2>1. entry \in Entry /\ stack # <<>> /\ pc = "descend"
    BY <1>4 DEF Descend, TypeOK
  <2>2. entry.inode \in Inodes
    BY <1>4, <2>1, GetInodeFacts DEF Descend, Entry
  <2>3. all_inodes[entry.inode].block \in Blocks \cup {0}
    BY <2>2, VolumeFacts
  <2>4. Append(Top.path, entry.name) \in Path
    BY <2>1, TopFacts DEF Path, Entry
  <2>5. DirListed(Append(Top.path, entry.name))
    BY <2>1 DEF PrefixInv
  <2>. QED
    BY <1>4, <2>3, <2>4, <2>5, PushStep DEF Descend
<1>5. CASE NotADirectory \/ Return
  <2>1. stack # <<>> /\ stack' = Front(stack) /\ docs' = docs /\ pc' # "descend"
    BY <1>5 DEF NotADirectory, Return, Caller, TypeOK
  <2>. QED
    BY <2>1, PopStep
<1>6. CASE TakeFile
  <2>1. stack # <<>> /\ docs' = docs /\ pc' # "descend"
    BY <1>6 DEF TakeFile, TypeOK
  <2>2. SamePaths
    BY <1>6, <2>1, ConsumeFacts DEF TakeFile, SamePaths
  <2>3. \A k \in DOMAIN stack' : k \in DOMAIN stack /\ stack'[k].path = stack[k].path
    BY <2>2 DEF SamePaths, TypeOK
  <2>. QED
    BY <2>1, <2>3 DEF PrefixInv, ParentFirst, DirListed
<1>7. CASE AddFile
  <2>1. docs' = Append(docs, FileDoc)
    BY <1>7 DEF AddFile, AddDoc, FileDoc
  <2>2. pc' = "entry" /\ stack # <<>> /\ entry \in Entry /\ stack' = stack
    BY <1>7, FileDocFacts DEF AddFile
  <2>3. FileDoc \in Doc /\ FileDoc.path = Append(Top.path, entry.name)
    BY <1>7, FileDocFacts DEF AddFile
  <2>4. SamePaths
    BY <2>2 DEF SamePaths, TypeOK
  <2>5. /\ ParentFirst'
        /\ \A k \in DOMAIN stack' : stack'[k].path = <<>> \/ ListedNow(stack'[k].path)
    BY <2>1, <2>2, <2>3, <2>4, NewDocStep
  <2>. QED
    BY <2>2, <2>5 DEF PrefixInv, DirListed, ListedNow
<1>8. CASE LoadMetaData \/ GetInodeAborts \/ ReadFile \/ Rewrite \/ UNCHANGED vars
  <2>1. UNCHANGED <<stack, entry, docs>> /\ (pc' = "descend" => pc = "descend")
    BY <1>8, LoadFacts, ReadFileFacts DEF GetInodeAborts, Rewrite, Abort, vars
  <2>. QED
    BY <2>1 DEF PrefixInv, ParentFirst, DirListed, Top
<1>. QED
  BY <1>1, <1>2, <1>3, <1>4, <1>5, <1>6, <1>7, <1>8 DEF Next, WalkStep

\* However the walk ends, and whatever a failing device made of it, every document
\* below the root comes after the one of its directory.
THEOREM ParentsFirst == Spec => []ParentFirst
<1>1. Init => PrefixInv
  BY DEF Init, PrefixInv, ParentFirst
<1>2. PrefixInv => ParentFirst
  BY DEF PrefixInv
<1>. QED
  BY <1>1, <1>2, PrefixStep, TypeCorrect, PTL DEF Spec

(***************************************************************************)
(* Refused volumes.                                                        *)
(***************************************************************************)

\* What read_inode has checked by the time it gets there.
LEMMA AcceptedStep == TypeOK /\ AcceptedInv /\ [Next]_vars => AcceptedInv'
<1> SUFFICES ASSUME TypeOK, AcceptedInv, [Next]_vars PROVE AcceptedInv'
  OBVIOUS
<1> USE DEF AcceptedInv, InWalk
<1>1. CASE OpenVolume
  BY <1>1 DEF OpenVolume, device
<1>2. CASE ReadJournal
  BY <1>2 DEF ReadJournal, JournalAccepted, GetInode, device, tables
<1>3. CASE ReadRoot
  <2>1. /\ pc = "root" /\ GetInode(RootInode) /\ UNCHANGED <<vol, loaded, all_inodes>>
        /\ all_inodes[RootInode].dir \/ pc' = "done"
    BY <1>3 DEF ReadRoot, device, tables
  <2>2. GetInode(vol.journal)' <=> GetInode(vol.journal)
    BY <2>1 DEF GetInode
  <2>3. Group(RootInode) \in loaded
    BY <2>1 DEF GetInode
  <2>. QED
    BY <2>1, <2>2, <2>3
<1>4. CASE AddDirectory \/ TakeFile \/ Return \/ Descend \/ NotADirectory \/ ReadFile \/ AddFile
  <2>1. InWalk /\ UNCHANGED <<vol, loaded, all_inodes>>
    BY <1>4 DEF AddDirectory, TakeFile, Return, Descend, NotADirectory, ReadFile, AddFile, device, tables
  <2>2. GetInode(vol.journal)' <=> GetInode(vol.journal)
    BY <2>1 DEF GetInode
  <2>. QED
    BY <2>1, <2>2
<1>5. CASE LoadMetaData
  <2>1. vol' = vol /\ loaded \subseteq loaded' /\ pc' \in {pc, "aborted"}
    BY <1>5, LoadFacts
  <2>2. GetInode(vol.journal) =>
           GetInode(vol.journal)' /\ all_inodes'[vol.journal] = all_inodes[vol.journal]
    <3> SUFFICES ASSUME GetInode(vol.journal)
                 PROVE  GetInode(vol.journal)' /\ all_inodes'[vol.journal] = all_inodes[vol.journal]
      OBVIOUS
    <3>1. vol.journal \in Inodes
      BY VolumeFacts, GetInodeFacts
    <3>. QED
      BY <1>5, <2>1, <3>1, LoadFacts DEF GetInode
  <2>3. Group(RootInode) \in loaded => all_inodes'[RootInode] = all_inodes[RootInode]
    BY <1>5, LoadFacts, RootFacts
  <2>. QED
    BY <2>1, <2>2, <2>3
<1>6. CASE GetInodeAborts
  BY <1>6 DEF GetInodeAborts, Abort
<1>7. CASE Rewrite
  <2>1. /\ vol'.accepted = vol.accepted
        /\ vol'.extJournal = vol.extJournal
        /\ vol'.journal = vol.journal
        /\ vol'.logs = vol.logs
    BY <1>7, IndexerAssumption DEF Rewrite
  <2>2. pc' = pc /\ loaded' = loaded /\ all_inodes' = all_inodes
    BY <1>7 DEF Rewrite, tables
  <2>3. GetInode(vol.journal)' <=> GetInode(vol.journal)
    BY <2>1, <2>2 DEF GetInode
  <2>. QED
    BY <2>1, <2>2, <2>3
<1>8. CASE UNCHANGED vars
  BY <1>8 DEF vars, device, tables, GetInode
<1>. QED
  BY <1>1, <1>2, <1>3, <1>4, <1>5, <1>6, <1>7, <1>8 DEF Next, WalkStep

\* A volume the program refuses leaves no document behind.
THEOREM RefusedAddNothing == Spec => RefusedVolumesAddNothing
<1> DEFINE AllAccepted ==
         /\ vol.accepted
         /\ Group(RootInode) \in loaded /\ all_inodes[RootInode].dir
         /\ \/ vol.extJournal
            \/ /\ GetInode(vol.journal)
               /\ all_inodes[vol.journal].block \in vol.logs
<1>1. Init => AcceptedInv
  BY DEF Init, AcceptedInv, InWalk
<1>2. AcceptedInv /\ [Next]_vars => [docs' # docs => AllAccepted]_vars
  <2> SUFFICES ASSUME AcceptedInv, Next, docs' # docs PROVE AllAccepted
    OBVIOUS
  <2>1. pc \in {"entry", "add"}
    BY DEF Next, WalkStep, OpenVolume, LoadMetaData, GetInodeAborts, ReadJournal, ReadRoot,
           AddDirectory, Descend, NotADirectory, TakeFile, ReadFile, AddFile, Return, Rewrite, Abort
  <2>. QED
    BY <2>1 DEF AcceptedInv, InWalk
<1>. QED
  BY <1>1, <1>2, AcceptedStep, TypeCorrect, PTL DEF Spec, RefusedVolumesAddNothing

(***************************************************************************)
(* Each path once, on a volume of sound directories.                       *)
(***************************************************************************)

\* The path q leads through the entry called name of the directory at path, or to it.
Through(q, path, name) ==
    /\ Len(q) > Len(path)
    /\ \A i \in 1..Len(path) : q[i] = path[i]
    /\ q[Len(path) + 1] = name

\* Before the walk there is nothing.
StartsEmpty == pc \in {"superblock", "journal", "root"} => docs = <<>> /\ stack = <<>>

DirsHaveBlocks == \A ino \in Inodes : all_inodes[ino].dir => all_inodes[ino].block # 0

\* Every activation is one directory further down.
OneDeeper == \A k \in DOMAIN stack : Len(stack[k].path) = k - 1

\* Nothing that has been added, and no directory that is being walked, is at or below
\* an entry that an activation has not reached yet, ...
Unreached ==
    \A k \in DOMAIN stack :
        /\ UniqueNames(stack[k].todo)
        /\ \A e \in stack[k].todo :
              /\ \A i \in DOMAIN docs : ~Through(docs[i].path, stack[k].path, e.name)
              /\ \A j \in (k + 1)..Len(stack) : ~Through(stack[j].path, stack[k].path, e.name)

\* ... or below the entry it has just taken; of a directory, itself has been added.
JustTaken ==
    pc \in {"descend", "file", "add"} =>
        /\ \A e \in Top.todo : e.name # entry.name
        /\ \A i \in DOMAIN docs :
              Through(docs[i].path, Top.path, entry.name) =>
                  pc = "descend" /\ Len(docs[i].path) = Len(stack)

\* The inductive invariant behind EachPathOnce.
OnceInv ==
    /\ StartsEmpty
    /\ DirsHaveBlocks
    /\ OneDeeper
    /\ good => Unreached /\ JustTaken
    /\ EachPathOnce

\* A path and one step more.
LEMMA StepFacts ==
    ASSUME NEW p \in Path, NEW n
    PROVE  /\ Len(p) \in Nat
           /\ Len(Append(p, n)) = Len(p) + 1
           /\ \A i \in 1..Len(p) : Append(p, n)[i] = p[i]
           /\ Append(p, n)[Len(p) + 1] = n
BY DEF Path

\* A path through an entry of a directory further up is one of the directory.
LEMMA ThroughAbove ==
    ASSUME NEW p \in Path, NEW n, NEW path \in Path, Len(path) < Len(p), NEW name,
           Through(Append(p, n), path, name)
    PROVE  Through(p, path, name)
<1>1. Len(p) \in Nat /\ Len(path) \in Nat /\ Len(path) + 1 \in 1..Len(p)
  BY DEF Path
<1>. QED
  BY <1>1, StepFacts DEF Through

\* A path of a directory goes through the entry it ends with, and no other.
LEMMA ThroughSelf ==
    ASSUME NEW p \in Path, NEW n, NEW name
    PROVE  Through(Append(p, n), p, name) <=> n = name
BY StepFacts DEF Through

\* What is below an entry is further down.
LEMMA ThroughBelow ==
    ASSUME NEW q \in Path, NEW p \in Path, NEW n, NEW name, Through(q, Append(p, n), name)
    PROVE  Through(q, p, n) /\ Len(q) > Len(p) + 1
<1>1. Len(q) \in Nat /\ Len(p) \in Nat
  BY DEF Path
<1>2. Len(q) > Len(p) + 1 /\ \A i \in 1..(Len(p) + 1) : q[i] = Append(p, n)[i]
  BY StepFacts DEF Through
<1>3. Len(p) + 1 \in 1..(Len(p) + 1) /\ 1..Len(p) \subseteq 1..(Len(p) + 1)
  BY <1>1
<1>. QED
  BY <1>1, <1>2, <1>3, StepFacts DEF Through

\* The activations' paths and entries, and the paths of the documents.
LEMMA PathFacts ==
    ASSUME TypeOK
    PROVE  /\ Len(stack) \in Nat /\ DOMAIN stack = 1..Len(stack)
           /\ \A k \in DOMAIN stack : /\ stack[k].path \in Path
                                      /\ Len(stack[k].path) \in Nat
                                      /\ stack[k].todo \in SUBSET Entry
           /\ \A i \in DOMAIN docs : docs[i].path \in Path
<1>1. /\ stack \in Seq(Frame) /\ Len(stack) \in Nat /\ DOMAIN stack = 1..Len(stack)
      /\ \A k \in DOMAIN stack : stack[k] \in Frame
  BY DEF TypeOK
<1>2. \A f \in Frame : f.path \in Path /\ Len(f.path) \in Nat /\ f.todo \in SUBSET Entry
  BY DEF Frame, Path
<1>3. \A i \in DOMAIN docs : docs[i] \in Doc
  BY DEF TypeOK
<1>4. \A d \in Doc : d.path \in Path
  BY DEF Doc
<1>. QED
  BY <1>1, <1>2, <1>3, <1>4

\* A failed stream stays bad.
LEMMA GoodStays ==
    ASSUME TypeOK, [Next]_vars, good'
    PROVE  good
BY DEF Next, WalkStep, OpenVolume, LoadMetaData, GetInodeAborts, ReadJournal, ReadRoot,
       AddDirectory, Descend, NotADirectory, TakeFile, ReadFile, AddFile, Return, Rewrite, Abort,
       EnterDirectory, AfterReadOf, AfterRead, device, vars, TypeOK

\* Entering a directory with a block on a good stream: the frame has the entries of the
\* block, each name once.
LEMMA EnterSound ==
    ASSUME TypeOK, SoundDirectories, NEW path, NEW b \in Blocks,
           EnterDirectory(path, b)
    PROVE  /\ stack' = stack /\ pc' = "aborted"
           \/ /\ pc' = "entry"
              /\ \E todo : /\ stack' = Append(stack, [path |-> path, todo |-> todo])
                           /\ good' => UniqueNames(todo)
<1> DEFINE Enter(ok, entries) ==
         /\ good' = ok
         /\ IF (\E e \in entries : NameTooLong(e)) \/ Len(stack) = MaxDepth
            THEN pc' = "aborted" /\ UNCHANGED stack
            ELSE /\ pc' = "entry"
                 /\ stack' = Append(stack, [path |-> path, todo |-> Kept(entries)])
<1>1. PICK ok \in BOOLEAN : \E entries \in BufferEntries(b, ok) : Enter(ok, entries)
  BY DEF EnterDirectory, AfterRead, AfterReadOf, TypeOK
<1>2. PICK entries \in BufferEntries(b, ok) : Enter(ok, entries)
  BY <1>1
<1>3. good' => UniqueNames(Kept(entries))
  <2> SUFFICES ASSUME good' PROVE UniqueNames(Kept(entries))
    OBVIOUS
  <2>1. ok /\ b # 0
    BY <1>2, VolumeAssumption
  <2>2. entries = vol.dirs[b]
    BY <2>1 DEF BufferEntries
  <2>. QED
    BY <2>2 DEF SoundDirectories, TypeOK
<1>4. CASE (\E e \in entries : NameTooLong(e)) \/ Len(stack) = MaxDepth
  BY <1>2, <1>4
<1>5. CASE ~((\E e \in entries : NameTooLong(e)) \/ Len(stack) = MaxDepth)
  BY <1>2, <1>3, <1>5
<1>. QED
  BY <1>4, <1>5

\* A new activation on a path that leads through no entry that is left, and below which
\* there is no document.
LEMMA OncePush ==
    ASSUME TypeOK, SoundDirectories, OnceInv, [Next]_vars,
           NEW path \in Path, Len(path) = Len(stack),
           good => /\ \A k \in DOMAIN stack : \A e \in stack[k].todo :
                         ~Through(path, stack[k].path, e.name)
                   /\ \A i \in DOMAIN docs : \A name : ~Through(docs[i].path, path, name),
           NEW b \in Blocks, EnterDirectory(path, b), UNCHANGED <<all_inodes, docs>>
    PROVE  OnceInv'
<1>1. good' => good
  BY GoodStays
<1>2. CASE stack' = stack /\ pc' = "aborted"
  BY <1>1, <1>2 DEF OnceInv, StartsEmpty, DirsHaveBlocks, OneDeeper, Unreached, JustTaken, EachPathOnce
<1>3. CASE ~(stack' = stack /\ pc' = "aborted")
  <2>1. PICK todo : /\ pc' = "entry"
                    /\ stack' = Append(stack, [path |-> path, todo |-> todo])
                    /\ good' => UniqueNames(todo)
    BY <1>3, EnterSound
  <2> DEFINE n == Len(stack)
  <2>2. /\ n \in Nat /\ DOMAIN stack = 1..n /\ DOMAIN stack' = 1..(n + 1) /\ Len(stack') = n + 1
        /\ \A k \in 1..n : stack'[k] = stack[k]
        /\ stack'[n + 1].path = path /\ stack'[n + 1].todo = todo
    BY <2>1 DEF TypeOK
  <2> HIDE DEF n
  <2>3. OneDeeper'
    BY <2>2 DEF OnceInv, OneDeeper, n
  <2>4. ASSUME good' PROVE Unreached'
    <3>1. Unreached
      BY <1>1, <2>4 DEF OnceInv
    <3>2. ASSUME NEW k \in 1..n
          PROVE  /\ UniqueNames(stack'[k].todo)
                 /\ \A e \in stack'[k].todo :
                      /\ \A i \in DOMAIN docs : ~Through(docs[i].path, stack'[k].path, e.name)
                      /\ \A j \in (k + 1)..(n + 1) : ~Through(stack'[j].path, stack'[k].path, e.name)
      <4>1. stack'[k] = stack[k] /\ UniqueNames(stack[k].todo)
        BY <2>2, <3>1 DEF Unreached
      <4>2. ASSUME NEW e \in stack[k].todo, NEW j \in (k + 1)..(n + 1)
            PROVE  ~Through(stack'[j].path, stack[k].path, e.name)
        <5>1. CASE j = n + 1
          BY <1>1, <2>2, <2>4, <5>1
        <5>2. CASE j # n + 1
          <6>1. j \in (k + 1)..n /\ stack'[j] = stack[j]
            BY <2>2, <5>2
          <6>. QED
            BY <2>2, <3>1, <6>1 DEF Unreached, n
        <5>. QED
          BY <5>1, <5>2
      <4>. QED
        BY <2>2, <3>1, <4>1, <4>2 DEF Unreached
    <3>3. ASSUME NEW e \in todo, NEW i \in DOMAIN docs
          PROVE  ~Through(docs[i].path, path, e.name)
      BY <1>1, <2>4
    <3>. QED
      BY <2>1, <2>2, <2>4, <3>2, <3>3 DEF Unreached
  <2>. QED
    BY <1>1, <2>1, <2>3, <2>4 DEF OnceInv, StartsEmpty, DirsHaveBlocks, JustTaken, EachPathOnce
<1>. QED
  BY <1>2, <1>3

\* An activation that ends.
LEMMA OncePop ==
    ASSUME TypeOK, OnceInv, [Next]_vars, stack # <<>>, stack' = Front(stack),
           pc' \in {"entry", "done"}, UNCHANGED <<all_inodes, docs>>
    PROVE  OnceInv'
<1>1. good' => good
  BY GoodStays
<1>2. /\ Len(stack) \in Nat /\ DOMAIN stack = 1..Len(stack)
      /\ Len(stack') = Len(stack) - 1 /\ DOMAIN stack' \subseteq DOMAIN stack
      /\ \A k \in DOMAIN stack' : stack'[k] = stack[k]
      /\ DOMAIN stack' = 1..Len(stack')
  <2>1. stack \in Seq(Frame) /\ stack' \in Seq(Frame)
    BY FrontFacts DEF TypeOK
  <2>. QED
    BY <2>1, FrontFacts DEF TypeOK
<1>3. OneDeeper'
  BY <1>2 DEF OnceInv, OneDeeper
<1>4. ASSUME good' PROVE Unreached'
  <2>1. Unreached
    BY <1>1, <1>4 DEF OnceInv
  <2> SUFFICES ASSUME NEW k \in DOMAIN stack'
               PROVE  /\ UniqueNames(stack'[k].todo)
                      /\ \A e \in stack'[k].todo :
                           /\ \A i \in DOMAIN docs : ~Through(docs[i].path, stack'[k].path, e.name)
                           /\ \A j \in (k + 1)..Len(stack') :
                                ~Through(stack'[j].path, stack'[k].path, e.name)
    BY DEF Unreached
  <2>2. k \in DOMAIN stack /\ stack'[k] = stack[k]
    BY <1>2
  <2>3. \A j \in (k + 1)..Len(stack') : j \in (k + 1)..Len(stack) /\ stack'[j] = stack[j]
    BY <1>2
  <2>. QED
    BY <2>1, <2>2, <2>3 DEF Unreached
<1>. QED
  BY <1>1, <1>3, <1>4 DEF OnceInv, StartsEmpty, DirsHaveBlocks, JustTaken, EachPathOnce

\* The topmost activation takes an entry, which becomes a document first if it is a
\* directory.
LEMMA OnceTake ==
    ASSUME TypeOK, OnceInv, [Next]_vars, stack # <<>>, NEW e \in Top.todo, stack' = Consume(e),
           entry' = e, all_inodes' = all_inodes,
           \/ pc' = "file" /\ docs' = docs
           \/ /\ pc' = "descend"
              /\ \E d \in Doc : docs' = Append(docs, d) /\ d.path = Append(Top.path, e.name)
    PROVE  OnceInv'
<1> DEFINE n == Len(stack)
           p == Top.path
<1>1. good' => good
  BY GoodStays
<1>2. /\ n \in Nat /\ DOMAIN stack = 1..n /\ n \in 1..n
      /\ \A k \in 1..n : stack[k].path \in Path
      /\ \A i \in DOMAIN docs : docs[i].path \in Path
      /\ stack[n] = Top /\ Len(p) = n - 1 /\ p \in Path /\ e.name \in Names
      /\ \A k \in 1..n : Len(stack[k].path) = k - 1
  BY PathFacts, TopFacts DEF Top, OnceInv, OneDeeper, Entry
<1>3. /\ DOMAIN stack' = 1..n /\ Len(stack') = n
      /\ \A k \in 1..n : stack'[k].path = stack[k].path
      /\ \A k \in 1..n : stack'[k].todo \subseteq stack[k].todo
      /\ stack'[n].todo = Top.todo \ {e}
      /\ Top' = stack'[n]
  <2>1. /\ stack \in Seq(Frame) /\ \A k \in 1..n : stack[k] \in Frame
    BY DEF TypeOK
  <2>2. stack' = [stack EXCEPT ![n] = [stack[n] EXCEPT !.todo = @ \ {e}]]
    BY DEF Consume
  <2>3. [stack[n] EXCEPT !.todo = @ \ {e}] \in Frame
    BY <1>2, <2>1 DEF Frame
  <2>4. /\ [stack[n] EXCEPT !.todo = @ \ {e}].path = stack[n].path
        /\ [stack[n] EXCEPT !.todo = @ \ {e}].todo = stack[n].todo \ {e}
    BY <1>2, <2>1 DEF Frame
  <2>5. stack' \in Seq(Frame) /\ Len(stack') = n
    BY <2>1, <2>2, <2>3
  <2>. QED
    BY <1>2, <2>1, <2>2, <2>4, <2>5 DEF Top
<1> HIDE DEF n, p
<1>4. /\ OneDeeper' /\ StartsEmpty' /\ DirsHaveBlocks'
  BY <1>2, <1>3 DEF OnceInv, OneDeeper, StartsEmpty, DirsHaveBlocks
\* The documents are the old ones, none of which leads through e, and perhaps that of e.
<1>5. /\ DOMAIN docs \subseteq DOMAIN docs'
      /\ \A i \in DOMAIN docs : docs'[i] = docs[i]
      /\ \A i \in DOMAIN docs' \ DOMAIN docs :
            pc' = "descend" /\ docs'[i].path = Append(p, e.name) /\ i = Len(docs) + 1
  <2>1. CASE docs' = docs
    BY <2>1
  <2>2. CASE docs' # docs
    <3>1. PICK d \in Doc : docs' = Append(docs, d) /\ d.path = Append(p, e.name) /\ pc' = "descend"
      BY <2>2 DEF p
    <3>. QED
      BY <3>1, AppendDoc
  <2>. QED
    BY <2>1, <2>2
<1>6. ASSUME good PROVE \A i \in DOMAIN docs : ~Through(docs[i].path, p, e.name)
  BY <1>2, <1>6 DEF OnceInv, Unreached, p
<1>7. ASSUME good' PROVE Unreached'
  <2>1. Unreached
    BY <1>1, <1>7 DEF OnceInv
  <2> SUFFICES ASSUME NEW k \in 1..n
               PROVE  /\ UniqueNames(stack'[k].todo)
                      /\ \A f \in stack'[k].todo :
                           /\ \A i \in DOMAIN docs' : ~Through(docs'[i].path, stack'[k].path, f.name)
                           /\ \A j \in (k + 1)..n : ~Through(stack'[j].path, stack'[k].path, f.name)
    BY <1>3 DEF Unreached
  <2>2. UniqueNames(stack'[k].todo)
    BY <1>2, <1>3, <2>1 DEF Unreached, UniqueNames
  <2>3. ASSUME NEW f \in stack'[k].todo, NEW i \in DOMAIN docs'
        PROVE  ~Through(docs'[i].path, stack[k].path, f.name)
    <3>1. f \in stack[k].todo
      BY <1>3
    <3>2. CASE i \in DOMAIN docs
      BY <1>2, <1>5, <2>1, <3>1, <3>2 DEF Unreached
    <3>3. CASE i \notin DOMAIN docs
      <4>1. docs'[i].path = Append(p, e.name)
        BY <1>5, <3>3
      <4>2. CASE k = n
        <5>1. UniqueNames(Top.todo) /\ f \in Top.todo /\ f # e
          BY <1>2, <1>3, <2>1, <4>2 DEF Unreached
        <5>2. f.name # e.name
          BY <5>1 DEF UniqueNames
        <5>3. ~Through(Append(p, e.name), p, f.name)
          BY <1>2, <5>2, ThroughSelf
        <5>. QED
          BY <1>2, <4>1, <4>2, <5>3 DEF p
      <4>3. CASE k # n
        <5>1. n \in (k + 1)..n /\ Len(stack[k].path) < Len(p)
          BY <1>2, <4>3
        <5>2. ~Through(stack[n].path, stack[k].path, f.name)
          BY <1>2, <2>1, <3>1, <5>1 DEF Unreached, n
        <5>3. stack[n].path = p /\ stack[k].path \in Path
          BY <1>2 DEF p
        <5>4. ~Through(Append(p, e.name), stack[k].path, f.name)
          BY <1>2, <5>1, <5>2, <5>3, ThroughAbove
        <5>. QED
          BY <4>1, <5>4
      <4>. QED
        BY <4>2, <4>3
    <3>. QED
      BY <3>2, <3>3
  <2>4. ASSUME NEW f \in stack'[k].todo, NEW j \in (k + 1)..n
        PROVE  ~Through(stack'[j].path, stack[k].path, f.name)
    <3>1. f \in stack[k].todo /\ stack'[j].path = stack[j].path
      BY <1>2, <1>3
    <3>. QED
      BY <1>2, <2>1, <3>1 DEF Unreached, n
  <2>. QED
    BY <1>3, <2>2, <2>3, <2>4
<1>8. ASSUME good' PROVE JustTaken'
  <2>1. Unreached
    BY <1>1, <1>8 DEF OnceInv
  <2>2. \A f \in Top'.todo : f.name # entry'.name
    <3>1. UniqueNames(Top.todo)
      BY <1>2, <2>1 DEF Unreached, n, Top
    <3>2. Top'.todo = Top.todo \ {e} /\ entry' = e /\ e \in Top.todo
      BY <1>2, <1>3
    <3>. QED
      BY <3>1, <3>2 DEF UniqueNames
  <2>3. Top'.path = p
    BY <1>2, <1>3 DEF p
  <2>4. ASSUME NEW i \in DOMAIN docs', Through(docs'[i].path, p, entry'.name)
        PROVE  pc' = "descend" /\ Len(docs'[i].path) = Len(stack')
    <3>1. i \notin DOMAIN docs
      BY <1>1, <1>5, <1>6, <1>8, <2>4
    <3>2. pc' = "descend" /\ docs'[i].path = Append(p, e.name)
      BY <1>5, <3>1
    <3>. QED
      BY <1>2, <1>3, <3>2, StepFacts
  <2>. QED
    BY <2>2, <2>3, <2>4 DEF JustTaken
<1>9. EachPathOnce'
  <2> SUFFICES ASSUME good', NEW i \in DOMAIN docs', NEW j \in DOMAIN docs',
                      docs'[i].path = docs'[j].path
               PROVE  i = j
    BY DEF EachPathOnce
  <2>1. Through(Append(p, e.name), p, e.name)
    BY <1>2, ThroughSelf
  <2>2. \A k \in DOMAIN docs : docs[k].path # Append(p, e.name)
    BY <1>1, <1>6, <2>1
  <2>3. \A k, l \in DOMAIN docs : docs[k].path = docs[l].path => k = l
    BY <1>1 DEF OnceInv, EachPathOnce
  <2>4. ASSUME NEW k \in DOMAIN docs' PROVE
           IF k \in DOMAIN docs THEN docs'[k] = docs[k] /\ docs'[k].path # Append(p, e.name)
           ELSE docs'[k].path = Append(p, e.name) /\ k = Len(docs) + 1
    BY <1>5, <2>2
  <2>5. CASE i \in DOMAIN docs /\ j \in DOMAIN docs
    BY <2>3, <2>4, <2>5
  <2>6. CASE i \notin DOMAIN docs
    <3>1. docs'[i].path = Append(p, e.name) /\ i = Len(docs) + 1
      BY <2>4, <2>6
    <3>2. j \notin DOMAIN docs
      BY <2>4, <3>1
    <3>. QED
      BY <2>4, <3>1, <3>2
  <2>7. CASE i \in DOMAIN docs /\ j \notin DOMAIN docs
    BY <2>4, <2>7
  <2>. QED
    BY <2>5, <2>6, <2>7
<1>. QED
  BY <1>4, <1>7, <1>8, <1>9 DEF OnceInv

\* A file becomes a document.
LEMMA OnceFile ==
    ASSUME TypeOK, OnceInv, [Next]_vars, stack # <<>>, pc = "add", pc' = "entry",
           UNCHANGED <<all_inodes, stack>>,
           NEW d \in Doc, docs' = Append(docs, d), d.path = Append(Top.path, entry.name)
    PROVE  OnceInv'
<1> DEFINE n == Len(stack)
           p == Top.path
<1>1. good' => good
  BY GoodStays
<1>2. /\ n \in Nat /\ DOMAIN stack = 1..n /\ n \in 1..n
      /\ \A k \in 1..n : stack[k].path \in Path
      /\ \A i \in DOMAIN docs : docs[i].path \in Path
      /\ stack[n] = Top /\ p \in Path /\ Len(p) = n - 1
      /\ \A k \in 1..n : Len(stack[k].path) = k - 1
  BY PathFacts, TopFacts DEF Top, OnceInv, OneDeeper
<1>3. /\ DOMAIN docs' = DOMAIN docs \cup {Len(docs) + 1} /\ Len(docs) + 1 \notin DOMAIN docs
      /\ \A i \in DOMAIN docs : docs'[i] = docs[i]
      /\ docs'[Len(docs) + 1].path = Append(p, entry.name)
  BY AppendDoc DEF p
<1>4. good => /\ Unreached
              /\ \A f \in Top.todo : f.name # entry.name
              /\ \A i \in DOMAIN docs : ~Through(docs[i].path, p, entry.name)
  BY DEF OnceInv, JustTaken, p
<1> HIDE DEF n, p
<1>5. ASSUME good' PROVE Unreached'
  <2> SUFFICES ASSUME NEW k \in 1..n, NEW f \in stack[k].todo, NEW i \in DOMAIN docs'
               PROVE  ~Through(docs'[i].path, stack[k].path, f.name)
    BY <1>1, <1>2, <1>4, <1>5 DEF Unreached
  <2>1. CASE i \in DOMAIN docs
    BY <1>1, <1>2, <1>3, <1>4, <1>5, <2>1 DEF Unreached
  <2>2. CASE i = Len(docs) + 1
    <3>1. CASE k = n
      <4>1. f.name # entry.name /\ stack[k].path = p
        BY <1>1, <1>2, <1>4, <1>5, <3>1 DEF p
      <4>2. ~Through(Append(p, entry.name), p, f.name)
        BY <1>2, <4>1, ThroughSelf
      <4>. QED
        BY <1>3, <2>2, <4>1, <4>2
    <3>2. CASE k # n
      <4>1. n \in (k + 1)..n /\ Len(stack[k].path) < Len(p) /\ stack[n].path = p
        <5>1. k \in Nat /\ k < n /\ Len(stack[k].path) = k - 1 /\ Len(p) = n - 1
          BY <1>2, <3>2
        <5>. QED
          BY <1>2, <5>1 DEF p
      <4>2. ~Through(stack[n].path, stack[k].path, f.name)
        BY <1>1, <1>2, <1>4, <1>5, <4>1 DEF Unreached, n
      <4>3. ~Through(Append(p, entry.name), stack[k].path, f.name)
        BY <1>2, <4>1, <4>2, ThroughAbove
      <4>. QED
        BY <1>3, <2>2, <4>3
    <3>. QED
      BY <3>1, <3>2
  <2>. QED
    BY <1>3, <2>1, <2>2
<1>6. EachPathOnce'
  <2>1. Through(Append(p, entry.name), p, entry.name)
    BY <1>2, ThroughSelf
  <2>2. good => \A i \in DOMAIN docs : docs[i].path # Append(p, entry.name)
    BY <1>4, <2>1
  <2> SUFFICES ASSUME good', NEW i \in DOMAIN docs', NEW j \in DOMAIN docs',
                      docs'[i].path = docs'[j].path
               PROVE  i = j
    BY DEF EachPathOnce
  <2>3. \A k, l \in DOMAIN docs : docs[k].path = docs[l].path => k = l
    BY <1>1 DEF OnceInv, EachPathOnce
  <2>. QED
    BY <1>1, <1>3, <2>2, <2>3
<1>. QED
  BY <1>5, <1>6 DEF OnceInv, StartsEmpty, DirsHaveBlocks, OneDeeper, JustTaken

\* OnceInv is kept by every step.
LEMMA OnceStep == SoundDirectories /\ TypeOK /\ OnceInv /\ [Next]_vars => OnceInv'
<1> SUFFICES ASSUME SoundDirectories, TypeOK, OnceInv, [Next]_vars PROVE OnceInv'
  OBVIOUS
<1>0. good' => good
  BY GoodStays
<1>1. ASSUME UNCHANGED <<stack, docs, all_inodes>>, pc' \notin {"descend", "file", "add"},
             pc' \in {"superblock", "journal", "root"} => pc \in {"superblock", "journal", "root"}
      PROVE  OnceInv'
  <2>0. stack' = stack /\ docs' = docs /\ all_inodes' = all_inodes
    BY <1>1
  <2>1. (Unreached => Unreached') /\ (good' /\ EachPathOnce => EachPathOnce')
    BY <1>0, <2>0 DEF Unreached, EachPathOnce
  <2>2. JustTaken'
    BY <1>1 DEF JustTaken
  <2>3. StartsEmpty' /\ OneDeeper' /\ DirsHaveBlocks'
    BY <1>1, <2>0 DEF OnceInv, StartsEmpty, OneDeeper, DirsHaveBlocks
  <2>4. EachPathOnce'
    BY <1>0, <2>1 DEF OnceInv, EachPathOnce
  <2>. QED
    BY <1>0, <2>1, <2>2, <2>3, <2>4 DEF OnceInv
<1>2. ASSUME UNCHANGED <<stack, docs, entry>>,
             pc' = pc \/ (pc = "file" /\ pc' = "add"),
             \A ino \in Inodes : all_inodes'[ino].dir => all_inodes'[ino].block # 0
      PROVE  OnceInv'
  <2>0. /\ stack' = stack /\ docs' = docs /\ entry' = entry
        /\ pc' = pc \/ (pc = "file" /\ pc' = "add")
    BY <1>2
  <2>1. Top' = Top /\ (Unreached => Unreached') /\ (good' /\ EachPathOnce => EachPathOnce')
    BY <1>0, <2>0 DEF Top, Unreached, EachPathOnce
  <2>2. JustTaken => JustTaken'
    BY <2>0, <2>1 DEF JustTaken
  <2>3. StartsEmpty' /\ OneDeeper'
    BY <2>0 DEF OnceInv, StartsEmpty, OneDeeper
  <2>4. DirsHaveBlocks'
    BY <1>2 DEF DirsHaveBlocks
  <2>5. EachPathOnce'
    BY <1>0, <2>1 DEF OnceInv, EachPathOnce
  <2>. QED
    BY <1>0, <2>1, <2>2, <2>3, <2>4, <2>5 DEF OnceInv
<1>3. CASE OpenVolume \/ ReadJournal
  BY <1>1, <1>3 DEF OpenVolume, ReadJournal, tables
<1>4. CASE LoadMetaData
  <2>1. \A ino \in Inodes : vol.inodes[ino].dir => vol.inodes[ino].block # 0
    BY DEF SoundDirectories, TypeOK
  <2>2. \A ino \in Inodes : all_inodes'[ino].dir => all_inodes'[ino].block # 0
    BY <1>4, <2>1, LoadFacts DEF OnceInv, DirsHaveBlocks, NoInode
  <2>3. CASE pc' = pc
    BY <1>2, <1>4, <2>2, <2>3, LoadFacts
  <2>4. CASE pc' = "aborted"
    <3>0. stack' = stack /\ docs' = docs
      BY <1>4, LoadFacts
    <3>1. (Unreached => Unreached') /\ (good' /\ EachPathOnce => EachPathOnce')
      BY <1>0, <3>0 DEF Unreached, EachPathOnce
    <3>2. JustTaken' /\ StartsEmpty' /\ OneDeeper' /\ DirsHaveBlocks'
      BY <2>2, <2>4, <3>0 DEF OnceInv, JustTaken, StartsEmpty, OneDeeper, DirsHaveBlocks
    <3>3. EachPathOnce'
      BY <1>0, <3>1 DEF OnceInv, EachPathOnce
    <3>. QED
      BY <1>0, <3>1, <3>2, <3>3 DEF OnceInv
  <2>. QED
    BY <1>4, <2>3, <2>4, LoadFacts
<1>5. CASE GetInodeAborts
  BY <1>1, <1>5 DEF GetInodeAborts, Abort, tables
<1>6. CASE ReadRoot
  <2>1. stack = <<>> /\ docs = <<>> /\ all_inodes' = all_inodes /\ docs' = docs
    BY <1>6 DEF ReadRoot, OnceInv, StartsEmpty, tables
  <2>2. CASE all_inodes[RootInode].dir
    <3>1. all_inodes[RootInode].block \in Blocks
      BY <2>2, RootFacts, VolumeFacts DEF OnceInv, DirsHaveBlocks
    <3>2. <<>> \in Path /\ Len(<<>>) = Len(stack) /\ DOMAIN stack = {} /\ DOMAIN docs = {}
      BY <2>1 DEF Path
    <3>3. EnterDirectory(<<>>, all_inodes[RootInode].block)
      BY <1>6, <2>2 DEF ReadRoot
    <3>. QED
      BY <2>1, <3>1, <3>2, <3>3, OncePush
  <2>3. CASE ~all_inodes[RootInode].dir
    BY <1>1, <1>6, <2>3 DEF ReadRoot, tables
  <2>. QED
    BY <2>2, <2>3
<1>7. CASE AddDirectory
  <2>1. PICK e \in NextEntries :
           /\ AddDoc([path |-> Append(Top.path, e.name), slash |-> TRUE, text |-> Empty, calm |-> Calm])
           /\ entry' = e
           /\ stack' = Consume(e)
    BY <1>7 DEF AddDirectory
  <2>2. stack # <<>> /\ pc' = "descend" /\ all_inodes' = all_inodes
    BY <1>7 DEF AddDirectory, TypeOK, tables
  <2>3. e \in Top.todo /\ e \in Entry /\ Top.path \in Path
    BY <2>2, TopFacts DEF NextEntries
  <2> DEFINE d == [path |-> Append(Top.path, e.name), slash |-> TRUE, text |-> Empty, calm |-> Calm]
  <2>4. d \in Doc /\ d.path = Append(Top.path, e.name)
    BY <2>3, DocFacts, VolumeAssumption DEF Calm, TypeOK
  <2>5. docs' = Append(docs, d)
    BY <2>1 DEF AddDoc
  <2> HIDE DEF d
  <2>. QED
    BY <2>1, <2>2, <2>3, <2>4, <2>5, OnceTake
<1>8. CASE Descend
  <2>1. entry \in Entry /\ stack # <<>> /\ pc = "descend" /\ all_inodes' = all_inodes /\ docs' = docs
    BY <1>8 DEF Descend, TypeOK, tables
  <2>2. entry.inode \in Inodes /\ all_inodes[entry.inode].dir
    BY <1>8, <2>1, GetInodeFacts DEF Descend, Entry
  <2>3. all_inodes[entry.inode].block \in Blocks
    BY <2>2, VolumeFacts DEF OnceInv, DirsHaveBlocks
  <2> DEFINE p == Top.path
             path == Append(p, entry.name)
             n == Len(stack)
  <2>4. /\ n \in Nat /\ DOMAIN stack = 1..n /\ n \in 1..n
        /\ \A k \in 1..n : stack[k].path \in Path /\ Len(stack[k].path) = k - 1
        /\ \A i \in DOMAIN docs : docs[i].path \in Path
        /\ stack[n] = Top /\ p \in Path /\ Len(p) = n - 1
    BY <2>1, PathFacts, TopFacts DEF Top, OnceInv, OneDeeper
  <2>5. path \in Path /\ Len(path) = n
    <3>1. entry.name \in Names
      BY <2>1 DEF Entry
    <3> HIDE DEF n, p
    <3>2. path \in Path
      BY <2>4, <3>1, PathAppend
    <3>3. Len(path) = Len(p) + 1
      BY <2>4, StepFacts
    <3>4. Len(p) + 1 = n
      BY <2>4
    <3>. QED
      BY <3>2, <3>3, <3>4
  <2>6. EnterDirectory(path, all_inodes[entry.inode].block)
    BY <1>8 DEF Descend
  <2>7. good => /\ Unreached
                /\ \A f \in Top.todo : f.name # entry.name
                /\ \A i \in DOMAIN docs : Through(docs[i].path, p, entry.name) => Len(docs[i].path) = n
    BY <2>1 DEF OnceInv, JustTaken
  <2> HIDE DEF n, p
  <2>8. ASSUME good, NEW k \in 1..n, NEW f \in stack[k].todo
        PROVE  ~Through(path, stack[k].path, f.name)
    <3>1. CASE k = n
      BY <2>4, <2>7, <2>8, <3>1, ThroughSelf DEF p
    <3>2. CASE k # n
      <4>1. n \in (k + 1)..n /\ Len(stack[k].path) < Len(p) /\ stack[n].path = p
        <5>1. k \in Nat /\ k < n /\ Len(stack[k].path) = k - 1 /\ Len(p) = n - 1
          BY <2>4, <3>2
        <5>. QED
          BY <2>4, <5>1 DEF p
      <4>2. ~Through(stack[n].path, stack[k].path, f.name)
        BY <2>4, <2>7, <2>8, <4>1 DEF Unreached, n
      <4>. QED
        BY <2>4, <4>1, <4>2, ThroughAbove
    <3>. QED
      BY <3>1, <3>2
  <2>9. ASSUME good, NEW i \in DOMAIN docs, NEW name
        PROVE  ~Through(docs[i].path, path, name)
    <3> SUFFICES ASSUME Through(docs[i].path, path, name) PROVE FALSE
      OBVIOUS
    <3>1. Through(docs[i].path, p, entry.name) /\ Len(docs[i].path) > Len(p) + 1
      BY <2>4, ThroughBelow
    <3>2. Len(docs[i].path) = n
      BY <2>7, <2>9, <3>1
    <3>. QED
      BY <2>4, <3>1, <3>2
  <2> HIDE DEF path
  <2>10. good => /\ \A k \in DOMAIN stack : \A f \in stack[k].todo :
                        ~Through(path, stack[k].path, f.name)
                 /\ \A i \in DOMAIN docs : \A name : ~Through(docs[i].path, path, name)
    BY <2>4, <2>8, <2>9
  <2>. QED
    BY <2>1, <2>3, <2>5, <2>6, <2>10, OncePush DEF n
<1>9. CASE NotADirectory \/ Return
  <2>1. /\ stack # <<>> /\ stack' = Front(stack) /\ docs' = docs /\ all_inodes' = all_inodes
        /\ pc' \in {"entry", "done"}
    BY <1>9 DEF NotADirectory, Return, Caller, TypeOK, tables
  <2>. QED
    BY <2>1, OncePop
<1>10. CASE TakeFile
  <2>1. PICK e \in NextEntries : entry' = e /\ stack' = Consume(e)
    BY <1>10 DEF TakeFile
  <2>2. stack # <<>> /\ pc' = "file" /\ all_inodes' = all_inodes /\ docs' = docs
    BY <1>10 DEF TakeFile, TypeOK, tables
  <2>3. e \in Top.todo
    BY DEF NextEntries
  <2>. QED
    BY <2>1, <2>2, <2>3, OnceTake
<1>11. CASE AddFile
  <2>1. docs' = Append(docs, FileDoc)
    BY <1>11 DEF AddFile, AddDoc, FileDoc
  <2>2. /\ pc = "add" /\ pc' = "entry" /\ stack # <<>>
        /\ stack' = stack /\ all_inodes' = all_inodes
    BY <1>11, FileDocFacts DEF AddFile, tables
  <2>3. FileDoc \in Doc /\ FileDoc.path = Append(Top.path, entry.name)
    BY <2>2, FileDocFacts
  <2>. QED
    BY <2>1, <2>2, <2>3, OnceFile
<1>13. CASE ReadFile
  BY <1>2, <1>13, ReadFileFacts DEF OnceInv, DirsHaveBlocks
<1>12. CASE Rewrite \/ UNCHANGED vars
  <2>1. UNCHANGED <<stack, docs, entry, pc, all_inodes>>
    BY <1>12 DEF Rewrite, vars, tables
  <2>. QED
    BY <1>2, <2>1 DEF OnceInv, DirsHaveBlocks
<1>. QED
  BY <1>3, <1>4, <1>5, <1>6, <1>7, <1>8, <1>9, <1>10, <1>11, <1>12, <1>13 DEF Next, WalkStep

\* No path is added twice while no read has failed: not by the recursion, not after a
\* directory was given up half-way, and not by a writer who moves directories about.
THEOREM PathsOnce == ASSUME SoundDirectories PROVE Spec => []EachPathOnce
<1>1. Init => OnceInv
  BY DEF Init, OnceInv, StartsEmpty, DirsHaveBlocks, OneDeeper, Unreached, JustTaken,
         EachPathOnce, NoInode
<1>2. TypeOK /\ OnceInv /\ [Next]_vars => OnceInv'
  BY OnceStep
<1>3. OnceInv => EachPathOnce
  BY DEF OnceInv
<1>. QED
  BY <1>1, <1>2, <1>3, TypeCorrect, PTL DEF Spec

(***************************************************************************)
(* Documents of the volume.                                                *)
(***************************************************************************)

\* The recursive function Along exists, so that its equations are facts.
LEMMA AlongFacts ==
    ASSUME NEW v, NEW path \in Path
    PROVE  /\ Along(v, path)[0] = RootInode
           /\ \A n \in 1..Len(path) : Along(v, path)[n] = Step(v, Along(v, path)[n - 1], path[n])
<1> DEFINE L == Len(path)
           Is(f, k) == f = [n \in 0..k |-> IF n = 0 THEN RootInode ELSE Step(v, f[n - 1], path[n])]
           Reaches == {k \in Nat : \E f : Is(f, k)}
<1>1. L \in Nat
  BY DEF Path
<1> HIDE DEF L
<1>2. 0 \in Reaches
  <2>1. Is([n \in 0..0 |-> RootInode], 0)
    OBVIOUS
  <2>. QED
    BY <2>1
<1>3. ASSUME NEW k \in Nat, k \in Reaches PROVE k + 1 \in Reaches
  <2>1. PICK f : Is(f, k)
    BY <1>3
  <2> DEFINE g == [n \in 0..(k + 1) |-> IF n = k + 1 THEN Step(v, f[k], path[k + 1]) ELSE f[n]]
  <2>2. \A n \in 0..k : f[n] = IF n = 0 THEN RootInode ELSE Step(v, f[n - 1], path[n])
    BY <2>1
  <2>3. \A n \in 0..(k + 1) : g[n] = IF n = 0 THEN RootInode ELSE Step(v, g[n - 1], path[n])
    <3> SUFFICES ASSUME NEW n \in 0..(k + 1)
                 PROVE  g[n] = IF n = 0 THEN RootInode ELSE Step(v, g[n - 1], path[n])
      OBVIOUS
    <3>1. CASE n = k + 1
      <4>1. n # 0 /\ n - 1 = k /\ k \in 0..(k + 1) /\ k # k + 1
        BY <3>1
      <4>2. g[n - 1] = f[k] /\ g[n] = Step(v, f[k], path[k + 1])
        BY <3>1, <4>1
      <4>. QED
        BY <3>1, <4>1, <4>2
    <3>2. CASE n # k + 1 /\ n # 0
      <4>1. n \in 0..k /\ n - 1 \in 0..(k + 1) /\ n - 1 # k + 1
        BY <3>2
      <4>2. g[n] = f[n] /\ g[n - 1] = f[n - 1]
        BY <3>2, <4>1
      <4>. QED
        BY <2>2, <3>2, <4>1, <4>2
    <3>3. CASE n = 0
      <4>1. 0 \in 0..k /\ 0 # k + 1 /\ 0 \in 0..(k + 1)
        OBVIOUS
      <4>2. g[0] = f[0] /\ f[0] = RootInode
        BY <2>2, <4>1
      <4>. QED
        BY <3>3, <4>2
    <3>. QED
      BY <3>1, <3>2, <3>3
  <2>4. DOMAIN g = 0..(k + 1)
    OBVIOUS
  <2>5. g = [n \in 0..(k + 1) |-> g[n]]
    BY <2>4
  <2> HIDE DEF g
  <2>6. Is(g, k + 1)
    BY <2>3, <2>5
  <2>. QED
    BY <2>6
<1>4. L \in Reaches
  <2> HIDE DEF Reaches
  <2>. QED
    BY <1>1, <1>2, <1>3, Induction
<1>5. \E f : Is(f, L)
  BY <1>4
<1>6. Along(v, path) = CHOOSE f : Is(f, L)
  BY DEF Along, L
<1>7. Is(Along(v, path), L)
  BY <1>5, <1>6
<1>8. \A n \in 0..L : Along(v, path)[n] = IF n = 0 THEN RootInode
                                                  ELSE Step(v, Along(v, path)[n - 1], path[n])
  <2> DEFINE A == Along(v, path)
  <2>1. A = [n \in 0..L |-> IF n = 0 THEN RootInode ELSE Step(v, A[n - 1], path[n])]
    BY <1>7
  <2> HIDE DEF A
  <2>2. \A n \in 0..L : A[n] = IF n = 0 THEN RootInode ELSE Step(v, A[n - 1], path[n])
    BY <2>1
  <2>. QED
    BY <2>2 DEF A
<1>9. 0 \in 0..L /\ \A n \in 1..L : n \in 0..L /\ n # 0
  BY <1>1
<1>. QED
  BY <1>8, <1>9 DEF L

\* What is longer starts the same way.
LEMMA AlongAppend ==
    ASSUME NEW v, NEW p \in Path, NEW x, Append(p, x) \in Path
    PROVE  /\ \A n \in 0..Len(p) : Along(v, Append(p, x))[n] = Along(v, p)[n]
           /\ Along(v, Append(p, x))[Len(p) + 1] = Step(v, Lookup(v, p), x)
<1> DEFINE q == Append(p, x)
           Agree == {n \in Nat : n <= Len(p) => Along(v, q)[n] = Along(v, p)[n]}
<1>1. /\ Len(p) \in Nat /\ Len(q) = Len(p) + 1
      /\ \A i \in 1..Len(p) : q[i] = p[i]
      /\ q[Len(p) + 1] = x
  BY StepFacts
<1>2. 0 \in Agree
  BY AlongFacts
<1> HIDE DEF q
<1>3. ASSUME NEW n \in Nat, n \in Agree PROVE n + 1 \in Agree
  <2> SUFFICES ASSUME n + 1 <= Len(p) PROVE Along(v, q)[n + 1] = Along(v, p)[n + 1]
    OBVIOUS
  <2>1. n + 1 \in 1..Len(p) /\ n + 1 \in 1..Len(q) /\ (n + 1) - 1 = n /\ n <= Len(p)
    BY <1>1
  <2>2. Along(v, q)[n] = Along(v, p)[n]
    BY <1>3, <2>1
  <2>3. Along(v, q)[n + 1] = Step(v, Along(v, q)[n], q[n + 1])
    BY <2>1, AlongFacts DEF q
  <2>4. Along(v, p)[n + 1] = Step(v, Along(v, p)[n], p[n + 1])
    BY <2>1, AlongFacts
  <2>. QED
    BY <1>1, <2>1, <2>2, <2>3, <2>4
<1>4. \A n \in Nat : n \in Agree
  <2> HIDE DEF Agree
  <2>. QED
    BY <1>2, <1>3, Induction
<1>5. \A n \in 0..Len(p) : Along(v, q)[n] = Along(v, p)[n]
  BY <1>1, <1>4
<1>6. Along(v, q)[Len(p) + 1] = Step(v, Along(v, q)[Len(p)], x)
  <2>1. Len(p) + 1 \in 1..Len(q) /\ (Len(p) + 1) - 1 = Len(p)
    BY <1>1
  <2>2. Along(v, q)[Len(p) + 1] = Step(v, Along(v, q)[(Len(p) + 1) - 1], q[Len(p) + 1])
    BY <2>1, AlongFacts DEF q
  <2>. QED
    BY <1>1, <2>1, <2>2
<1>7. Along(v, q)[Len(p)] = Along(v, p)[Len(p)]
  BY <1>1, <1>5
<1>. QED
  BY <1>5, <1>6, <1>7 DEF q, Lookup

\* While the way to it is undisturbed, the path names the inode.
NamesInode(path, ino) == Undisturbed(path) => Lookup(vol, path) = ino

\* The entries an activation has not reached yet, and the one just taken, are entries of
\* the volume.
EntriesInv ==
    \A k \in DOMAIN stack : \A e \in stack[k].todo :
        NamesInode(Append(stack[k].path, e.name), e.inode)
EntryInv ==
    pc \in {"descend", "file"} => NamesInode(Append(Top.path, entry.name), entry.inode)

\* What is in file_content, once it is read, is the content of the file that the path names.
FileRight(path, text) ==
    Undisturbed(path) => /\ Lookup(vol, path) # 0
                         /\ text = Content(vol, vol.inodes[Lookup(vol, path)])
BufferInv == pc = "add" => FileRight(Append(Top.path, entry.name), file_content)

\* The directory being descended into is the last document.
LastDoc == pc = "descend" => docs # <<>> /\ docs[Len(docs)].path = Append(Top.path, entry.name)

\* The inductive invariant behind DocsAreOfTheVolume.
ContentInv ==
    /\ TablesAreOfTheVolume
    /\ good => EntriesInv /\ EntryInv /\ BufferInv
    /\ LastDoc
    /\ DocsAreOfTheVolume

\* The two halves of DocsAreOfTheVolume: a document about an inode has its text, and one
\* about none is the last.
TextRight(d) ==
    Undisturbed(d.path) /\ Lookup(vol, d.path) # 0 =>
        d.text = IF d.slash THEN Empty ELSE Content(vol, vol.inodes[Lookup(vol, d.path)])
NoneIsLast(i) ==
    Undisturbed(docs[i].path) /\ Lookup(vol, docs[i].path) = 0 =>
        i = Len(docs) /\ docs[i].slash /\ pc \in {"descend", "aborted"}

LEMMA DocsHalves ==
    DocsAreOfTheVolume <=> (good => \A i \in DOMAIN docs : TextRight(docs[i]) /\ NoneIsLast(i))
BY DEF DocsAreOfTheVolume, TextRight, NoneIsLast

\* The same after a step: of a path, an entry's path and document that need not change.
UndisturbedNow(path) ==
    \A v \in Versions', n \in 0..Len(path) :
        LET ino == Along(vol', path)[n]
        IN  /\ Along(v, path)[n] = ino
            /\ ino # 0 => v.inodes[ino] = vol'.inodes[ino]
            /\ ino # 0 /\ HasContent(vol'.inodes[ino]) =>
                  v.data[vol'.inodes[ino].block] = vol'.data[vol'.inodes[ino].block]
NamesNow(path, ino) == UndisturbedNow(path) => Lookup(vol', path) = ino
FileNow(path, text) ==
    UndisturbedNow(path) => /\ Lookup(vol', path) # 0
                            /\ text = Content(vol', vol'.inodes[Lookup(vol', path)])
TextNow(d) ==
    UndisturbedNow(d.path) /\ Lookup(vol', d.path) # 0 =>
        d.text = IF d.slash THEN Empty ELSE Content(vol', vol'.inodes[Lookup(vol', d.path)])
NoneNow(i) ==
    UndisturbedNow(docs'[i].path) /\ Lookup(vol', docs'[i].path) = 0 =>
        i = Len(docs') /\ docs'[i].slash /\ pc' \in {"descend", "aborted"}

LEMMA EntriesNow ==
    ASSUME \A k \in DOMAIN stack' : \A e \in stack'[k].todo :
               NamesNow(Append(stack'[k].path, e.name), e.inode)
    PROVE  EntriesInv'
BY DEF EntriesInv, NamesInode, NamesNow, Undisturbed, UndisturbedNow

LEMMA EntryNow ==
    ASSUME pc' \in {"descend", "file"} =>
               NamesNow(Append(Top'.path, entry'.name), entry'.inode)
    PROVE  EntryInv'
BY DEF EntryInv, NamesInode, NamesNow, Undisturbed, UndisturbedNow

LEMMA BufferNow ==
    ASSUME pc' = "add" => FileNow(Append(Top'.path, entry'.name), file_content')
    PROVE  BufferInv'
BY DEF BufferInv, FileRight, FileNow, Undisturbed, UndisturbedNow

LEMMA DocsNow ==
    ASSUME good' => \A i \in DOMAIN docs' : TextNow(docs'[i]) /\ NoneNow(i)
    PROVE  DocsAreOfTheVolume'
BY DEF DocsAreOfTheVolume, TextNow, NoneNow, Undisturbed, UndisturbedNow

\* The volume is one of its versions, and stays one.
LEMMA VersionsGrow ==
    ASSUME TypeOK, [Next]_vars
    PROVE  vol \in Versions /\ vol' \in Versions' /\ Versions \subseteq Versions'
<1>1. vol \in Versions /\ vol' \in Versions'
  BY DEF Versions
<1>2. CASE Rewrite
  <2>1. /\ DOMAIN past' = DOMAIN past \cup {Len(past) + 1}
        /\ \A i \in DOMAIN past : past'[i] = past[i]
        /\ past'[Len(past) + 1] = vol
    BY <1>2 DEF Rewrite, TypeOK
  <2>2. Range(past) \cup {vol} \subseteq Range(past')
    BY <2>1 DEF Range
  <2>. QED
    BY <1>1, <2>2 DEF Versions
<1>3. CASE ~Rewrite
  <2>1. device' = device
    BY <1>3 DEF Next, WalkStep, OpenVolume, LoadMetaData, GetInodeAborts, ReadJournal, ReadRoot,
                AddDirectory, Descend, NotADirectory, TakeFile, ReadFile, AddFile, Return, Abort, vars
  <2>2. vol' = vol /\ past' = past
    BY <2>1 DEF device
  <2>. QED
    BY <1>1, <2>2 DEF Versions
<1>. QED
  BY <1>1, <1>2, <1>3

\* A table in memory stays what a version of the volume has had, and what LoadMetaData adds
\* is one of the volume as it is now, or the end.
LEMMA TablesStep ==
    ASSUME TypeOK, TablesAreOfTheVolume, [Next]_vars
    PROVE  TablesAreOfTheVolume'
<1>1. vol \in Versions' /\ Versions \subseteq Versions'
  BY VersionsGrow
<1>2. pc = "aborted" => pc' = "aborted"
  BY DEF Next, WalkStep, OpenVolume, LoadMetaData, WantsInode, GetInodeAborts, ReadJournal, ReadRoot,
         AddDirectory, Descend, NotADirectory, TakeFile, ReadFile, AddFile, Return, Rewrite, Abort, vars
<1>3. CASE UNCHANGED tables
  <2>1. loaded' = loaded /\ all_inodes' = all_inodes
    BY <1>3 DEF tables
  <2>. QED
    BY <1>1, <1>2, <2>1 DEF TablesAreOfTheVolume
<1>4. CASE ~UNCHANGED tables
  <2>1. LoadMetaData
    BY <1>4 DEF Next, WalkStep, OpenVolume, GetInodeAborts, ReadJournal, ReadRoot,
                AddDirectory, Descend, NotADirectory, TakeFile, ReadFile, AddFile, Return, Rewrite,
                Abort, vars
  <2> SUFFICES ASSUME pc' # "aborted", NEW g \in loaded'
               PROVE  \E v \in Versions' :
                        \A ino \in Inodes : Group(ino) = g => all_inodes'[ino] = v.inodes[ino]
    BY DEF TablesAreOfTheVolume
  <2>2. \A ino \in Inodes :
           all_inodes'[ino] = IF Group(ino) = Group(Wanted) THEN vol.inodes[ino] ELSE all_inodes[ino]
    BY <2>1, LoadFacts
  <2>3. CASE g = Group(Wanted)
    BY <1>1, <2>2, <2>3
  <2>4. CASE g # Group(Wanted)
    <3>1. g \in loaded /\ pc # "aborted"
      BY <1>2, <2>1, <2>4, LoadFacts
    <3>2. PICK v \in Versions : \A ino \in Inodes : Group(ino) = g => all_inodes[ino] = v.inodes[ino]
      BY <3>1 DEF TablesAreOfTheVolume
    <3>. QED
      BY <1>1, <2>2, <2>4, <3>2
  <2>. QED
    BY <2>3, <2>4
<1>. QED
  BY <1>3, <1>4

\* Every inode get_inode hands out is one the volume has had, with its whole table.
THEOREM TablesOfTheVolume == Spec => []TablesAreOfTheVolume
<1>1. Init => TablesAreOfTheVolume
  BY DEF Init, TablesAreOfTheVolume
<1>. QED
  BY <1>1, TablesStep, TypeCorrect, PTL DEF Spec

\* What is on the way to an undisturbed path is undisturbed.
LEMMA UndisturbedAbove ==
    ASSUME NEW p \in Path, NEW x, Append(p, x) \in Path, Undisturbed(Append(p, x))
    PROVE  Undisturbed(p)
<1>1. Len(p) \in Nat /\ Len(Append(p, x)) = Len(p) + 1
  BY StepFacts
<1>2. \A n \in 0..Len(p) : n \in 0..Len(Append(p, x))
  BY <1>1
<1>3. \A v \in Versions \cup {vol}, n \in 0..Len(p) : Along(v, Append(p, x))[n] = Along(v, p)[n]
  BY AlongAppend
<1>4. vol \in Versions
  BY DEF Versions
<1>. QED
  BY <1>2, <1>3, <1>4 DEF Undisturbed

\* The end of an undisturbed path is the same on every version.
LEMMA UndisturbedEnd ==
    ASSUME NEW p \in Path, Undisturbed(p), NEW v \in Versions
    PROVE  /\ Lookup(v, p) = Lookup(vol, p)
           /\ Lookup(vol, p) # 0 => /\ v.inodes[Lookup(vol, p)] = vol.inodes[Lookup(vol, p)]
                                    /\ Content(v, v.inodes[Lookup(vol, p)])
                                         = Content(vol, vol.inodes[Lookup(vol, p)])
<1>1. Len(p) \in 0..Len(p)
  BY DEF Path
<1>. QED
  BY <1>1 DEF Undisturbed, Lookup, Content

\* A path that is undisturbed after a step was so before, and named the same.
LEMMA UndisturbedBefore ==
    ASSUME TypeOK, [Next]_vars, NEW p \in Path, UndisturbedNow(p)
    PROVE  /\ Undisturbed(p)
           /\ Lookup(vol', p) = Lookup(vol, p)
           /\ Lookup(vol, p) # 0 => Content(vol', vol'.inodes[Lookup(vol, p)])
                                      = Content(vol, vol.inodes[Lookup(vol, p)])
<1>1. vol \in Versions' /\ Versions \subseteq Versions'
  BY VersionsGrow
<1>2. ASSUME NEW v \in Versions', NEW n \in 0..Len(p)
      PROVE  /\ Along(v, p)[n] = Along(vol', p)[n]
             /\ Along(vol', p)[n] # 0 => /\ v.inodes[Along(vol', p)[n]] = vol'.inodes[Along(vol', p)[n]]
                                         /\ HasContent(vol'.inodes[Along(vol', p)[n]]) =>
                                              v.data[vol'.inodes[Along(vol', p)[n]].block]
                                                = vol'.data[vol'.inodes[Along(vol', p)[n]].block]
  BY DEF UndisturbedNow
<1>3. Undisturbed(p)
  <2> SUFFICES ASSUME NEW v \in Versions, NEW n \in 0..Len(p)
               PROVE  LET ino == Along(vol, p)[n]
                      IN  /\ Along(v, p)[n] = ino
                          /\ ino # 0 => v.inodes[ino] = vol.inodes[ino]
                          /\ ino # 0 /\ HasContent(vol.inodes[ino]) =>
                                v.data[vol.inodes[ino].block] = vol.data[vol.inodes[ino].block]
    BY DEF Undisturbed
  <2>1. v \in Versions'
    BY <1>1
  <2>. QED
    BY <1>1, <1>2, <2>1
<1>4. Len(p) \in 0..Len(p)
  BY DEF Path
<1>. QED
  BY <1>1, <1>2, <1>3, <1>4 DEF Lookup, Content

\* A path goes on naming its inode.
LEMMA NamesStays ==
    ASSUME TypeOK, [Next]_vars, NEW p \in Path, NEW ino, NamesInode(p, ino)
    PROVE  NamesNow(p, ino)
BY UndisturbedBefore DEF NamesInode, NamesNow

\* What is in file_content stays right.
LEMMA FileStays ==
    ASSUME TypeOK, [Next]_vars, NEW p \in Path, NEW text, FileRight(p, text)
    PROVE  FileNow(p, text)
BY UndisturbedBefore DEF FileRight, FileNow

\* A document that is right stays right.
LEMMA TextStays ==
    ASSUME TypeOK, [Next]_vars, NEW d \in Doc, TextRight(d)
    PROVE  TextNow(d)
<1> SUFFICES ASSUME UndisturbedNow(d.path), Lookup(vol', d.path) # 0
             PROVE  d.text = IF d.slash THEN Empty
                                        ELSE Content(vol', vol'.inodes[Lookup(vol', d.path)])
  BY DEF TextNow
<1>1. d.path \in Path
  BY DEF Doc
<1>2. /\ Undisturbed(d.path)
      /\ Lookup(vol', d.path) = Lookup(vol, d.path)
      /\ Lookup(vol, d.path) # 0 => Content(vol', vol'.inodes[Lookup(vol, d.path)])
                                      = Content(vol, vol.inodes[Lookup(vol, d.path)])
  BY <1>1, UndisturbedBefore
<1>. QED
  BY <1>2 DEF TextRight

\* The inode table in memory is right about an undisturbed path.
LEMMA LoadedRight ==
    ASSUME ContentInv, pc # "aborted", NEW p \in Path, Undisturbed(p),
           NEW ino \in Inodes, GetInode(ino), NamesInode(p, ino)
    PROVE  all_inodes[ino] = vol.inodes[ino] /\ ino # 0 /\ Lookup(vol, p) = ino
<1>1. Lookup(vol, p) = ino /\ ino # 0
  BY DEF NamesInode, Inodes
<1>2. PICK v \in Versions : all_inodes[ino] = v.inodes[ino]
  BY DEF ContentInv, TablesAreOfTheVolume, GetInode
<1>. QED
  BY <1>1, <1>2, UndisturbedEnd

\* Where the documents do not change, they go on being right, unless the walk goes on
\* after a directory without an inode.
LEMMA DocsStay ==
    ASSUME TypeOK, ContentInv, [Next]_vars, docs' = docs,
           pc' \in {"descend", "aborted"} \/ pc \notin {"descend", "aborted"}
             \/ (good => \A i \in DOMAIN docs :
                            Undisturbed(docs[i].path) => Lookup(vol, docs[i].path) # 0)
    PROVE  DocsAreOfTheVolume'
<1> SUFFICES ASSUME good', NEW i \in DOMAIN docs' PROVE TextNow(docs'[i]) /\ NoneNow(i)
  BY DocsNow
<1>1. good /\ docs[i] \in Doc /\ docs[i].path \in Path
  BY GoodStays, PathFacts DEF TypeOK
<1>2. TextRight(docs[i]) /\ NoneIsLast(i)
  BY <1>1, DocsHalves DEF ContentInv
<1>3. TextNow(docs'[i])
  BY <1>1, <1>2, TextStays
<1>4. NoneNow(i)
  <2> SUFFICES ASSUME UndisturbedNow(docs[i].path), Lookup(vol', docs[i].path) = 0
               PROVE  i = Len(docs) /\ docs[i].slash /\ pc' \in {"descend", "aborted"}
    BY DEF NoneNow
  <2>1. Undisturbed(docs[i].path) /\ Lookup(vol, docs[i].path) = 0
    BY <1>1, UndisturbedBefore
  <2>. QED
    BY <1>1, <1>2, <2>1 DEF NoneIsLast
<1>. QED
  BY <1>3, <1>4

\* A directory whose entry was cleared is not got over.
LEMMA NoneIsNotEntered ==
    ASSUME TypeOK, ContentInv, pc = "descend", GetInode(entry.inode), good,
           NEW i \in DOMAIN docs, Undisturbed(docs[i].path)
    PROVE  Lookup(vol, docs[i].path) # 0
<1> SUFFICES ASSUME Lookup(vol, docs[i].path) = 0 PROVE FALSE
  OBVIOUS
<1>1. i = Len(docs)
  BY DEF ContentInv, DocsAreOfTheVolume
<1>2. docs[i].path = Append(Top.path, entry.name)
  BY <1>1 DEF ContentInv, LastDoc
<1>3. entry.inode = 0
  BY <1>2 DEF ContentInv, EntryInv, NamesInode
<1>4. entry.inode \in 0..NInodes
  BY DEF TypeOK, Entry
<1>. QED
  BY <1>3, <1>4, GetInodeFacts DEF Inodes

\* Steps outside the directories.
LEMMA ContentQuiet ==
    ASSUME TypeOK, ContentInv, [Next]_vars, UNCHANGED <<stack, entry, file_content, docs>>,
           pc' \in {pc, "aborted"} \/ {pc, pc'} \cap {"descend", "file", "add", "aborted"} = {}
    PROVE  ContentInv'
<1>1. TablesAreOfTheVolume'
  BY TablesStep DEF ContentInv
<1>2. DocsAreOfTheVolume'
  BY DocsStay
<1>3. ASSUME good' PROVE EntriesInv'
  <2>1. EntriesInv
    BY <1>3, GoodStays DEF ContentInv
  <2> SUFFICES ASSUME NEW k \in DOMAIN stack, NEW e \in stack[k].todo
               PROVE  NamesNow(Append(stack[k].path, e.name), e.inode)
    BY EntriesNow
  <2>2. Append(stack[k].path, e.name) \in Path
    BY PathFacts, PathAppend DEF Entry
  <2>3. NamesInode(Append(stack[k].path, e.name), e.inode)
    BY <2>1 DEF EntriesInv
  <2>. QED
    BY <2>2, <2>3, NamesStays
<1>4. ASSUME good', pc' \in {"descend", "file"} PROVE EntryInv'
  <2>1. NamesInode(Append(Top.path, entry.name), entry.inode)
    BY <1>4, GoodStays DEF ContentInv, EntryInv
  <2>2. Append(Top.path, entry.name) \in Path
    BY <1>4, TopFacts, PathAppend DEF TypeOK, Entry
  <2>3. NamesNow(Append(Top.path, entry.name), entry.inode)
    BY <2>1, <2>2, NamesStays
  <2>4. Top' = Top
    BY DEF Top
  <2>. QED
    BY <2>3, <2>4, EntryNow
<1>5. LastDoc'
  BY DEF ContentInv, LastDoc, Top
<1>6. ASSUME good', pc' = "add" PROVE BufferInv'
  <2>1. FileRight(Append(Top.path, entry.name), file_content)
    BY <1>6, GoodStays DEF ContentInv, BufferInv
  <2>2. Append(Top.path, entry.name) \in Path
    BY <1>6, TopFacts, PathAppend DEF TypeOK, Entry
  <2>3. FileNow(Append(Top.path, entry.name), file_content)
    BY <2>1, <2>2, FileStays
  <2>4. Top' = Top
    BY DEF Top
  <2>. QED
    BY <2>3, <2>4, BufferNow
<1>. QED
  BY <1>1, <1>2, <1>3, <1>4, <1>5, <1>6 DEF ContentInv, EntryInv, BufferInv

\* An activation that ends.
LEMMA ContentPop ==
    ASSUME TypeOK, ContentInv, [Next]_vars, stack # <<>>, stack' = Front(stack), docs' = docs,
           pc' \in {"entry", "done"},
           pc = "entry" \/ (pc = "descend" /\ GetInode(entry.inode))
    PROVE  ContentInv'
<1>1. TablesAreOfTheVolume'
  BY TablesStep DEF ContentInv
<1>2. DocsAreOfTheVolume'
  BY DocsStay, NoneIsNotEntered
<1>3. ASSUME good' PROVE EntriesInv'
  <2>1. EntriesInv
    BY <1>3, GoodStays DEF ContentInv
  <2>2. \A k \in DOMAIN stack' : k \in DOMAIN stack /\ stack'[k] = stack[k]
    BY FrontFacts DEF TypeOK
  <2> SUFFICES ASSUME NEW k \in DOMAIN stack, NEW e \in stack[k].todo
               PROVE  NamesNow(Append(stack[k].path, e.name), e.inode)
    BY <2>2, EntriesNow
  <2>3. Append(stack[k].path, e.name) \in Path
    BY PathFacts, PathAppend DEF Entry
  <2>4. NamesInode(Append(stack[k].path, e.name), e.inode)
    BY <2>1 DEF EntriesInv
  <2>. QED
    BY <2>3, <2>4, NamesStays
<1>4. EntryInv' /\ LastDoc' /\ BufferInv'
  BY DEF EntryInv, LastDoc, BufferInv
<1>. QED
  BY <1>1, <1>2, <1>3, <1>4 DEF ContentInv

\* An entry of a sound directory is what its name leads to.
LEMMA StepFound ==
    ASSUME TypeOK, SoundDirectories, NEW ino \in Inodes, vol.inodes[ino].dir,
           NEW e \in Kept(vol.dirs[vol.inodes[ino].block])
    PROVE  Step(vol, ino, e.name) = e.inode
<1> DEFINE b == vol.inodes[ino].block
           named == {f \in vol.dirs[b] : f.name = e.name}
<1>1. b # 0 /\ b \in Blocks /\ UniqueNames(Kept(vol.dirs[b]))
  <2>1. vol \in Volumes /\ b # 0
    BY DEF TypeOK, SoundDirectories
  <2>2. b \in Blocks
    BY <2>1, VolumeFacts DEF Inode
  <2>. QED
    BY <2>1, <2>2 DEF SoundDirectories
<1>2. e \in named /\ named \subseteq Kept(vol.dirs[b])
  BY DEF Kept
<1>3. \A f \in named : f = e
  BY <1>1, <1>2 DEF UniqueNames
<1>4. (CHOOSE f \in named : TRUE) = e /\ named # {}
  BY <1>2, <1>3
<1>5. ino # 0
  BY VolumeAssumption DEF Inodes
<1>. QED
  BY <1>1, <1>4, <1>5 DEF Step

\* Entering a directory with a block on a good stream: the frame has the block's entries.
LEMMA EnterReads ==
    ASSUME TypeOK, NEW path, NEW b \in Blocks, EnterDirectory(path, b)
    PROVE  /\ stack' = stack /\ pc' = "aborted"
           \/ /\ pc' = "entry" /\ Len(stack) # MaxDepth
              /\ \E todo : /\ stack' = Append(stack, [path |-> path, todo |-> todo])
                           /\ good' => todo = Kept(vol.dirs[b])
<1> DEFINE Enter(ok, entries) ==
         /\ good' = ok
         /\ IF (\E e \in entries : NameTooLong(e)) \/ Len(stack) = MaxDepth
            THEN pc' = "aborted" /\ UNCHANGED stack
            ELSE /\ pc' = "entry"
                 /\ stack' = Append(stack, [path |-> path, todo |-> Kept(entries)])
<1>1. PICK ok \in BOOLEAN : \E entries \in BufferEntries(b, ok) : Enter(ok, entries)
  BY DEF EnterDirectory, AfterRead, AfterReadOf, TypeOK
<1>2. PICK entries \in BufferEntries(b, ok) : Enter(ok, entries)
  BY <1>1
<1>3. good' => entries = vol.dirs[b]
  BY <1>2, VolumeAssumption DEF BufferEntries
<1>4. CASE (\E e \in entries : NameTooLong(e)) \/ Len(stack) = MaxDepth
  BY <1>2, <1>4
<1>5. CASE ~((\E e \in entries : NameTooLong(e)) \/ Len(stack) = MaxDepth)
  BY <1>2, <1>3, <1>5
<1>. QED
  BY <1>4, <1>5

\* A new activation, on a path that names the directory.
LEMMA ContentPush ==
    ASSUME TypeOK, SoundDirectories, DirsHaveBlocks, ContentInv, [Next]_vars,
           NEW path \in Path, NEW ino \in Inodes, GetInode(ino), all_inodes[ino].dir,
           good => NamesInode(path, ino), EnterDirectory(path, all_inodes[ino].block),
           docs' = docs, pc = "root" \/ (pc = "descend" /\ GetInode(entry.inode))
    PROVE  ContentInv'
<1> DEFINE b == all_inodes[ino].block
<1>1. b \in Blocks
  BY VolumeFacts DEF DirsHaveBlocks
<1> HIDE DEF b
<1>2. TablesAreOfTheVolume'
  BY TablesStep DEF ContentInv
<1>3. DocsAreOfTheVolume'
  BY DocsStay, NoneIsNotEntered
<1>4. pc' \in {"entry", "aborted"}
  BY <1>1, EnterReads DEF b
<1>5. ASSUME good', NEW k \in DOMAIN stack, NEW e \in stack[k].todo
      PROVE  NamesNow(Append(stack[k].path, e.name), e.inode)
  <2>1. NamesInode(Append(stack[k].path, e.name), e.inode)
    BY <1>5, GoodStays DEF ContentInv, EntriesInv
  <2>2. Append(stack[k].path, e.name) \in Path
    BY PathFacts, PathAppend DEF Entry
  <2>. QED
    BY <2>1, <2>2, NamesStays
<1>6. ASSUME good', NEW e \in Kept(vol.dirs[b])
      PROVE  NamesNow(Append(path, e.name), e.inode)
  <2> DEFINE q == Append(path, e.name)
  <2> SUFFICES ASSUME UndisturbedNow(q) PROVE Lookup(vol', q) = e.inode
    BY DEF NamesNow
  <2>1. q \in Path
    BY <1>1, VolumeFacts, PathAppend DEF Kept, Entry
  <2>2. Undisturbed(q) /\ Lookup(vol', q) = Lookup(vol, q)
    BY <2>1, UndisturbedBefore
  <2>3. Undisturbed(path)
    BY <2>1, <2>2, UndisturbedAbove
  <2>4. all_inodes[ino] = vol.inodes[ino] /\ Lookup(vol, path) = ino
    BY <1>6, <2>3, GoodStays, LoadedRight
  <2>5. Lookup(vol, q) = Step(vol, ino, e.name)
    BY <2>1, <2>4, StepFacts, AlongAppend DEF Lookup
  <2>6. Step(vol, ino, e.name) = e.inode
    BY <2>4, StepFound DEF b
  <2>. QED
    BY <2>2, <2>5, <2>6
<1>7. ASSUME good' PROVE EntriesInv'
  <2>1. CASE stack' = stack
    BY <1>5, <1>7, <2>1, EntriesNow
  <2>2. CASE stack' # stack
    <3>1. stack' = Append(stack, [path |-> path, todo |-> Kept(vol.dirs[b])])
      BY <1>1, <1>7, <2>2, EnterReads DEF b
    <3>2. /\ DOMAIN stack' = DOMAIN stack \cup {Len(stack) + 1}
          /\ \A k \in DOMAIN stack : stack'[k] = stack[k]
          /\ stack'[Len(stack) + 1].path = path
          /\ stack'[Len(stack) + 1].todo = Kept(vol.dirs[b])
      BY <3>1 DEF TypeOK
    <3>. QED
      BY <1>5, <1>6, <1>7, <3>2, EntriesNow
  <2>. QED
    BY <2>1, <2>2
<1>8. EntryInv' /\ LastDoc' /\ BufferInv'
  BY <1>4 DEF EntryInv, LastDoc, BufferInv
<1>. QED
  BY <1>2, <1>3, <1>7, <1>8 DEF ContentInv

\* The topmost activation takes an entry: what is left, and it, are still of the volume.
LEMMA TakeNames ==
    ASSUME TypeOK, ContentInv, [Next]_vars, stack # <<>>, NEW e \in Top.todo, stack' = Consume(e),
           entry' = e, good'
    PROVE  EntriesInv' /\ EntryInv' /\ Top'.path = Top.path
<1>1. EntriesInv
  BY GoodStays DEF ContentInv
<1>2. /\ stack \in Seq(Frame) /\ Len(stack) \in DOMAIN stack
      /\ \A k \in DOMAIN stack : stack[k] \in Frame
  BY DEF TypeOK
<1>3. [stack[Len(stack)] EXCEPT !.todo = @ \ {e}] \in Frame
  BY <1>2 DEF Frame
<1>4. /\ DOMAIN stack' = DOMAIN stack /\ Len(stack') = Len(stack)
      /\ \A k \in DOMAIN stack : /\ stack'[k].path = stack[k].path
                                 /\ stack'[k].todo \subseteq stack[k].todo
  BY <1>2, <1>3 DEF Consume, Frame
<1>5. ASSUME NEW k \in DOMAIN stack, NEW f \in stack[k].todo
      PROVE  NamesNow(Append(stack[k].path, f.name), f.inode)
  <2>1. NamesInode(Append(stack[k].path, f.name), f.inode)
    BY <1>1 DEF EntriesInv
  <2>2. Append(stack[k].path, f.name) \in Path
    BY PathFacts, PathAppend DEF Entry
  <2>. QED
    BY <2>1, <2>2, NamesStays
<1>6. EntriesInv'
  BY <1>4, <1>5, EntriesNow
<1>7. Top'.path = Top.path
  BY <1>2, <1>4 DEF Top
<1>8. NamesNow(Append(Top'.path, entry'.name), entry'.inode)
  BY <1>2, <1>5, <1>7 DEF Top
<1>. QED
  BY <1>6, <1>7, <1>8, EntryNow

\* A document more, of the path it names.
LEMMA NewDocRight ==
    ASSUME TypeOK, ContentInv, [Next]_vars, pc \notin {"descend", "aborted"},
           NEW d \in Doc, docs' = Append(docs, d),
           good' => /\ TextNow(d)
                    /\ UndisturbedNow(d.path) /\ Lookup(vol', d.path) = 0 => d.slash /\ pc' = "descend"
    PROVE  DocsAreOfTheVolume'
<1> SUFFICES ASSUME good', NEW i \in DOMAIN docs' PROVE TextNow(docs'[i]) /\ NoneNow(i)
  BY DocsNow
<1>1. CASE i \in DOMAIN docs
  <2>1. good /\ docs[i] \in Doc /\ docs[i].path \in Path /\ docs'[i] = docs[i]
    BY <1>1, GoodStays, PathFacts, AppendDoc DEF TypeOK
  <2>2. TextRight(docs[i]) /\ NoneIsLast(i)
    BY <1>1, <2>1, DocsHalves DEF ContentInv
  <2>3. TextNow(docs'[i])
    BY <2>1, <2>2, TextStays
  <2>4. NoneNow(i)
    <3> SUFFICES ASSUME UndisturbedNow(docs[i].path), Lookup(vol', docs[i].path) = 0
                 PROVE  FALSE
      BY <2>1 DEF NoneNow
    <3>1. Undisturbed(docs[i].path) /\ Lookup(vol, docs[i].path) = 0
      BY <2>1, UndisturbedBefore
    <3>. QED
      BY <2>2, <3>1 DEF NoneIsLast
  <2>. QED
    BY <2>3, <2>4
<1>2. CASE i = Len(docs) + 1
  BY <1>2, AppendDoc DEF NoneNow, TypeOK
<1>. QED
  BY <1>1, <1>2, AppendDoc

\* What there is to reach stays what it is, where nothing is taken or entered.
LEMMA EntriesStay ==
    ASSUME TypeOK, ContentInv, [Next]_vars, stack' = stack, good'
    PROVE  EntriesInv'
<1>1. EntriesInv
  BY GoodStays DEF ContentInv
<1> SUFFICES ASSUME NEW k \in DOMAIN stack, NEW e \in stack[k].todo
             PROVE  NamesNow(Append(stack[k].path, e.name), e.inode)
  BY EntriesNow
<1>2. Append(stack[k].path, e.name) \in Path
  BY PathFacts, PathAppend DEF Entry
<1>3. NamesInode(Append(stack[k].path, e.name), e.inode)
  BY <1>1 DEF EntriesInv
<1>. QED
  BY <1>2, <1>3, NamesStays

\* A file is read into file_content: what the volume has for it, whatever was there before.
LEMMA ContentRead ==
    ASSUME TypeOK, ContentInv, [Next]_vars, ReadFile
    PROVE  ContentInv'
<1> DEFINE p == Append(Top.path, entry.name)
           ino == entry.inode
<1>1. /\ pc = "file" /\ pc' = "add" /\ ino \in Inodes
      /\ good' => good /\ file_content' = Content(vol, all_inodes[ino])
      /\ vol' = vol /\ stack' = stack /\ entry' = entry /\ docs' = docs
  BY ReadFileFacts
<1>2. GetInode(ino) /\ entry \in Entry /\ stack # <<>>
  BY DEF ReadFile, TypeOK
<1>3. p \in Path
  BY <1>2, TopFacts, PathAppend DEF Entry
<1>4. ASSUME good' PROVE FileNow(p, file_content')
  <2> SUFFICES ASSUME UndisturbedNow(p)
               PROVE  /\ Lookup(vol', p) # 0
                      /\ file_content' = Content(vol', vol'.inodes[Lookup(vol', p)])
    BY DEF FileNow
  <2>1. Undisturbed(p)
    BY <1>3, UndisturbedBefore
  <2>2. NamesInode(p, ino)
    BY <1>1, <1>4 DEF ContentInv, EntryInv
  <2>3. all_inodes[ino] = vol.inodes[ino] /\ ino # 0 /\ Lookup(vol, p) = ino
    BY <1>1, <1>2, <1>3, <2>1, <2>2, LoadedRight
  <2>. QED
    BY <1>1, <1>4, <2>3
<1>5. Top' = Top
  BY <1>1 DEF Top
<1>6. ASSUME good' PROVE EntriesInv' /\ EntryInv' /\ BufferInv'
  BY <1>1, <1>4, <1>5, <1>6, EntriesStay, BufferNow DEF EntryInv
<1>7. TablesAreOfTheVolume' /\ DocsAreOfTheVolume'
  BY <1>1, TablesStep, DocsStay DEF ContentInv
<1>8. LastDoc'
  BY <1>1 DEF LastDoc
<1>. QED
  BY <1>6, <1>7, <1>8 DEF ContentInv

\* A file becomes a document with what is in file_content.
LEMMA ContentFile ==
    ASSUME TypeOK, ContentInv, [Next]_vars, AddFile
    PROVE  ContentInv'
<1> DEFINE p == Append(Top.path, entry.name)
<1>1. /\ pc = "add" /\ pc' = "entry" /\ stack' = stack
      /\ docs' = Append(docs, FileDoc)
  BY DEF AddFile, AddDoc, FileDoc
<1>2. /\ FileDoc \in Doc /\ FileDoc.path = p /\ ~FileDoc.slash /\ FileDoc.text = file_content
      /\ p \in Path
  BY <1>1, FileDocFacts, TopFacts, PathAppend DEF Entry
<1>3. ASSUME good' PROVE FileNow(p, file_content)
  BY <1>1, <1>2, <1>3, GoodStays, FileStays DEF ContentInv, BufferInv
<1>4. DocsAreOfTheVolume'
  <2> HIDE DEF p
  <2>1. good' => /\ TextNow(FileDoc)
                 /\ UndisturbedNow(FileDoc.path) /\ Lookup(vol', FileDoc.path) = 0 =>
                       FileDoc.slash /\ pc' = "descend"
    BY <1>2, <1>3 DEF TextNow, FileNow
  <2>. QED
    BY <1>1, <1>2, <2>1, NewDocRight
<1>5. good' => EntriesInv'
  BY <1>1, EntriesStay
<1>6. TablesAreOfTheVolume'
  BY TablesStep DEF ContentInv
<1>7. EntryInv' /\ LastDoc' /\ BufferInv'
  BY <1>1 DEF EntryInv, LastDoc, BufferInv
<1>. QED
  BY <1>4, <1>5, <1>6, <1>7 DEF ContentInv

\* A directory becomes a document before it is looked at.
LEMMA ContentDirectory ==
    ASSUME TypeOK, ContentInv, [Next]_vars, AddDirectory
    PROVE  ContentInv'
<1>1. PICK e \in NextEntries :
         /\ AddDoc([path |-> Append(Top.path, e.name), slash |-> TRUE, text |-> Empty, calm |-> Calm])
         /\ entry' = e
         /\ stack' = Consume(e)
  BY DEF AddDirectory
<1>2. stack # <<>> /\ pc = "entry" /\ pc' = "descend"
  BY DEF AddDirectory, TypeOK
<1>3. e \in Top.todo /\ e \in Entry /\ Top.path \in Path
  BY <1>2, TopFacts DEF NextEntries
<1> DEFINE d == [path |-> Append(Top.path, e.name), slash |-> TRUE, text |-> Empty, calm |-> Calm]
<1>4. /\ d \in Doc /\ d.path = Append(Top.path, e.name) /\ d.slash = TRUE /\ d.text = Empty
      /\ docs' = Append(docs, d)
  BY <1>1, <1>3, DocFacts, VolumeAssumption DEF Calm, TypeOK, AddDoc
<1> HIDE DEF d
<1>5. DocsAreOfTheVolume'
  BY <1>2, <1>4, NewDocRight DEF TextNow
<1>6. Top'.path = Top.path
  <2>1. Len(stack) \in DOMAIN stack
    BY <1>2 DEF TypeOK
  <2>. QED
    BY <1>1, <1>2, <2>1, ConsumeFacts DEF Top
<1>7. LastDoc' /\ BufferInv'
  <2>1. docs' # <<>> /\ docs'[Len(docs')] = d
    BY <1>4 DEF TypeOK
  <2>. QED
    BY <1>1, <1>2, <1>4, <1>6, <2>1 DEF LastDoc, BufferInv
<1>8. good' => EntriesInv' /\ EntryInv'
  BY <1>1, <1>2, <1>3, TakeNames
<1>9. TablesAreOfTheVolume'
  BY TablesStep DEF ContentInv
<1>. QED
  BY <1>5, <1>7, <1>8, <1>9 DEF ContentInv

\* ContentInv is kept by every step.
LEMMA ContentStep ==
    SoundDirectories /\ TypeOK /\ DirsHaveBlocks /\ ContentInv /\ [Next]_vars => ContentInv'
<1> SUFFICES ASSUME SoundDirectories, TypeOK, DirsHaveBlocks, ContentInv, [Next]_vars
             PROVE  ContentInv'
  OBVIOUS
<1>1. CASE OpenVolume \/ ReadJournal
  <2>1. UNCHANGED <<stack, entry, file_content, docs>>
    BY <1>1 DEF OpenVolume, ReadJournal
  <2>2. pc' \in {pc, "aborted"} \/ {pc, pc'} \cap {"descend", "file", "add", "aborted"} = {}
    BY <1>1 DEF OpenVolume, ReadJournal
  <2>. QED
    BY <2>1, <2>2, ContentQuiet
<1>2. CASE LoadMetaData \/ GetInodeAborts \/ Rewrite \/ UNCHANGED vars
  <2>1. UNCHANGED <<stack, entry, file_content, docs>> /\ pc' \in {pc, "aborted"}
    BY <1>2, LoadFacts DEF GetInodeAborts, Rewrite, Abort, vars
  <2>. QED
    BY <2>1, ContentQuiet
<1>3. CASE ReadRoot
  <2>1. pc = "root" /\ GetInode(RootInode) /\ docs' = docs /\ entry' = entry
    BY <1>3 DEF ReadRoot
  <2>2. CASE all_inodes[RootInode].dir
    <3>1. <<>> \in Path /\ EnterDirectory(<<>>, all_inodes[RootInode].block)
      BY <1>3, <2>2 DEF ReadRoot, Path
    <3>2. NamesInode(<<>>, RootInode)
      BY <3>1, AlongFacts DEF NamesInode, Lookup
    <3>. QED
      BY <2>1, <2>2, <3>1, <3>2, RootFacts, ContentPush
  <2>3. CASE ~all_inodes[RootInode].dir
    <3>1. UNCHANGED <<stack, entry, file_content, docs>> /\ pc' = "done"
      BY <1>3, <2>3 DEF ReadRoot
    <3>. QED
      BY <2>1, <3>1, ContentQuiet
  <2>. QED
    BY <2>2, <2>3
<1>4. CASE AddDirectory
  BY <1>4, ContentDirectory
<1>5. CASE Descend
  <2>1. /\ entry \in Entry /\ stack # <<>> /\ pc = "descend" /\ docs' = docs
        /\ GetInode(entry.inode) /\ all_inodes[entry.inode].dir
        /\ EnterDirectory(Append(Top.path, entry.name), all_inodes[entry.inode].block)
    BY <1>5 DEF Descend, TypeOK
  <2>2. entry.inode \in Inodes /\ Append(Top.path, entry.name) \in Path
    BY <2>1, GetInodeFacts, TopFacts, PathAppend DEF Entry
  <2>3. good => NamesInode(Append(Top.path, entry.name), entry.inode)
    BY <2>1 DEF ContentInv, EntryInv
  <2>. QED
    BY <2>1, <2>2, <2>3, ContentPush
<1>6. CASE NotADirectory \/ Return
  <2>1. /\ stack # <<>> /\ stack' = Front(stack) /\ docs' = docs /\ pc' \in {"entry", "done"}
        /\ pc = "entry" \/ (pc = "descend" /\ GetInode(entry.inode))
    BY <1>6 DEF NotADirectory, Return, Caller, TypeOK
  <2>. QED
    BY <2>1, ContentPop
<1>7. CASE TakeFile
  <2>1. PICK e \in NextEntries : entry' = e /\ stack' = Consume(e)
    BY <1>7 DEF TakeFile
  <2>2. stack # <<>> /\ pc = "entry" /\ pc' = "file" /\ docs' = docs
    BY <1>7 DEF TakeFile, TypeOK
  <2>3. e \in Top.todo
    BY <2>1 DEF NextEntries
  <2>4. good' => EntriesInv' /\ EntryInv'
    BY <2>1, <2>2, <2>3, TakeNames
  <2>5. TablesAreOfTheVolume' /\ DocsAreOfTheVolume'
    BY <2>2, TablesStep, DocsStay DEF ContentInv
  <2>. QED
    BY <2>2, <2>4, <2>5 DEF ContentInv, LastDoc, BufferInv
<1>8. CASE AddFile
  BY <1>8, ContentFile
<1>9. CASE ReadFile
  BY <1>9, ContentRead
<1>. QED
  BY <1>1, <1>2, <1>3, <1>4, <1>5, <1>6, <1>7, <1>8, <1>9 DEF Next, WalkStep

\* What is indexed is what the volume holds: on every volume of sound directories,
\* however a writer changes the rest of it under the walk, and however old the inode
\* tables in memory are.
THEOREM DocsOfTheVolume == ASSUME SoundDirectories PROVE Spec => []DocsAreOfTheVolume
<1>1. Init => OnceInv
  BY DEF Init, OnceInv, StartsEmpty, DirsHaveBlocks, OneDeeper, Unreached, JustTaken,
         EachPathOnce, NoInode
<1>2. Init => ContentInv
  BY DEF Init, ContentInv, TablesAreOfTheVolume, EntriesInv, EntryInv, BufferInv, LastDoc, DocsAreOfTheVolume
<1>3. TypeOK /\ OnceInv /\ [Next]_vars => OnceInv'
  BY OnceStep
<1>4. TypeOK /\ OnceInv /\ ContentInv /\ [Next]_vars => ContentInv'
  BY ContentStep DEF OnceInv
<1>5. ContentInv => DocsAreOfTheVolume
  BY DEF ContentInv
<1>. QED
  BY <1>1, <1>2, <1>3, <1>4, <1>5, TypeCorrect, PTL DEF Spec

(***************************************************************************)
(* read_inode implements Walk, on a volume of sound directories.           *)
(***************************************************************************)

\* What the invariants say of one volume.
SoundVolume(v) ==
    /\ v \in VolumeType
    /\ \A ino \in Inodes : v.inodes[ino].dir => v.inodes[ino].block \in Blocks
    /\ \A b \in Blocks : UniqueNames(Kept(v.dirs[b]))

LEMMA VolumesAreSound ==
    ASSUME SoundDirectories, NEW v \in Volumes
    PROVE  SoundVolume(v)
<1>1. v \in VolumeType
  BY IndexerAssumption
<1>2. \A ino \in Inodes : v.inodes[ino].block \in Blocks \cup {0}
  BY <1>1 DEF VolumeType, Inode
<1>. QED
  BY <1>1, <1>2 DEF SoundVolume, SoundDirectories

\* The entries of a sound directory.
LEMMA DirectoryFacts ==
    ASSUME NEW v, SoundVolume(v), NEW ino \in Inodes, v.inodes[ino].dir
    PROVE  /\ v.inodes[ino].block # 0
           /\ Kept(v.dirs[v.inodes[ino].block]) \subseteq v.dirs[v.inodes[ino].block]
           /\ v.dirs[v.inodes[ino].block] \subseteq Entry
           /\ UniqueNames(Kept(v.dirs[v.inodes[ino].block]))
<1>1. v.inodes[ino].block \in Blocks
  BY DEF SoundVolume
<1>. QED
  BY <1>1, VolumeAssumption DEF SoundVolume, VolumeType, Kept

\* A step leads to an inode or to 0.
LEMMA StepRange ==
    ASSUME NEW v, SoundVolume(v), NEW ino \in 0..NInodes, NEW name
    PROVE  Step(v, ino, name) \in 0..NInodes
<1>1. CASE ino = 0 \/ ~v.inodes[ino].dir \/ v.inodes[ino].block = 0
  BY <1>1, VolumeAssumption DEF Step
<1>2. CASE ~(ino = 0 \/ ~v.inodes[ino].dir \/ v.inodes[ino].block = 0)
  <2> DEFINE named == {e \in v.dirs[v.inodes[ino].block] : e.name = name}
  <2>1. ino \in Inodes /\ v.inodes[ino].dir
    BY <1>2, VolumeAssumption DEF Inodes
  <2>2. named \subseteq Entry
    BY <2>1, DirectoryFacts
  <2>3. Step(v, ino, name) = IF named = {} THEN 0 ELSE (CHOOSE e \in named : TRUE).inode
    BY <1>2 DEF Step
  <2> HIDE DEF named
  <2>4. named # {} => (CHOOSE e \in named : TRUE) \in Entry
    BY <2>2
  <2>5. \A e \in Entry : e.inode \in 0..NInodes
    BY DEF Entry
  <2>6. 0 \in 0..NInodes
    BY VolumeAssumption
  <2>. QED
    BY <2>3, <2>4, <2>5, <2>6
<1>. QED
  BY <1>1, <1>2

\* So does a path.
LEMMA LookupRange ==
    ASSUME NEW v, SoundVolume(v), NEW p \in Path
    PROVE  Lookup(v, p) \in 0..NInodes
<1> DEFINE Inside == {n \in Nat : n <= Len(p) => Along(v, p)[n] \in 0..NInodes}
<1>0. Len(p) \in Nat
  BY DEF Path
<1>1. 0 \in Inside
  BY AlongFacts, RootFacts DEF Inodes
<1>2. ASSUME NEW n \in Nat, n \in Inside PROVE n + 1 \in Inside
  <2> SUFFICES ASSUME n + 1 <= Len(p) PROVE Along(v, p)[n + 1] \in 0..NInodes
    OBVIOUS
  <2>1. n + 1 \in 1..Len(p) /\ (n + 1) - 1 = n /\ n <= Len(p)
    BY <1>0
  <2>2. Along(v, p)[n] \in 0..NInodes
    BY <1>2, <2>1
  <2>3. Along(v, p)[n + 1] = Step(v, Along(v, p)[n], p[n + 1])
    BY <2>1, AlongFacts
  <2>. QED
    BY <2>2, <2>3, StepRange
<1>3. \A n \in Nat : n \in Inside
  <2> HIDE DEF Inside
  <2>. QED
    BY <1>1, <1>2, Induction
<1>. QED
  BY <1>0, <1>3 DEF Lookup

\* The children of a directory.
LEMMA ChildrenFacts ==
    ASSUME NEW v, SoundVolume(v), NEW p \in Path, IsDirectory(v, p)
    PROVE  /\ Lookup(v, p) \in Inodes
           /\ ChildEntries(v, p) \subseteq Entry
           /\ UniqueNames(ChildEntries(v, p))
           /\ \A e \in ChildEntries(v, p) : e.name \in Names /\ e.type \in Nat /\ Append(p, e.name) \in Path
<1>1. Lookup(v, p) \in Inodes /\ v.inodes[Lookup(v, p)].dir
  BY LookupRange, VolumeAssumption DEF IsDirectory, Inodes
<1>2. ChildEntries(v, p) \subseteq Entry /\ UniqueNames(ChildEntries(v, p))
  BY <1>1, DirectoryFacts DEF ChildEntries
<1>3. \A e \in Entry : e.name \in Names /\ e.type \in Nat
  BY DEF Entry
<1>4. \A n \in Names : Append(p, n) \in Path
  BY PathAppend
<1>. QED
  BY <1>1, <1>2, <1>3, <1>4

\* A child's path names its inode.
LEMMA ChildLookup ==
    ASSUME NEW v, SoundVolume(v), NEW p \in Path, IsDirectory(v, p), NEW e \in ChildEntries(v, p)
    PROVE  Lookup(v, Append(p, e.name)) = e.inode
<1> DEFINE ino == Lookup(v, p)
           dir == v.dirs[v.inodes[ino].block]
           named == {f \in dir : f.name = e.name}
<1>1. ino \in Inodes /\ Append(p, e.name) \in Path
  BY ChildrenFacts
<1>2. v.inodes[ino].dir /\ ino # 0 /\ e \in Kept(dir)
  BY DEF IsDirectory, ChildEntries
<1>3. v.inodes[ino].block # 0 /\ UniqueNames(Kept(dir))
  BY <1>1, <1>2, DirectoryFacts
<1>4. Lookup(v, Append(p, e.name)) = Step(v, ino, e.name)
  BY <1>1, StepFacts, AlongAppend DEF Lookup
<1>5. Step(v, ino, e.name) = IF named = {} THEN 0 ELSE (CHOOSE f \in named : TRUE).inode
  BY <1>2, <1>3 DEF Step
<1>6. e \in named /\ named \subseteq Kept(dir)
  BY <1>2 DEF Kept
<1> HIDE DEF ino, dir
<1>7. \A f \in named : f = e
  BY <1>3, <1>6 DEF UniqueNames
<1> HIDE DEF named
<1>8. (CHOOSE f \in named : TRUE) = e
  BY <1>6, <1>7
<1>. QED
  BY <1>4, <1>5, <1>6, <1>8

\* A path ends in one way.
LEMMA AppendIsOneToOne ==
    ASSUME NEW p \in Path, NEW q \in Path, NEW m, NEW n, Append(p, m) = Append(q, n)
    PROVE  p = q /\ m = n
<1>1. Len(p) = Len(q) /\ Len(p) \in Nat /\ Len(q) \in Nat
  <2>1. Len(p) + 1 = Len(q) + 1 /\ Len(p) \in Nat /\ Len(q) \in Nat
    BY StepFacts
  <2>. QED
    BY <2>1
<1>2. m = n
  BY <1>1, StepFacts
<1>3. \A i \in 1..Len(p) : p[i] = q[i]
  BY <1>1, StepFacts
<1>. QED
  BY <1>1, <1>2, <1>3, SeqEqual DEF Path

\* A child of a directory is entered if it is one and its entry says so.
LEMMA ChildEntered ==
    ASSUME NEW v, SoundVolume(v), NEW p \in Path, IsDirectory(v, p), NEW e \in ChildEntries(v, p)
    PROVE  /\ IsEntered(v, Append(p, e.name)) <=>
                 TakenForDirectory(e) /\ e.inode # 0 /\ v.inodes[e.inode].dir
           /\ e \in SpecialEntries(v, p) <=>
                 TakenForDirectory(e) /\ e.inode # 0 /\ ~v.inodes[e.inode].dir
<1> DEFINE q == Append(p, e.name)
<1>1. q \in Path /\ e.name \in Names
  BY ChildrenFacts
<1>2. IsDirectory(v, q) <=> e.inode # 0 /\ v.inodes[e.inode].dir
  BY ChildLookup DEF IsDirectory
<1>3. Front(q) = p /\ Last(q) = e.name /\ q # <<>>
  <2>1. Front(q) = p
    BY <1>1, PathAppend
  <2>2. Len(q) = Len(p) + 1 /\ Len(p) \in Nat /\ q[Len(p) + 1] = e.name
    BY StepFacts
  <2>3. Last(q) = e.name
    BY <2>2 DEF Last
  <2>4. q # <<>>
    BY <1>1, <2>2, EmptySeq
  <2>. QED
    BY <2>1, <2>3, <2>4
<1>4. (\E f \in ChildEntries(v, p) : f.name = e.name /\ TakenForDirectory(f)) <=> TakenForDirectory(e)
  BY ChildrenFacts DEF UniqueNames
<1>5. IsEntered(v, q) <=> IsDirectory(v, q) /\ TakenForDirectory(e)
  <2> HIDE DEF q
  <2>. QED
    BY <1>3, <1>4 DEF IsEntered
<1>. QED
  BY <1>2, <1>5 DEF SpecialEntries

\* One more path.
Also(listed, path) == listed \cup {path}

\* One more path is listed: in its directory one more entry, ...
LEMMA ListedGrows ==
    ASSUME NEW v, SoundVolume(v), NEW p \in Path, IsDirectory(v, p), NEW e \in ChildEntries(v, p),
           NEW listed
    PROVE  ListedIn(v, Also(listed, Append(p, e.name)), p) = ListedIn(v, listed, p) \cup {e}
<1>1. \A f \in ChildEntries(v, p) : Append(p, f.name) = Append(p, e.name) => f = e
  <2> SUFFICES ASSUME NEW f \in ChildEntries(v, p), Append(p, f.name) = Append(p, e.name)
               PROVE  f = e
    OBVIOUS
  <2>1. f.name = e.name
    BY AppendIsOneToOne
  <2>. QED
    BY <2>1, ChildrenFacts DEF UniqueNames
<1>. QED
  BY <1>1, Zenon DEF ListedIn, Also

\* ... elsewhere nothing.
LEMMA ListedElsewhere ==
    ASSUME NEW v, NEW p \in Path, NEW n, NEW q \in Path, q # p, NEW listed
    PROVE  ListedIn(v, Also(listed, Append(p, n)), q) = ListedIn(v, listed, q)
<1>1. ASSUME NEW f \in ChildEntries(v, q)
      PROVE  Append(q, f.name) # Append(p, n)
  BY AppendIsOneToOne
<1>. QED
  BY <1>1, Zenon DEF ListedIn, Also

\* What was listed stays so.
LEMMA ListedMonotone ==
    ASSUME NEW v, NEW listed, NEW more, listed \subseteq more, NEW p
    PROVE  ListedIn(v, listed, p) \subseteq ListedIn(v, more, p)
BY DEF ListedIn

\* The beginnings of a path and of one that is a step longer.
LEMMA AboveFacts ==
    ASSUME NEW p \in Path
    PROVE  /\ DOMAIN p = 1..Len(p) /\ Len(p) \in Nat
           /\ \A i \in 0..Len(p) : /\ SubSeq(p, 1, i) \in Path /\ Len(SubSeq(p, 1, i)) = i
                                   /\ \A k \in 1..i : SubSeq(p, 1, i)[k] = p[k]
           /\ SubSeq(p, 1, 0) = <<>>
           /\ SubSeq(p, 1, Len(p)) = p
           /\ \A i \in 1..Len(p) : SubSeq(p, 1, i) = Append(SubSeq(p, 1, i - 1), p[i])
<1>1. p \in Seq(Names) /\ DOMAIN p = 1..Len(p) /\ Len(p) \in Nat
  BY DEF Path
<1>2. ASSUME NEW i \in 0..Len(p)
      PROVE  /\ SubSeq(p, 1, i) \in Path /\ Len(SubSeq(p, 1, i)) = i
             /\ \A k \in 1..i : SubSeq(p, 1, i)[k] = p[k]
  <2>1. 0 \in Nat /\ i \in Nat /\ 0 + i <= Len(p) /\ 0 + 1 = 1 /\ 0 + i = i /\ \A k \in 1..i : 0 + k = k
    BY <1>1
  <2>2. /\ SubSeq(p, 0 + 1, 0 + i) \in Seq(Names) /\ Len(SubSeq(p, 0 + 1, 0 + i)) = i
        /\ \A k \in 1..i : SubSeq(p, 0 + 1, 0 + i)[k] = p[0 + k]
    BY <1>1, <2>1, SliceFacts
  <2>. QED
    BY <2>1, <2>2 DEF Path
<1>3. SubSeq(p, 1, 0) = <<>>
  <2>1. 0 \in 0..Len(p)
    BY <1>1
  <2>. QED
    BY <1>2, <2>1, EmptySeq DEF Path
<1>4. SubSeq(p, 1, Len(p)) = p
  <2>1. Len(p) \in 0..Len(p)
    BY <1>1
  <2>. QED
    BY <1>1, <1>2, <2>1, SeqEqual DEF Path
<1>5. ASSUME NEW i \in 1..Len(p)
      PROVE  SubSeq(p, 1, i) = Append(SubSeq(p, 1, i - 1), p[i])
  <2> DEFINE above == SubSeq(p, 1, i - 1)
             here == SubSeq(p, 1, i)
  <2>1. i \in 0..Len(p) /\ i - 1 \in 0..Len(p) /\ i \in Nat
    BY <1>1
  <2>2. /\ above \in Path /\ Len(above) = i - 1 /\ \A k \in 1..(i - 1) : above[k] = p[k]
        /\ here \in Path /\ Len(here) = i /\ \A k \in 1..i : here[k] = p[k]
    BY <1>2, <2>1
  <2>3. p[i] \in Names
    BY <1>1
  <2> HIDE DEF above, here
  <2>4. /\ Append(above, p[i]) \in Path /\ Len(Append(above, p[i])) = i
        /\ \A k \in 1..(i - 1) : Append(above, p[i])[k] = p[k]
        /\ Append(above, p[i])[i] = p[i]
    <3>1. /\ Len(Append(above, p[i])) = Len(above) + 1
          /\ \A k \in 1..Len(above) : Append(above, p[i])[k] = above[k]
          /\ Append(above, p[i])[Len(above) + 1] = p[i]
      BY <2>2, StepFacts
    <3>. QED
      BY <2>1, <2>2, <2>3, <3>1, PathAppend
  <2>5. \A k \in 1..i : here[k] = Append(above, p[i])[k]
    <3>1. \A k \in 1..i : k = i \/ k \in 1..(i - 1)
      BY <2>1
    <3>. QED
      BY <2>2, <2>4, <3>1
  <2>6. here = Append(above, p[i])
    BY <2>2, <2>4, <2>5, SeqEqual DEF Path
  <2>. QED
    BY <2>6 DEF above, here
<1>. QED
  BY <1>1, <1>2, <1>3, <1>4, <1>5

\* Its beginnings are those of the one it was made from.
LEMMA AboveAppend ==
    ASSUME NEW p \in Path, NEW n, Append(p, n) \in Path, NEW i \in 1..(Len(p) + 1)
    PROVE  SubSeq(Append(p, n), 1, i - 1) = SubSeq(p, 1, i - 1)
<1> DEFINE q == Append(p, n)
<1>1. Len(p) \in Nat /\ Len(q) = Len(p) + 1 /\ \A k \in 1..Len(p) : q[k] = p[k]
  BY StepFacts
<1>2. i - 1 \in 0..Len(p) /\ i - 1 \in 0..Len(q)
  BY <1>1
<1> HIDE DEF q
<1>3. /\ SubSeq(q, 1, i - 1) \in Path /\ Len(SubSeq(q, 1, i - 1)) = i - 1
      /\ \A k \in 1..(i - 1) : SubSeq(q, 1, i - 1)[k] = q[k]
  BY <1>2, AboveFacts DEF q
<1>4. /\ SubSeq(p, 1, i - 1) \in Path /\ Len(SubSeq(p, 1, i - 1)) = i - 1
      /\ \A k \in 1..(i - 1) : SubSeq(p, 1, i - 1)[k] = p[k]
  BY <1>2, AboveFacts
<1>5. \A k \in 1..(i - 1) : k \in 1..Len(p)
  BY <1>1
<1>6. SubSeq(q, 1, i - 1) = SubSeq(p, 1, i - 1)
  BY <1>1, <1>3, <1>4, <1>5, SeqEqual DEF Path
<1>. QED
  BY <1>6 DEF q

\* Below a path that is reached, what is listed is.
LEMMA ReachedGrows ==
    ASSUME NEW v, NEW listed, NEW p \in Path, Reached(v, listed, p), IsEntered(v, p),
           NEW e \in ListedIn(v, listed, p), Append(p, e.name) \in Path
    PROVE  Reached(v, listed, Append(p, e.name))
<1> DEFINE q == Append(p, e.name)
<1>1. Len(p) \in Nat /\ Len(q) = Len(p) + 1 /\ q[Len(p) + 1] = e.name /\ \A i \in 1..Len(p) : q[i] = p[i]
  BY StepFacts
<1>2. \A i \in 1..(Len(p) + 1) : SubSeq(q, 1, i - 1) = SubSeq(p, 1, i - 1)
  BY AboveAppend
<1>3. ASSUME NEW i \in DOMAIN q
      PROVE  /\ IsEntered(v, SubSeq(q, 1, i - 1))
             /\ \E f \in ListedIn(v, listed, SubSeq(q, 1, i - 1)) : f.name = q[i]
  <2>1. i \in 1..(Len(p) + 1) /\ DOMAIN p = 1..Len(p)
    BY <1>1, AboveFacts
  <2>2. SubSeq(q, 1, i - 1) = SubSeq(p, 1, i - 1)
    BY <1>2, <2>1
  <2>3. CASE i = Len(p) + 1
    <3>1. i - 1 = Len(p)
      BY <1>1, <2>3
    <3>2. SubSeq(p, 1, i - 1) = p
      BY <3>1, AboveFacts
    <3>. QED
      BY <1>1, <2>2, <2>3, <3>2
  <2>4. CASE i # Len(p) + 1
    <3>1. i \in DOMAIN p /\ q[i] = p[i]
      BY <1>1, <2>1, <2>4
    <3>. QED
      BY <2>2, <3>1 DEF Reached
  <2>. QED
    BY <2>3, <2>4
<1>. QED
  BY <1>3 DEF Reached

\* What was reached stays so.
LEMMA ReachedMonotone ==
    ASSUME NEW v, NEW listed, NEW more, listed \subseteq more, NEW p, Reached(v, listed, p)
    PROVE  Reached(v, more, p)
BY ListedMonotone DEF Reached

\* The beginnings of a path that is reached are listed.
LEMMA ReachedAbove ==
    ASSUME NEW v, NEW listed, NEW p \in Path, Reached(v, listed, p), NEW i \in 1..Len(p)
    PROVE  SubSeq(p, 1, i) \in listed
<1>1. i \in DOMAIN p /\ SubSeq(p, 1, i) = Append(SubSeq(p, 1, i - 1), p[i])
  BY AboveFacts
<1>. QED
  BY <1>1 DEF Reached, ListedIn

\* Below a path that is not listed nothing is, except below the root.
LEMMA NothingBelow ==
    ASSUME NEW v, NEW listed, listed \subseteq Path, \A q \in listed : Reached(v, listed, q),
           NEW p \in Path, p # <<>>, p \notin listed
    PROVE  ListedIn(v, listed, p) = {}
<1> SUFFICES ASSUME NEW e \in ListedIn(v, listed, p) PROVE FALSE
  OBVIOUS
<1> DEFINE q == Append(p, e.name)
<1>1. q \in listed /\ q \in Path /\ Reached(v, listed, q)
  BY DEF ListedIn
<1>2. Len(p) \in Nat /\ Len(p) # 0 /\ Len(q) = Len(p) + 1
  BY StepFacts, EmptySeq DEF Path
<1>3. Len(p) \in 1..Len(q) /\ Len(p) + 1 \in 1..(Len(p) + 1) /\ (Len(p) + 1) - 1 = Len(p)
  BY <1>2
<1>4. SubSeq(q, 1, Len(p)) = p
  <2>1. SubSeq(Append(p, e.name), 1, (Len(p) + 1) - 1) = SubSeq(p, 1, (Len(p) + 1) - 1)
    BY <1>1, <1>3, AboveAppend
  <2>. QED
    BY <1>3, <2>1, AboveFacts
<1> HIDE DEF q
<1>5. SubSeq(q, 1, Len(p)) \in listed
  BY <1>1, <1>3, ReachedAbove
<1>. QED
  BY <1>4, <1>5

\* Of some entries one has the least type.
LEMMA LeastType ==
    ASSUME NEW E, E # {}, \A e \in E : e.type \in Nat
    PROVE  \E last \in E : \A f \in E : last.type <= f.type
<1> DEFINE types == {e.type : e \in E}
<1>1. types \subseteq Nat /\ types # {}
  OBVIOUS
<1>2. PICK t \in types : \A u \in types : t <= u
  <2> HIDE DEF types
  <2>. QED
    BY <1>1, LeastNumber
<1>3. PICK last \in E : last.type = t
  BY <1>2
<1>. QED
  BY <1>2, <1>3

\* What a directory's activation has taken, before it gives up, is part of what can be
\* listed of the directory.
LEMMA TakenFits ==
    ASSUME NEW v, SoundVolume(v), NEW p \in Path, IsDirectory(v, p),
           NEW taken, taken \subseteq ChildEntries(v, p), taken \cap SpecialEntries(v, p) = {},
           \A e \in taken, f \in ChildEntries(v, p) \ taken : e.type <= f.type
    PROVE  \E S \in ListedOf(v, p) : taken \subseteq S
<1> DEFINE all == ChildEntries(v, p)
           special == SpecialEntries(v, p)
<1>1. \A e \in all : e.type \in Nat
  BY ChildrenFacts
<1>2. special \subseteq all
  BY DEF SpecialEntries
<1>3. CASE special = {}
  <2>1. all \in ListedOf(v, p)
    BY <1>3, Zenon DEF ListedOf
  <2>. QED
    BY <2>1
<1>4. CASE special # {}
  <2>1. PICK last \in special : \A f \in special : last.type <= f.type
    BY <1>1, <1>2, <1>4, LeastType
  <2> DEFINE S == taken \cup {f \in all : f.type < last.type} \cup {last}
  <2>2. last \in all /\ last \notin taken /\ last.type \in Nat
    BY <1>1, <1>2, <2>1
  <2>3. S \subseteq all /\ last \in S
    BY <2>2
  <2>4. \A f \in special : f \in S => f = last
    <3> SUFFICES ASSUME NEW f \in special, f \in S PROVE f = last
      OBVIOUS
    <3>1. f \notin taken
      OBVIOUS
    <3>2. ~(f.type < last.type)
      BY <1>1, <1>2, <2>1, <2>2
    <3>. QED
      BY <3>1, <3>2
  <2>5. \A e \in S : e.type <= last.type
    <3> SUFFICES ASSUME NEW e \in S PROVE e.type <= last.type
      OBVIOUS
    <3>1. e.type \in Nat
      BY <1>1, <2>3
    <3>2. CASE e \in taken
      BY <2>2, <3>2
    <3>3. CASE e \notin taken
      BY <2>2, <3>1, <3>3
    <3>. QED
      BY <3>2, <3>3
  <2>6. \A f \in all \ S : last.type <= f.type
    BY <1>1, <2>2
  <2> HIDE DEF S
  <2>7. S \cap special = {last}
    BY <2>1, <2>3, <2>4
  <2>8. S \in ListedOf(v, p)
    BY <2>3, <2>5, <2>6, <2>7 DEF ListedOf
  <2>9. taken \subseteq S
    BY DEF S
  <2>. QED
    BY <2>8, <2>9
<1>. QED
  BY <1>3, <1>4

AtMostOne(S) == \A d, e \in S : d = e

\* An activation's directory, at any time, ...
LEMMA WalkingFits ==
    ASSUME NEW v, SoundVolume(v), NEW listed, NEW frame, frame.path \in Path, NEW file, NEW down,
           Walking(v, listed, frame, file, down), AtMostOne(down)
    PROVE  \E S \in ListedOf(v, frame.path) : ListedIn(v, listed, frame.path) \subseteq S
<1> DEFINE p == frame.path
           all == ChildEntries(v, p)
           special == SpecialEntries(v, p)
           taken == all \ frame.todo
<1>1. IsDirectory(v, p) /\ frame.todo \subseteq all /\ down \subseteq taken
  BY Zenon DEF Walking, IsEntered
<1>2. /\ ListedIn(v, listed, p) = taken \ file
      /\ \A e \in taken, f \in frame.todo : e.type <= f.type
      /\ taken \cap special \subseteq down
      /\ \A d \in down, e \in taken : e.type <= d.type
  BY Zenon DEF Walking
<1>3. CASE taken \cap special = {}
  <2>1. \A e \in taken, f \in all \ taken : e.type <= f.type
    BY <1>2
  <2>2. p \in Path /\ taken \subseteq all
    OBVIOUS
  <2> HIDE DEF taken, p
  <2>3. \E S \in ListedOf(v, p) : taken \subseteq S
    BY <1>1, <1>3, <2>1, <2>2, TakenFits DEF all, special
  <2>. QED
    BY <1>2, <2>3 DEF p
<1>4. CASE taken \cap special # {}
  <2>1. PICK last : last \in taken /\ last \in special
    BY <1>4
  <2>2. last \in down
    BY <1>2, <2>1
  <2>3. taken \cap special = {last}
    BY <1>2, <2>1, <2>2 DEF AtMostOne
  <2>4. \A e \in taken : e.type <= last.type
    BY <1>2, <2>2
  <2>5. \A f \in all \ taken : last.type <= f.type
    BY <1>2, <2>1
  <2>6. taken \subseteq all
    OBVIOUS
  <2> HIDE DEF taken
  <2>7. taken \in ListedOf(v, p)
    BY <2>1, <2>3, <2>4, <2>5, <2>6 DEF ListedOf
  <2>. QED
    BY <1>2, <2>7
<1>. QED
  BY <1>3, <1>4

\* ... when its loop is over, and when it gives up.
LEMMA WalkingEnds ==
    ASSUME NEW v, SoundVolume(v), NEW listed, NEW frame,
           Walking(v, listed, frame, {}, {}), frame.todo = {}
    PROVE  ListedIn(v, listed, frame.path) \in ListedOf(v, frame.path)
<1> DEFINE p == frame.path
           all == ChildEntries(v, p)
           special == SpecialEntries(v, p)
<1>1. /\ ListedIn(v, listed, p) = (all \ frame.todo) \ {}
      /\ (all \ frame.todo) \cap special \subseteq {}
  BY Zenon DEF Walking
<1>2. ListedIn(v, listed, p) = all /\ all \cap special = {}
  BY <1>1
<1>3. special \subseteq all
  BY DEF SpecialEntries
<1>4. special = {}
  BY <1>2, <1>3
<1>. QED
  BY <1>2, <1>4, Zenon DEF ListedOf

LEMMA WalkingGivesUp ==
    ASSUME NEW v, SoundVolume(v), NEW listed, NEW frame, NEW last,
           Walking(v, listed, frame, {}, {last}), last \in SpecialEntries(v, frame.path)
    PROVE  ListedIn(v, listed, frame.path) \in ListedOf(v, frame.path)
<1> DEFINE p == frame.path
           all == ChildEntries(v, p)
           special == SpecialEntries(v, p)
           taken == all \ frame.todo
<1>1. /\ ListedIn(v, listed, p) = taken \ {}
      /\ {} \cup {last} \subseteq taken
      /\ \A e \in taken, f \in frame.todo : e.type <= f.type
      /\ taken \cap special \subseteq {last}
      /\ \A d \in {last}, e \in taken : e.type <= d.type
  BY Zenon DEF Walking
<1>2. ListedIn(v, listed, p) = taken /\ last \in taken /\ taken \subseteq all
  BY <1>1
<1>3. taken \cap special = {last}
  BY <1>1, <1>2
<1>4. \A e \in taken : e.type <= last.type
  BY <1>1
<1>5. \A f \in all \ taken : last.type <= f.type
  BY <1>1, <1>2
<1> HIDE DEF taken
<1>6. taken \in ListedOf(v, p)
  BY <1>2, <1>3, <1>4, <1>5 DEF ListedOf
<1>. QED
  BY <1>2, <1>6

\* The paths within so many directories of the root: the recursion computed.
Possible(v, p) ==
    \A i \in DOMAIN p :
        LET above == SubSeq(p, 1, i - 1)
        IN  IsEntered(v, above) /\ \E e \in ChildEntries(v, above) : e.name = p[i]

\* What the recursion adds in one step.
Wider(v, P) ==
    P \cup UNION {{Append(p, e.name) : e \in ChildEntries(v, p)} : p \in {q \in P : IsEntered(v, q)}}

LEMMA WiderFacts ==
    ASSUME NEW v, SoundVolume(v), NEW P, P \subseteq Path
    PROVE  /\ Wider(v, P) \subseteq Path
           /\ \A q : q \in Wider(v, P) <=>
                 \/ q \in P
                 \/ \E p \in P : IsEntered(v, p) /\ \E e \in ChildEntries(v, p) : q = Append(p, e.name)
<1>1. \A q : q \in Wider(v, P) <=>
                 \/ q \in P
                 \/ \E p \in P : IsEntered(v, p) /\ \E e \in ChildEntries(v, p) : q = Append(p, e.name)
  <2> DEFINE D == {p \in P : IsEntered(v, p)}
             Below(p) == {Append(p, e.name) : e \in ChildEntries(v, p)}
             U == UNION {Below(p) : p \in D}
  <2>1. Wider(v, P) = P \cup U
    BY DEF Wider
  <2> HIDE DEF Below
  <2>2. \A q : q \in U <=> \E p \in P : IsEntered(v, p) /\ q \in Below(p)
    OBVIOUS
  <2>3. \A p : \A q : q \in Below(p) <=> \E e \in ChildEntries(v, p) : q = Append(p, e.name)
    BY DEF Below
  <2> HIDE DEF U
  <2> SUFFICES ASSUME NEW q
               PROVE  q \in Wider(v, P) <=>
                         \/ q \in P
                         \/ \E p \in P : IsEntered(v, p) /\ \E e \in ChildEntries(v, p) : q = Append(p, e.name)
    OBVIOUS
  <2>4. q \in U => \E p \in P : IsEntered(v, p) /\ \E e \in ChildEntries(v, p) : q = Append(p, e.name)
    BY <2>2, <2>3
  <2>5. ASSUME NEW p \in P, IsEntered(v, p), NEW e \in ChildEntries(v, p), q = Append(p, e.name)
        PROVE  q \in U
    BY <2>2, <2>3, <2>5
  <2>. QED
    BY <2>1, <2>4, <2>5
<1>2. ASSUME NEW p \in P, IsEntered(v, p), NEW e \in ChildEntries(v, p)
      PROVE  Append(p, e.name) \in Path
  BY <1>2, ChildrenFacts DEF IsEntered
<1>3. ASSUME NEW q \in Wider(v, P) PROVE q \in Path
  <2>1. CASE q \in P
    BY <2>1
  <2>2. CASE q \notin P
    <3>1. PICK p \in P : IsEntered(v, p) /\ \E e \in ChildEntries(v, p) : q = Append(p, e.name)
      BY <1>1, <2>2
    <3>. QED
      BY <1>2, <3>1
  <2>. QED
    BY <2>1, <2>2
<1>. QED
  BY <1>1, <1>3, Zenon

LEMMA PossibleStep ==
    ASSUME NEW v, NEW p \in Path, NEW n, Append(p, n) \in Path
    PROVE  Possible(v, Append(p, n)) <=>
             Possible(v, p) /\ IsEntered(v, p) /\ \E e \in ChildEntries(v, p) : e.name = n
<1> DEFINE q == Append(p, n)
           Goes(r, i) == /\ IsEntered(v, SubSeq(r, 1, i - 1))
                         /\ \E e \in ChildEntries(v, SubSeq(r, 1, i - 1)) : e.name = r[i]
<1>1. Len(p) \in Nat /\ Len(q) = Len(p) + 1 /\ q[Len(p) + 1] = n /\ \A i \in 1..Len(p) : q[i] = p[i]
  BY StepFacts
<1>2. \A i \in 1..(Len(p) + 1) : SubSeq(q, 1, i - 1) = SubSeq(p, 1, i - 1)
  BY AboveAppend
<1>3. DOMAIN p = 1..Len(p) /\ DOMAIN q = 1..(Len(p) + 1) /\ SubSeq(p, 1, Len(p)) = p
  BY <1>1, AboveFacts
<1>4. (Len(p) + 1) - 1 = Len(p) /\ Len(p) + 1 \in 1..(Len(p) + 1) /\ 1..Len(p) \subseteq 1..(Len(p) + 1)
      /\ \A i \in 1..(Len(p) + 1) : i = Len(p) + 1 \/ i \in 1..Len(p)
  BY <1>1
<1>5. (Possible(v, q) <=> \A i \in DOMAIN q : Goes(q, i)) /\ (Possible(v, p) <=> \A i \in DOMAIN p : Goes(p, i))
  BY Zenon DEF Possible
<1>6. \A i \in 1..Len(p) : Goes(q, i) <=> Goes(p, i)
  BY <1>1, <1>2, <1>4
<1>7. Goes(q, Len(p) + 1) <=> IsEntered(v, p) /\ \E e \in ChildEntries(v, p) : e.name = n
  BY <1>1, <1>2, <1>3, <1>4
<1> HIDE DEF q, Goes
<1>8. Possible(v, q) <=> Possible(v, p) /\ Goes(q, Len(p) + 1)
  BY <1>3, <1>4, <1>5, <1>6
<1>. QED
  BY <1>7, <1>8 DEF q

\* The recursion of PathsWithin exists, and finds the paths along directories that are
\* entered.
LEMMA WithinFacts ==
    ASSUME NEW v, SoundVolume(v), NEW depth \in Nat
    PROVE  /\ PathsWithin(v, depth) \subseteq Path
           /\ \A p \in Path : p \in PathsWithin(v, depth) <=> Len(p) <= depth /\ Possible(v, p)
<1> DEFINE Is(g) == g = [n \in 0..depth |-> IF n = 0 THEN {<<>>} ELSE Wider(v, g[n - 1])]
           A == CHOOSE g : Is(g)
<1>1. PathsWithin(v, depth) = A[depth]
  BY DEF PathsWithin, Wider
<1>2. Is(A)
  <2> DEFINE S == SUBSET Path
             F == [n \in 1..depth |-> [P \in S |-> Wider(v, P)]]
             base == {<<>>}
  <2>1. F \in [1..depth -> [S -> S]]
    BY WiderFacts
  <2>2. base \in S
    BY DEF Path
  <2> HIDE DEF S, F, base, Is, A
  <2>3. PICK f \in [0..depth -> S] : f[0] = base /\ \A n \in 1..depth : f[n] = F[n][f[n - 1]]
    BY <2>1, <2>2, RecursionExists
  <2>4. ASSUME NEW n \in 1..depth PROVE f[n] = Wider(v, f[n - 1])
    <3>1. n - 1 \in 0..depth
      OBVIOUS
    <3>2. f[n - 1] \in S /\ f[n] = F[n][f[n - 1]]
      BY <2>3, <3>1
    <3>. QED
      BY <3>2 DEF F
  <2>5. \A n \in 0..depth : f[n] = IF n = 0 THEN {<<>>} ELSE Wider(v, f[n - 1])
    BY <2>3, <2>4 DEF base
  <2>6. f = [n \in 0..depth |-> f[n]]
    BY <2>3
  <2>7. Is(f)
    BY <2>5, <2>6 DEF Is
  <2>. QED
    BY <2>7 DEF A
<1> HIDE DEF A
<1>3. /\ A[0] = {<<>>}
      /\ \A n \in Nat : n + 1 <= depth => A[n + 1] = Wider(v, A[n])
  <2>1. \A n \in 0..depth : A[n] = IF n = 0 THEN {<<>>} ELSE Wider(v, A[n - 1])
    BY <1>2
  <2>2. 0 \in 0..depth /\ \A n \in Nat : n + 1 <= depth => n + 1 \in 0..depth /\ (n + 1) - 1 = n /\ n + 1 # 0
    OBVIOUS
  <2>. QED
    BY <2>1, <2>2
<1> HIDE DEF Is
<1> DEFINE Right(n) == /\ A[n] \subseteq Path
                       /\ \A p \in Path : p \in A[n] <=> Len(p) <= n /\ Possible(v, p)
           T == {n \in Nat : n <= depth => Right(n)}
<1>4. 0 \in T
  <2>1. A[0] \subseteq Path
    BY <1>3 DEF Path
  <2>2. ASSUME NEW p \in Path PROVE p \in A[0] <=> Len(p) <= 0 /\ Possible(v, p)
    <3>1. Len(p) \in Nat /\ (Len(p) = 0 <=> p = <<>>)
      BY EmptySeq DEF Path
    <3>2. p = <<>> => Possible(v, p)
      BY DEF Possible
    <3>. QED
      BY <1>3, <3>1, <3>2
  <2>. QED
    BY <2>1, <2>2
<1>5. ASSUME NEW n \in Nat, n \in T PROVE n + 1 \in T
  <2> SUFFICES ASSUME n + 1 <= depth PROVE Right(n + 1)
    OBVIOUS
  <2>1. Right(n) /\ A[n + 1] = Wider(v, A[n])
    BY <1>3, <1>5
  <2>2. A[n + 1] \subseteq Path
    BY <2>1, WiderFacts
  <2>3. \A q : q \in A[n + 1] <=>
                 \/ q \in A[n]
                 \/ \E p \in A[n] : IsEntered(v, p) /\ \E e \in ChildEntries(v, p) : q = Append(p, e.name)
    BY <2>1, WiderFacts
  <2>4. ASSUME NEW q \in Path, q \in A[n + 1] PROVE Len(q) <= n + 1 /\ Possible(v, q)
    <3>1. CASE q \in A[n]
      <4>1. Len(q) <= n /\ Possible(v, q) /\ Len(q) \in Nat
        BY <2>1, <3>1 DEF Path
      <4>. QED
        BY <4>1
    <3>2. CASE q \notin A[n]
      <4>1. PICK p \in A[n] : IsEntered(v, p) /\ \E e \in ChildEntries(v, p) : q = Append(p, e.name)
        BY <2>3, <2>4, <3>2
      <4>2. PICK e \in ChildEntries(v, p) : q = Append(p, e.name)
        BY <4>1
      <4>3. p \in Path /\ Len(p) <= n /\ Possible(v, p)
        BY <2>1
      <4>4. Possible(v, q)
        BY <4>1, <4>2, <4>3, PossibleStep
      <4>5. Len(q) = Len(p) + 1 /\ Len(p) \in Nat
        BY <4>2, <4>3, StepFacts
      <4>. QED
        BY <4>3, <4>4, <4>5
    <3>. QED
      BY <3>1, <3>2
  <2>5. ASSUME NEW q \in Path, Len(q) <= n + 1, Possible(v, q) PROVE q \in A[n + 1]
    <3>1. CASE Len(q) <= n
      BY <2>1, <2>3, <2>5, <3>1
    <3>2. CASE ~(Len(q) <= n)
      <4> DEFINE p == SubSeq(q, 1, n)
      <4>1. Len(q) = n + 1 /\ n \in 0..Len(q) /\ n + 1 \in 1..Len(q) /\ (n + 1) - 1 = n
        BY <2>5, <3>2 DEF Path
      <4>2. p \in Path /\ Len(p) = n
        BY <4>1, AboveFacts
      <4>3. q = Append(p, q[n + 1])
        <5>1. SubSeq(q, 1, n + 1) = Append(SubSeq(q, 1, (n + 1) - 1), q[n + 1]) /\ SubSeq(q, 1, Len(q)) = q
          BY <4>1, AboveFacts
        <5>. QED
          BY <4>1, <5>1
      <4> HIDE DEF p
      <4>4. Possible(v, p) /\ IsEntered(v, p) /\ \E e \in ChildEntries(v, p) : e.name = q[n + 1]
        <5> DEFINE m == q[n + 1]
        <5>1. Append(p, m) \in Path /\ Possible(v, Append(p, m))
          BY <2>5, <4>3
        <5> HIDE DEF m
        <5>2. Possible(v, p) /\ IsEntered(v, p) /\ \E e \in ChildEntries(v, p) : e.name = m
          BY <4>2, <5>1, PossibleStep
        <5>. QED
          BY <5>2 DEF m
      <4>5. p \in A[n]
        BY <2>1, <4>2, <4>4
      <4>. QED
        BY <2>3, <4>3, <4>4, <4>5
    <3>. QED
      BY <3>1, <3>2
  <2>. QED
    BY <2>2, <2>4, <2>5
<1>6. \A n \in Nat : n \in T
  <2> HIDE DEF T
  <2>. QED
    BY <1>4, <1>5, Induction
<1>7. Right(depth)
  BY <1>6
<1>. QED
  BY <1>1, <1>7

\* What is listed lies in a complete walk, if of every directory that is entered it is
\* part of what can be listed of it; and is one, if of every directory it is that.
LEMMA WalkCovered ==
    ASSUME NEW v \in Volumes, SoundVolume(v), NEW listed, listed \subseteq Path,
           \A p \in listed : p # <<>> /\ Len(p) <= MaxDepth /\ Reached(v, listed, p),
           \A p \in listed \cup {<<>>} :
              IsEntered(v, p) => \E S \in ListedOf(v, p) : ListedIn(v, listed, p) \subseteq S
    PROVE  \E W \in CompleteWalks[v] :
              /\ listed \subseteq W
              /\ (\A p \in listed \cup {<<>>} :
                     IsEntered(v, p) => ListedIn(v, listed, p) \in ListedOf(v, p)) => W = listed
<1> DEFINE Fits(p, S) == S \in ListedOf(v, p) /\ ListedIn(v, listed, p) \subseteq S
           Way(p) == IF ListedIn(v, listed, p) \in ListedOf(v, p) THEN ListedIn(v, listed, p)
                     ELSE CHOOSE S : Fits(p, S)
           paths == PathsWithin(v, MaxDepth)
           dirs == {p \in paths : IsEntered(v, p)}
           ways == {w \in [dirs -> UNION {ListedOf(v, p) : p \in dirs}] :
                        \A p \in dirs : w[p] \in ListedOf(v, p)}
           StepsListed(p, w) ==
               \A i \in DOMAIN p : \E e \in w[SubSeq(p, 1, i - 1)] : e.name = p[i]
           way == [p \in dirs |-> Way(p)]
           W == {p \in paths \ {<<>>} : StepsListed(p, way)}
<1>1. <<>> \in Path /\ MaxDepth \in Nat
  BY IndexerAssumption DEF Path
<1>2. /\ paths \subseteq Path
      /\ \A p \in Path : p \in paths <=> Len(p) <= MaxDepth /\ Possible(v, p)
  BY <1>1, WithinFacts
\* Of every directory the way is a part that can be listed, and has what is listed.
<1>3. ASSUME NEW p \in Path, IsEntered(v, p) PROVE Fits(p, Way(p))
  <2>1. \E S : Fits(p, S)
    <3>1. CASE p \in listed \cup {<<>>}
      BY <1>3, <3>1
    <3>2. CASE p \notin listed \cup {<<>>}
      <4>1. ListedIn(v, listed, p) = {}
        BY <3>2, NothingBelow
      <4>2. \E S \in ListedOf(v, p) : {} \subseteq S
        <5>1. IsDirectory(v, p)
          BY <1>3 DEF IsEntered
        <5> DEFINE none == {}
        <5>2. none \subseteq ChildEntries(v, p) /\ none \cap SpecialEntries(v, p) = {}
              /\ \A e \in none, f \in ChildEntries(v, p) \ none : e.type <= f.type
          OBVIOUS
        <5> HIDE DEF none
        <5>3. \E S \in ListedOf(v, p) : none \subseteq S
          BY <5>1, <5>2, TakenFits
        <5>. QED
          BY <5>3 DEF none
      <4>. QED
        BY <4>1, <4>2
    <3>. QED
      BY <3>1, <3>2
  <2>2. CASE ListedIn(v, listed, p) \in ListedOf(v, p)
    BY <2>2
  <2>3. CASE ListedIn(v, listed, p) \notin ListedOf(v, p)
    <3> HIDE DEF Fits
    <3>1. Fits(p, CHOOSE S : Fits(p, S))
      BY <2>1
    <3>. QED
      BY <2>3, <3>1
  <2>. QED
    BY <2>2, <2>3
<1> HIDE DEF Way, paths
<1>4. W \in CompleteWalks[v]
  <2>1. \A p \in dirs : way[p] \in ListedOf(v, p)
    BY <1>2, <1>3
  <2>2. way \in [dirs -> UNION {ListedOf(v, p) : p \in dirs}]
    <3> HIDE DEF dirs
    <3>. QED
      BY <2>1
  <2>3. way \in ways
    BY <2>1, <2>2
  <2>4. CompleteWalks[v] = {{p \in paths \ {<<>>} : StepsListed(p, w)} : w \in ways}
    BY Zenon DEF CompleteWalks, paths
  <2> HIDE DEF ways, way, StepsListed
  <2>. QED
    BY <2>3, <2>4
<1>5. listed \subseteq paths /\ <<>> \in paths
  <2>1. ASSUME NEW p \in listed PROVE p \in paths
    <3>1. p \in Path /\ Len(p) <= MaxDepth /\ Reached(v, listed, p)
      OBVIOUS
    <3>2. Possible(v, p)
      BY <3>1 DEF Reached, Possible, ListedIn
    <3>. QED
      BY <1>2, <3>1, <3>2
  <2>2. Len(<<>>) <= MaxDepth /\ Possible(v, <<>>)
    BY <1>1, EmptySeq DEF Possible
  <2>. QED
    BY <1>1, <1>2, <2>1, <2>2
<1>6. ASSUME NEW p \in listed, NEW i \in DOMAIN p
      PROVE  \E e \in way[SubSeq(p, 1, i - 1)] : e.name = p[i]
  <2> DEFINE above == SubSeq(p, 1, i - 1)
  <2>1. p \in Path /\ Reached(v, listed, p) /\ i \in 1..Len(p) /\ Len(p) \in Nat
    BY AboveFacts
  <2>2. above \in listed \cup {<<>>}
    <3>1. CASE i = 1
      <4>1. i - 1 = 0
        BY <3>1
      <4>. QED
        BY <2>1, <4>1, AboveFacts
    <3>2. CASE i # 1
      <4>1. i - 1 \in 1..Len(p)
        BY <2>1, <3>2
      <4>. QED
        BY <2>1, <4>1, ReachedAbove
    <3>. QED
      BY <3>1, <3>2
  <2>3. IsEntered(v, above) /\ \E e \in ListedIn(v, listed, above) : e.name = p[i]
    BY <2>1 DEF Reached
  <2> HIDE DEF above
  <2>4. above \in Path /\ above \in dirs
    BY <1>1, <1>5, <2>2, <2>3
  <2>5. ListedIn(v, listed, above) \subseteq way[above]
    BY <1>3, <2>3, <2>4
  <2>. QED
    BY <2>3, <2>5 DEF above
<1>7. listed \subseteq W
  <2> HIDE DEF way
  <2>. QED
    BY <1>5, <1>6
<1>8. ASSUME \A p \in listed \cup {<<>>} :
                IsEntered(v, p) => ListedIn(v, listed, p) \in ListedOf(v, p),
             NEW p \in W
      PROVE  p \in listed
  <2>1. p \in paths /\ p # <<>> /\ p \in Path /\ StepsListed(p, way)
    BY <1>2
  <2>2. Possible(v, p) /\ Len(p) \in Nat /\ Len(p) # 0 /\ DOMAIN p = 1..Len(p)
    BY <1>2, <2>1, EmptySeq DEF Path
  <2> DEFINE T == {i \in Nat : i <= Len(p) => SubSeq(p, 1, i) \in listed \cup {<<>>}}
  <2>3. 0 \in T
    BY <2>1, AboveFacts
  <2>4. ASSUME NEW i \in Nat, i \in T PROVE i + 1 \in T
    <3> DEFINE above == SubSeq(p, 1, i)
    <3> SUFFICES ASSUME i + 1 <= Len(p) PROVE SubSeq(p, 1, i + 1) \in listed
      OBVIOUS
    <3>1. i + 1 \in 1..Len(p) /\ (i + 1) - 1 = i /\ i <= Len(p)
      BY <2>2
    <3>2. above \in listed \cup {<<>>}
      BY <2>4, <3>1
    <3>3. IsEntered(v, above)
      <4>1. IsEntered(v, SubSeq(p, 1, (i + 1) - 1))
        BY <2>2, <3>1 DEF Possible
      <4>. QED
        BY <3>1, <4>1
    <3>4. \E e \in way[above] : e.name = p[i + 1]
      <4>1. \E e \in way[SubSeq(p, 1, (i + 1) - 1)] : e.name = p[i + 1]
        BY <2>1, <2>2, <3>1
      <4>. QED
        BY <3>1, <4>1
    <3>5. SubSeq(p, 1, i + 1) = Append(above, p[i + 1])
      <4>1. SubSeq(p, 1, i + 1) = Append(SubSeq(p, 1, (i + 1) - 1), p[i + 1])
        BY <2>1, <3>1, AboveFacts
      <4>. QED
        BY <3>1, <4>1
    <3> HIDE DEF above
    <3>6. above \in dirs /\ ListedIn(v, listed, above) \in ListedOf(v, above)
      BY <1>1, <1>5, <1>8, <3>2, <3>3
    <3>7. way[above] = ListedIn(v, listed, above)
      BY <3>6 DEF Way
    <3> HIDE DEF way
    <3>. QED
      BY <3>4, <3>5, <3>7 DEF ListedIn
  <2>5. \A i \in Nat : i \in T
    <3> HIDE DEF T
    <3>. QED
      BY <2>3, <2>4, Induction
  <2>6. SubSeq(p, 1, Len(p)) \in listed \cup {<<>>}
    BY <2>2, <2>5
  <2>. QED
    BY <2>1, <2>6, AboveFacts
<1>9. (\A p \in listed \cup {<<>>} :
           IsEntered(v, p) => ListedIn(v, listed, p) \in ListedOf(v, p)) => W = listed
  <2> DEFINE All == \A p \in listed \cup {<<>>} :
                       IsEntered(v, p) => ListedIn(v, listed, p) \in ListedOf(v, p)
  <2>1. All => W \subseteq listed
    BY <1>8
  <2> HIDE DEF All, W
  <2>2. All => W = listed
    BY <1>7, <2>1
  <2>. QED
    BY <2>2 DEF All
<1> HIDE DEF W
<1>. QED
  BY <1>4, <1>7, <1>9, Zenon

\* How Walking changes. The activation begins, ...
LEMMA WalkingStarts ==
    ASSUME NEW v, NEW listed, NEW path, IsEntered(v, path), path = <<>> \/ path \in listed,
           ListedIn(v, listed, path) = {}, NEW frame, frame.path = path, frame.todo = ChildEntries(v, path)
    PROVE  Walking(v, listed, frame, {}, {})
<1> DEFINE all == ChildEntries(v, path)
<1>1. all \ frame.todo = {}
  OBVIOUS
<1>2. /\ frame.todo \subseteq all
      /\ {} \cup {} \subseteq {}
      /\ ListedIn(v, listed, path) = {} \ {}
  OBVIOUS
<1>. QED
  BY <1>1, <1>2, Zenon DEF Walking

\* ... takes an entry, that it adds as a directory ...
LEMMA WalkingTakesDirectory ==
    ASSUME NEW v, SoundVolume(v), NEW listed, NEW frame, frame.path \in Path,
           Walking(v, listed, frame, {}, {}),
           NEW e \in frame.todo, \A f \in frame.todo : e.type <= f.type,
           NEW next, next.path = frame.path, next.todo = frame.todo \ {e}
    PROVE  Walking(v, Also(listed, Append(frame.path, e.name)), next, {}, {e})
<1> DEFINE p == frame.path
           all == ChildEntries(v, p)
           taken == all \ frame.todo
           more == Also(listed, Append(p, e.name))
           special == SpecialEntries(v, p)
<1>1. /\ IsEntered(v, p)
      /\ p = <<>> \/ p \in listed
      /\ frame.todo \subseteq all
      /\ ListedIn(v, listed, p) = taken \ {}
      /\ \A a \in taken, f \in frame.todo : a.type <= f.type
      /\ taken \cap special \subseteq {}
  BY Zenon DEF Walking
<1>2. e \in all /\ e.type \in Nat
  BY <1>1, ChildrenFacts DEF IsEntered
<1>3. all \ next.todo = taken \cup {e}
  BY <1>1, <1>2
<1>4. ListedIn(v, more, p) = taken \cup {e}
  <2>1. ListedIn(v, more, p) = ListedIn(v, listed, p) \cup {e}
    BY <1>1, <1>2, ListedGrows DEF IsEntered
  <2>. QED
    BY <1>1, <2>1
<1>5. \A a \in taken \cup {e}, f \in next.todo : a.type <= f.type
  BY <1>1
<1>6. \A d \in {e}, a \in taken \cup {e} : a.type <= d.type
  BY <1>1, <1>2
<1>7. (taken \cup {e}) \cap special \subseteq {e}
  BY <1>1
<1>8. p = <<>> \/ p \in more
  BY <1>1 DEF Also
<1>9. next.todo \subseteq all /\ {} \cup {e} \subseteq taken \cup {e} /\ taken \cup {e} = (taken \cup {e}) \ {}
  BY <1>1
<1> HIDE DEF all, taken, more, special
<1>10. next.path = p
  OBVIOUS
<1> HIDE DEF p
<1>11. /\ IsEntered(v, next.path)
       /\ next.path = <<>> \/ next.path \in more
       /\ next.todo \subseteq ChildEntries(v, next.path)
       /\ {} \cup {e} \subseteq ChildEntries(v, next.path) \ next.todo
       /\ ListedIn(v, more, next.path) = (ChildEntries(v, next.path) \ next.todo) \ {}
       /\ \A a \in ChildEntries(v, next.path) \ next.todo, f \in next.todo : a.type <= f.type
       /\ (ChildEntries(v, next.path) \ next.todo) \cap SpecialEntries(v, next.path) \subseteq {e}
       /\ \A d \in {e}, a \in ChildEntries(v, next.path) \ next.todo : a.type <= d.type
  BY <1>1, <1>3, <1>4, <1>5, <1>6, <1>7, <1>8, <1>9, <1>10, Zenon DEF all, special
<1>. QED
  BY <1>11, Zenon DEF Walking, more, p

\* ... or is going to read as a file.
LEMMA WalkingTakesFile ==
    ASSUME NEW v, SoundVolume(v), NEW listed, NEW frame, frame.path \in Path,
           Walking(v, listed, frame, {}, {}),
           NEW e \in frame.todo, \A f \in frame.todo : e.type <= f.type, ~TakenForDirectory(e),
           NEW next, next.path = frame.path, next.todo = frame.todo \ {e}
    PROVE  Walking(v, listed, next, {e}, {})
<1> DEFINE p == frame.path
           all == ChildEntries(v, p)
           taken == all \ frame.todo
           special == SpecialEntries(v, p)
<1>1. /\ IsEntered(v, p)
      /\ p = <<>> \/ p \in listed
      /\ frame.todo \subseteq all
      /\ ListedIn(v, listed, p) = taken \ {}
      /\ \A a \in taken, f \in frame.todo : a.type <= f.type
      /\ taken \cap special \subseteq {}
  BY Zenon DEF Walking
<1>3. all \ next.todo = taken \cup {e}
  BY <1>1
<1>4. ListedIn(v, listed, p) = (taken \cup {e}) \ {e}
  BY <1>1
<1>5. \A a \in taken \cup {e}, f \in next.todo : a.type <= f.type
  BY <1>1
<1>7. (taken \cup {e}) \cap special \subseteq {}
  BY <1>1 DEF SpecialEntries
<1>9. next.todo \subseteq all /\ {e} \cup {} \subseteq taken \cup {e}
  BY <1>1
<1> HIDE DEF all, taken, special
<1>10. next.path = p
  OBVIOUS
<1> HIDE DEF p
<1>11. /\ IsEntered(v, next.path)
       /\ next.path = <<>> \/ next.path \in listed
       /\ next.todo \subseteq ChildEntries(v, next.path)
       /\ {e} \cup {} \subseteq ChildEntries(v, next.path) \ next.todo
       /\ ListedIn(v, listed, next.path) = (ChildEntries(v, next.path) \ next.todo) \ {e}
       /\ \A a \in ChildEntries(v, next.path) \ next.todo, f \in next.todo : a.type <= f.type
       /\ (ChildEntries(v, next.path) \ next.todo) \cap SpecialEntries(v, next.path) \subseteq {}
  BY <1>1, <1>3, <1>4, <1>5, <1>7, <1>9, <1>10, Zenon DEF all, special
<1>. QED
  BY <1>11, Zenon DEF Walking

\* The file is listed.
LEMMA WalkingLists ==
    ASSUME NEW v, SoundVolume(v), NEW listed, NEW frame, frame.path \in Path, NEW e,
           Walking(v, listed, frame, {e}, {})
    PROVE  Walking(v, Also(listed, Append(frame.path, e.name)), frame, {}, {})
<1> DEFINE p == frame.path
           all == ChildEntries(v, p)
           taken == all \ frame.todo
           more == Also(listed, Append(p, e.name))
<1>1. /\ IsEntered(v, p)
      /\ p = <<>> \/ p \in listed
      /\ frame.todo \subseteq all
      /\ {e} \cup {} \subseteq taken
      /\ ListedIn(v, listed, p) = taken \ {e}
      /\ \A a \in taken, f \in frame.todo : a.type <= f.type
      /\ taken \cap SpecialEntries(v, p) \subseteq {}
  BY Zenon DEF Walking
<1>2. ListedIn(v, more, p) = taken \ {}
  <2>1. e \in all
    BY <1>1
  <2>2. ListedIn(v, more, p) = ListedIn(v, listed, p) \cup {e}
    BY <1>1, <2>1, ListedGrows DEF IsEntered
  <2>. QED
    BY <1>1, <2>2
<1>3. {} \cup {} \subseteq taken /\ (p = <<>> \/ p \in more)
  BY <1>1 DEF Also
<1> HIDE DEF more
<1>4. Walking(v, more, frame, {}, {})
  BY <1>1, <1>2, <1>3, Zenon DEF Walking
<1>. QED
  BY <1>4 DEF more

\* The directory is entered: its activation is on top of this one.
LEMMA WalkingWaits ==
    ASSUME NEW v, NEW listed, NEW frame, NEW d,
           Walking(v, listed, frame, {}, {d}), d \notin SpecialEntries(v, frame.path)
    PROVE  Walking(v, listed, frame, {}, {})
<1> DEFINE p == frame.path
           taken == ChildEntries(v, p) \ frame.todo
<1>1. /\ IsEntered(v, p)
      /\ p = <<>> \/ p \in listed
      /\ frame.todo \subseteq ChildEntries(v, p)
      /\ ListedIn(v, listed, p) = taken \ {}
      /\ \A a \in taken, f \in frame.todo : a.type <= f.type
      /\ taken \cap SpecialEntries(v, p) \subseteq {d}
  BY Zenon DEF Walking
<1>2. taken \cap SpecialEntries(v, p) \subseteq {} /\ {} \cup {} \subseteq taken
  BY <1>1
<1>. QED
  BY <1>1, <1>2, Zenon DEF Walking

\* In another directory an entry is listed.
LEMMA WalkingElsewhere ==
    ASSUME NEW v, NEW p \in Path, NEW n, NEW listed,
           NEW frame, frame.path \in Path, frame.path # p, NEW file, NEW down,
           Walking(v, listed, frame, file, down)
    PROVE  Walking(v, Also(listed, Append(p, n)), frame, file, down)
<1> DEFINE more == Also(listed, Append(p, n))
<1>1. ListedIn(v, more, frame.path) = ListedIn(v, listed, frame.path)
  BY ListedElsewhere
<1>2. frame.path \in listed => frame.path \in more
  BY DEF Also
<1> HIDE DEF more
<1>3. Walking(v, more, frame, file, down)
  BY <1>1, <1>2, Zenon DEF Walking
<1>. QED
  BY <1>3 DEF more

\* Below an entry that has not been taken nothing is listed.
LEMMA NothingBelowEntry ==
    ASSUME NEW v, SoundVolume(v), NEW listed, listed \subseteq Path,
           \A q \in listed : Reached(v, listed, q),
           NEW frame, frame.path \in Path, Walking(v, listed, frame, {}, {}), NEW e \in frame.todo
    PROVE  ListedIn(v, listed, Append(frame.path, e.name)) = {}
<1> DEFINE p == Append(frame.path, e.name)
<1>1. /\ IsEntered(v, frame.path) /\ frame.todo \subseteq ChildEntries(v, frame.path)
      /\ ListedIn(v, listed, frame.path) = (ChildEntries(v, frame.path) \ frame.todo) \ {}
  BY Zenon DEF Walking
<1>2. p \in Path
  BY <1>1, ChildrenFacts DEF IsEntered
<1>3. p # <<>>
  <2>1. Len(p) = Len(frame.path) + 1 /\ Len(frame.path) \in Nat
    BY StepFacts
  <2>2. Len(p) # 0
    BY <2>1
  <2>. QED
    BY <1>2, <2>2, EmptySeq DEF Path
<1>4. p \notin listed
  BY <1>1 DEF ListedIn
<1> HIDE DEF p
<1>5. ListedIn(v, listed, p) = {}
  BY <1>2, <1>3, <1>4, NothingBelow
<1>. QED
  BY <1>5 DEF p

\* A calm step: nothing has changed on the volume, and nothing does.
LEMMA CalmFacts ==
    ASSUME TypeOK, [Next]_vars, Calm', pc' # "aborted"
    PROVE  Calm /\ pc # "aborted" /\ vol' = vol
<1>1. good
  BY GoodStays DEF Calm
<1>2. CASE Rewrite
  <2>1. past \in Seq(Volumes) /\ past' = Append(past, vol)
    BY <1>2 DEF Rewrite, TypeOK
  <2>2. past' # <<>>
    BY <2>1
  <2>. QED
    BY <2>2 DEF Calm
<1>3. CASE ~Rewrite
  <2>1. UNCHANGED device
    BY <1>3 DEF Next, WalkStep, OpenVolume, LoadMetaData, GetInodeAborts, ReadJournal, ReadRoot,
                AddDirectory, Descend, NotADirectory, TakeFile, ReadFile, AddFile, Return, Abort, vars, device
  <2>2. pc # "aborted"
    BY <1>3 DEF Next, WalkStep, OpenVolume, LoadMetaData, GetInodeAborts, ReadJournal, ReadRoot,
                AddDirectory, Descend, NotADirectory, TakeFile, ReadFile, AddFile, Return, Abort, vars, WantsInode
  <2>. QED
    BY <1>1, <2>1, <2>2 DEF Calm, device
<1>. QED
  BY <1>2, <1>3

\* What is listed are paths.
LEMMA ListedPaths ==
    ASSUME TypeOK
    PROVE  Listed \subseteq Path
BY PathFacts DEF Listed

\* A document more, when all is calm.
LEMMA ListedMore ==
    ASSUME TypeOK, NEW d \in Doc, d.calm, docs' = Append(docs, d)
    PROVE  Listed' = Also(Listed, d.path)
<1>1. /\ DOMAIN docs' = DOMAIN docs \cup {Len(docs) + 1}
      /\ \A i \in DOMAIN docs : docs'[i] = docs[i]
      /\ docs'[Len(docs) + 1] = d
  BY AppendDoc
<1>2. \A p : p \in Listed' <=> \E i \in DOMAIN docs' : docs'[i].calm /\ docs'[i].path = p
  BY DEF Listed
<1>3. \A p : p \in Listed <=> \E i \in DOMAIN docs : docs[i].calm /\ docs[i].path = p
  BY DEF Listed
<1> SUFFICES ASSUME NEW p PROVE p \in Listed' <=> p \in Also(Listed, d.path)
  BY DEF Also
<1>4. p \in Also(Listed, d.path) <=> p \in Listed \/ p = d.path
  BY DEF Also
<1>. QED
  BY <1>1, <1>2, <1>3, <1>4

LEMMA ListedSame ==
    ASSUME docs' = docs
    PROVE  Listed' = Listed
BY DEF Listed

LEMMA ListedNone ==
    ASSUME docs = <<>>
    PROVE  Listed = {}
BY DEF Listed

\* While nobody writes, the inode tables in memory are right.
LEMMA TablesRight ==
    ASSUME TypeOK, ContentInv, Calm, pc # "aborted", NEW ino \in Inodes, GetInode(ino)
    PROVE  all_inodes[ino] = vol.inodes[ino]
<1>1. Group(ino) \in loaded /\ past = <<>>
  BY DEF GetInode, Calm
<1>2. PICK v \in Versions : all_inodes[ino] = v.inodes[ino]
  BY <1>1 DEF ContentInv, TablesAreOfTheVolume
<1>3. Versions = {vol}
  BY <1>1 DEF Versions, Range
<1>. QED
  BY <1>2, <1>3

\* The topmost activation of a calm walk.
LEMMA TopWalks ==
    ASSUME TypeOK, SoundDirectories, OneDeeper, CalmInv, Calm, pc # "aborted", stack # <<>>
    PROVE  /\ SoundVolume(vol)
           /\ Walking(vol, Listed, Top, AsFile, AsDirectory)
           /\ Top.path \in Path /\ Top.todo \in SUBSET Entry
           /\ IsDirectory(vol, Top.path) /\ IsEntered(vol, Top.path)
           /\ Top.todo \subseteq ChildEntries(vol, Top.path)
           /\ Reached(vol, Listed, Top.path)
           /\ Len(Top.path) = Len(stack) - 1 /\ Len(stack) <= MaxDepth
<1>1. Len(stack) \in DOMAIN stack /\ Top.path \in Path /\ Top.todo \in SUBSET Entry
  BY TopFacts DEF TypeOK
<1>2. Walking(vol, Listed, Top, AsFile, AsDirectory)
  BY <1>1 DEF CalmInv, AllWalking, Top
<1>3. /\ IsEntered(vol, Top.path) /\ Top.todo \subseteq ChildEntries(vol, Top.path)
      /\ Top.path = <<>> \/ Top.path \in Listed
  BY <1>2, Zenon DEF Walking
<1>4. IsDirectory(vol, Top.path)
  BY <1>3 DEF IsEntered
<1>5. Reached(vol, Listed, Top.path)
  <2>1. CASE Top.path = <<>>
    BY <2>1 DEF Reached
  <2>2. CASE Top.path # <<>>
    BY <1>3, <2>2 DEF CalmInv, ListedReached
  <2>. QED
    BY <2>1, <2>2
<1>6. Len(Top.path) = Len(stack) - 1 /\ Len(stack) <= MaxDepth
  BY <1>1 DEF OneDeeper, CalmInv, Top
<1>7. SoundVolume(vol)
  BY VolumesAreSound DEF TypeOK
<1>. QED
  BY <1>1, <1>2, <1>3, <1>4, <1>5, <1>6, <1>7

\* One more path is listed, of an entry of the topmost activation.
LEMMA CalmLists ==
    ASSUME TypeOK, SoundDirectories, OneDeeper, CalmInv, Calm, pc # "aborted", stack # <<>>,
           NEW e \in ChildEntries(vol, Top.path), vol' = vol,
           Listed' = Also(Listed, Append(Top.path, e.name))
    PROVE  /\ ListedReached'
           /\ \A k \in DOMAIN stack : k # Len(stack) => Walking(vol, Listed', stack[k], {}, {})
           /\ \A p \in Path : p # Top.path => ListedIn(vol, Listed', p) = ListedIn(vol, Listed, p)
<1> DEFINE q == Append(Top.path, e.name)
           more == Also(Listed, q)
<1>1. /\ SoundVolume(vol) /\ Top.path \in Path /\ IsDirectory(vol, Top.path) /\ IsEntered(vol, Top.path)
      /\ Reached(vol, Listed, Top.path)
      /\ Len(Top.path) = Len(stack) - 1 /\ Len(stack) <= MaxDepth
  BY TopWalks
<1>2. e.name \in Names /\ q \in Path
  BY <1>1, ChildrenFacts
<1>3. Listed \subseteq more /\ q \in more /\ \A p \in more : p \in Listed \/ p = q
  BY DEF Also
<1>4. /\ Len(q) = Len(stack) /\ Len(stack) \in Nat
      /\ q # <<>>
  <2>1. Len(q) = Len(Top.path) + 1 /\ Len(Top.path) \in Nat /\ q[Len(Top.path) + 1] = e.name
    BY <1>1, StepFacts
  <2>2. Len(stack) \in Nat
    BY DEF TypeOK
  <2>3. q # <<>>
    BY <1>2, <2>1, EmptySeq DEF Path
  <2>. QED
    BY <1>1, <2>1, <2>2, <2>3
<1>5. Reached(vol, more, q)
  <2>1. Reached(vol, more, Top.path)
    BY <1>1, <1>3, ReachedMonotone
  <2>2. e \in ListedIn(vol, more, Top.path)
    BY <1>3 DEF ListedIn
  <2> HIDE DEF more
  <2>. QED
    BY <1>1, <1>2, <2>1, <2>2, ReachedGrows
<1>6. \A p \in Listed : Reached(vol, more, p)
  BY <1>3, ReachedMonotone DEF CalmInv, ListedReached
<1> HIDE DEF q
<1>7. ASSUME NEW p \in Path, p # Top.path PROVE ListedIn(vol, more, p) = ListedIn(vol, Listed, p)
  BY <1>1, <1>7, ListedElsewhere DEF q
<1>8. ASSUME NEW k \in DOMAIN stack, k # Len(stack) PROVE Walking(vol, more, stack[k], {}, {})
  <2>1. Walking(vol, Listed, stack[k], {}, {})
    BY <1>8 DEF CalmInv, AllWalking
  <2>2. stack[k].path \in Path /\ stack[k].path # Top.path
    <3>1. Len(stack[k].path) = k - 1 /\ k \in Nat /\ Len(stack) \in Nat /\ stack[k].path \in Path
      BY PathFacts DEF OneDeeper
    <3>2. Len(stack[k].path) # Len(Top.path)
      BY <1>1, <1>8, <3>1
    <3>. QED
      BY <3>1, <3>2
  <2>. QED
    BY <1>1, <2>1, <2>2, WalkingElsewhere DEF q
<1>9. ListedReached'
  <2>1. \A p \in Listed : p # <<>> /\ Len(p) <= MaxDepth
    BY DEF CalmInv, ListedReached
  <2>2. \A p \in more : p # <<>> /\ Len(p) <= MaxDepth /\ Reached(vol, more, p)
    BY <1>1, <1>3, <1>4, <1>5, <1>6, <2>1
  <2>3. Listed' = more
    BY DEF q
  <2> HIDE DEF more
  <2>. QED
    BY <2>2, <2>3 DEF ListedReached
<1>10. Listed' = more
  BY DEF q
<1> HIDE DEF more
<1>. QED
  BY <1>7, <1>8, <1>9, <1>10

\* The last of some numbers, and the others.
LEMMA LastIndex ==
    ASSUME NEW n \in Nat
    PROVE  /\ \A k \in 1..n : k = n \/ k \in 1..(n - 1)
           /\ \A k \in 1..(n - 1) : k # n
OBVIOUS

\* A directory that is in progress after the step.
InProgressNow(path) ==
    \/ \E k \in DOMAIN stack' : stack'[k].path = path
    \/ \E e \in AsDirectory' : path = Append(Top'.path, e.name)

LEMMA OthersNow ==
    ASSUME vol' = vol,
           \A p \in Listed' \cup {<<>>} :
               IsEntered(vol, p) /\ ~InProgressNow(p) => ListedIn(vol, Listed', p) \in ListedOf(vol, p)
    PROVE  OthersComplete'
BY Zenon DEF OthersComplete, InWalk, InProgress, InProgressNow

\* The conjuncts of CalmInv after a step.
LEMMA CalmNow ==
    ASSUME vol' = vol, Len(stack') <= MaxDepth, ListedReached', EntryTaken',
           \A k \in DOMAIN stack' :
               /\ k = Len(stack') => Walking(vol, Listed', stack'[k], AsFile', AsDirectory')
               /\ k # Len(stack') => Walking(vol, Listed', stack'[k], {}, {}),
           \A p \in Listed' \cup {<<>>} :
               IsEntered(vol, p) /\ ~InProgressNow(p) => ListedIn(vol, Listed', p) \in ListedOf(vol, p)
    PROVE  CalmInv'
<1>1. AllWalking'
  BY Zenon DEF AllWalking
<1>2. OthersComplete'
  BY OthersNow
<1>. QED
  BY <1>1, <1>2 DEF CalmInv

\* Before the walk, and without one.
LEMMA CalmBefore ==
    ASSUME TypeOK, [Next]_vars, Calm', pc' # "aborted", docs' = <<>>, stack' = <<>>,
           \/ pc' \in {"superblock", "journal", "root"}
           \/ pc' = "done" /\ ~IsEntered(vol, <<>>)
    PROVE  CalmInv'
<1>1. Listed' = {}
  BY DEF Listed
<1>2. Len(stack') = 0 /\ DOMAIN stack' = {} /\ 0 <= MaxDepth
  BY IndexerAssumption
<1>3. AsFile' = {} /\ AsDirectory' = {}
  BY DEF AsFile, AsDirectory
<1>4. ListedReached' /\ EntryTaken'
  BY <1>1, <1>3 DEF ListedReached, EntryTaken
<1>5. vol' = vol
  BY CalmFacts
<1>6. OthersComplete'
  BY <1>1, <1>5 DEF OthersComplete, InWalk
<1>7. AllWalking'
  BY <1>2 DEF AllWalking
<1>. QED
  BY <1>2, <1>4, <1>6, <1>7 DEF CalmInv

\* A new activation, of a directory of which nothing is listed.
LEMMA CalmPush ==
    ASSUME TypeOK, SoundDirectories, OneDeeper, CalmInv, [Next]_vars, Calm', docs' = docs,
           NEW path \in Path, NEW ino \in Inodes, Lookup(vol, path) = ino, vol.inodes[ino].dir,
           IsEntered(vol, path), path = <<>> \/ path \in Listed, ListedIn(vol, Listed, path) = {},
           EnterDirectory(path, vol.inodes[ino].block), pc' # "aborted",
           \/ pc = "root" /\ docs = <<>> /\ stack = <<>> /\ path = <<>>
           \/ pc = "descend" /\ stack # <<>> /\ path = Append(Top.path, entry.name)
    PROVE  CalmInv'
<1> DEFINE b == vol.inodes[ino].block
           n == Len(stack)
<1>1. Calm /\ vol' = vol /\ Listed' = Listed /\ SoundVolume(vol)
  BY CalmFacts, ListedSame, VolumesAreSound DEF TypeOK
<1>2. b \in Blocks
  BY <1>1 DEF SoundVolume
<1>3. PICK todo :
         /\ stack' = Append(stack, [path |-> path, todo |-> todo])
         /\ todo = ChildEntries(vol, path) /\ pc' = "entry" /\ n # MaxDepth
  BY <1>2, EnterReads DEF Calm, ChildEntries
<1>4. /\ n \in Nat /\ DOMAIN stack = 1..n /\ DOMAIN stack' = 1..(n + 1) /\ Len(stack') = n + 1
      /\ \A k \in 1..n : stack'[k] = stack[k]
      /\ stack'[n + 1].path = path /\ stack'[n + 1].todo = todo
  BY <1>3 DEF TypeOK
<1>5. AsFile' = {} /\ AsDirectory' = {}
  BY <1>3 DEF AsFile, AsDirectory
<1> HIDE DEF n
<1>6. Len(stack) <= MaxDepth /\ ListedReached /\ AllWalking /\ EntryTaken /\ OthersComplete
  BY <1>1, CalmFacts DEF CalmInv
<1>7. ListedReached' /\ EntryTaken'
  <2>1. ListedReached'
    BY <1>1, <1>6 DEF ListedReached
  <2>. QED
    BY <1>5, <2>1 DEF EntryTaken
<1>8. n + 1 <= MaxDepth
  <2>1. n <= MaxDepth /\ n # MaxDepth /\ n \in Nat
    BY <1>3, <1>4, <1>6 DEF n
  <2>2. MaxDepth \in Nat
    BY IndexerAssumption
  <2>. QED
    BY <2>1, <2>2
\* The activation that waits has taken a directory.
<1>9. ASSUME NEW k \in 1..n PROVE Walking(vol, Listed, stack[k], {}, {})
  <2>1. CASE k # n
    BY <1>4, <1>6, <1>9, <2>1 DEF AllWalking, n
  <2>2. CASE k = n
    <3>1. pc = "descend" /\ stack # <<>> /\ path = Append(Top.path, entry.name)
      <4>1. stack # <<>>
        BY <1>4, <1>9 DEF n
      <4>. QED
        BY <4>1
    <3>2. /\ Walking(vol, Listed, Top, AsFile, AsDirectory)
          /\ Top.path \in Path /\ IsDirectory(vol, Top.path)
      BY <1>1, <3>1, TopWalks
    <3>3. AsFile = {} /\ AsDirectory = {entry}
      BY <3>1 DEF AsFile, AsDirectory
    <3>4. Walking(vol, Listed, Top, {}, {entry})
      BY <3>2, <3>3
    <3>5. entry \in ChildEntries(vol, Top.path)
      <4>1. {} \cup {entry} \subseteq ChildEntries(vol, Top.path) \ Top.todo
        BY <3>4, Zenon DEF Walking
      <4>. QED
        BY <4>1
    <3>6. entry \notin SpecialEntries(vol, Top.path)
      BY <1>1, <3>1, <3>2, <3>5, ChildEntered
    <3>7. Walking(vol, Listed, Top, {}, {})
      BY <3>4, <3>6, WalkingWaits
    <3>. QED
      BY <2>2, <3>7 DEF Top, n
  <2>. QED
    BY <2>1, <2>2
<1>10. Walking(vol, Listed, stack'[n + 1], {}, {})
  BY <1>3, <1>4, WalkingStarts
<1>11. ASSUME NEW p \in Listed \cup {<<>>}, IsEntered(vol, p), ~InProgressNow(p)
       PROVE  ListedIn(vol, Listed, p) \in ListedOf(vol, p)
  <2>1. p # path /\ \A k \in DOMAIN stack : stack[k].path # p
    BY <1>4, <1>11 DEF InProgressNow
  <2>2. pc = "descend" /\ path = Append(Top.path, entry.name)
    <3>1. CASE pc = "root" /\ docs = <<>> /\ path = <<>>
      BY <2>1, <3>1, ListedNone
    <3>. QED
      BY <3>1
  <2>3. ~InProgress(p)
    BY <2>1, <2>2 DEF InProgress, AsDirectory
  <2>. QED
    BY <1>6, <1>11, <2>2, <2>3 DEF OthersComplete, InWalk
<1>12. ASSUME NEW k \in DOMAIN stack'
       PROVE  Walking(vol, Listed, stack'[k], {}, {})
  <2>1. k = n + 1 \/ k \in 1..n
    BY <1>4
  <2>. QED
    BY <1>4, <1>9, <1>10, <2>1
<1>. QED
  BY <1>1, <1>4, <1>5, <1>7, <1>8, <1>11, <1>12, CalmNow

\* An activation that ends: of its directory all is listed, or all up to where it is
\* given up.
LEMMA CalmPop ==
    ASSUME TypeOK, SoundDirectories, OneDeeper, CalmInv, [Next]_vars, Calm', docs' = docs,
           stack # <<>>, stack' = Front(stack), pc' \in {"entry", "done"},
           \/ pc = "entry" /\ Top.todo = {}
           \/ /\ pc = "descend" /\ entry \in SpecialEntries(vol, Top.path)
              /\ ~IsEntered(vol, Append(Top.path, entry.name))
    PROVE  CalmInv'
<1> DEFINE n == Len(stack)
<1>1. Calm /\ vol' = vol /\ Listed' = Listed /\ SoundVolume(vol) /\ pc # "aborted"
  BY CalmFacts, ListedSame, VolumesAreSound DEF TypeOK
<1>2. /\ n \in Nat /\ DOMAIN stack = 1..n /\ n \in 1..n /\ stack' \in Seq(Frame)
      /\ DOMAIN stack' = 1..(n - 1) /\ Len(stack') = n - 1
      /\ \A k \in 1..(n - 1) : k \in 1..n /\ stack'[k] = stack[k] /\ k # n
  <2>1. stack \in Seq(Frame)
    BY DEF TypeOK
  <2>2. /\ Front(stack) \in Seq(Frame) /\ Len(Front(stack)) = n - 1
        /\ \A k \in DOMAIN Front(stack) : k \in DOMAIN stack /\ Front(stack)[k] = stack[k]
    BY <2>1, FrontFacts
  <2>3. n \in Nat /\ DOMAIN stack = 1..n /\ n \in 1..n
    BY <2>1, TopFacts
  <2>4. DOMAIN Front(stack) = 1..(n - 1)
    BY <2>2, <2>3
  <2>5. \A k \in 1..(n - 1) : k # n
    BY <2>3, LastIndex
  <2>. QED
    BY <2>2, <2>3, <2>4, <2>5
<1>3. AsFile' = {} /\ AsDirectory' = {}
  BY DEF AsFile, AsDirectory
<1>4. Len(stack) <= MaxDepth /\ ListedReached /\ AllWalking /\ EntryTaken /\ OthersComplete
  BY <1>1 DEF CalmInv
<1>5. /\ Walking(vol, Listed, Top, AsFile, AsDirectory)
      /\ Top.path \in Path /\ IsDirectory(vol, Top.path)
  BY <1>1, TopWalks
<1>6. ListedIn(vol, Listed, Top.path) \in ListedOf(vol, Top.path)
  <2>1. CASE pc = "entry" /\ Top.todo = {}
    <3>1. AsFile = {} /\ AsDirectory = {}
      BY <2>1 DEF AsFile, AsDirectory
    <3>. QED
      BY <1>1, <1>5, <2>1, <3>1, WalkingEnds
  <2>2. CASE pc = "descend" /\ entry \in SpecialEntries(vol, Top.path)
    <3>1. AsFile = {} /\ AsDirectory = {entry}
      BY <2>2 DEF AsFile, AsDirectory
    <3>2. Walking(vol, Listed, Top, {}, {entry})
      BY <1>5, <3>1
    <3>. QED
      BY <1>1, <2>2, <3>2, WalkingGivesUp
  <2>. QED
    BY <2>1, <2>2
<1>7. ListedReached' /\ EntryTaken'
  <2>1. ListedReached'
    BY <1>1, <1>4 DEF ListedReached
  <2>. QED
    BY <1>3, <2>1 DEF EntryTaken
<1>8. ASSUME NEW p \in Listed \cup {<<>>}, IsEntered(vol, p), ~InProgressNow(p)
      PROVE  ListedIn(vol, Listed, p) \in ListedOf(vol, p)
  <2>1. CASE p = Top.path
    BY <1>6, <2>1
  <2>2. CASE p # Top.path
    <3>1. \A k \in DOMAIN stack : stack[k].path # p
      <4>1. \A k \in 1..(n - 1) : stack[k].path # p
        BY <1>2, <1>8 DEF InProgressNow
      <4>2. stack[n].path # p
        BY <2>2 DEF Top
      <4>3. \A k \in 1..n : k = n \/ k \in 1..(n - 1)
        BY <1>2, LastIndex
      <4>. QED
        BY <1>2, <4>1, <4>2, <4>3
    <3>2. ~InProgress(p)
      BY <1>8, <3>1 DEF InProgress, AsDirectory
    <3>. QED
      BY <1>4, <1>8, <3>2 DEF OthersComplete, InWalk
  <2>. QED
    BY <2>1, <2>2
<1>9. ASSUME NEW k \in DOMAIN stack'
      PROVE  Walking(vol, Listed, stack'[k], {}, {})
  BY <1>2, <1>4 DEF AllWalking
<1>10. Len(stack') <= MaxDepth
  <2>1. Len(stack') = n - 1 /\ n \in Nat /\ n <= MaxDepth
    BY <1>2, <1>4
  <2>2. MaxDepth \in Nat
    BY IndexerAssumption
  <2>. QED
    BY <2>1, <2>2
<1> HIDE DEF n
<1>. QED
  BY <1>1, <1>3, <1>7, <1>8, <1>9, <1>10, CalmNow

\* The activations after an entry has been taken from the topmost one.
LEMMA TakenFacts ==
    ASSUME TypeOK, stack # <<>>, NEW e, stack' = Consume(e)
    PROVE  /\ DOMAIN stack' = DOMAIN stack /\ Len(stack') = Len(stack) /\ Len(stack) \in DOMAIN stack
           /\ \A k \in DOMAIN stack : stack'[k].path = stack[k].path
           /\ \A k \in DOMAIN stack : k # Len(stack) => stack'[k] = stack[k]
           /\ Top'.path = Top.path /\ Top'.todo = Top.todo \ {e}
           /\ Top' = stack'[Len(stack)]
<1>1. /\ stack \in Seq(Frame) /\ Len(stack) \in DOMAIN stack
      /\ \A k \in DOMAIN stack : stack[k] \in Frame
  BY DEF TypeOK
<1>2. [stack[Len(stack)] EXCEPT !.todo = @ \ {e}] \in Frame
  BY <1>1 DEF Frame
<1>. QED
  BY <1>1, <1>2 DEF Consume, Frame, Top

\* An entry is added as a directory.
LEMMA CalmDirectory ==
    ASSUME TypeOK, SoundDirectories, OneDeeper, CalmInv, [Next]_vars, Calm', AddDirectory
    PROVE  CalmInv'
<1>1. PICK e \in NextEntries :
         /\ TakenForDirectory(e)
         /\ AddDoc([path |-> Append(Top.path, e.name), slash |-> TRUE, text |-> Empty, calm |-> Calm])
         /\ entry' = e
         /\ stack' = Consume(e)
  BY DEF AddDirectory
<1>2. stack # <<>> /\ pc = "entry" /\ pc' = "descend"
  BY DEF AddDirectory, TypeOK
<1>3. Calm /\ vol' = vol /\ pc # "aborted"
  BY <1>2, CalmFacts
<1>4. Len(stack) <= MaxDepth /\ ListedReached /\ AllWalking /\ EntryTaken /\ OthersComplete
  BY <1>3 DEF CalmInv
<1>5. /\ SoundVolume(vol)
      /\ Walking(vol, Listed, Top, {}, {})
      /\ Top.path \in Path /\ Top.todo \in SUBSET Entry
      /\ IsDirectory(vol, Top.path)
      /\ Top.todo \subseteq ChildEntries(vol, Top.path)
  <2>1. AsFile = {} /\ AsDirectory = {}
    BY <1>2 DEF AsFile, AsDirectory
  <2>2. Walking(vol, Listed, Top, AsFile, AsDirectory)
    BY <1>2, <1>3, TopWalks
  <2>. QED
    BY <1>2, <1>3, <2>1, <2>2, TopWalks
<1>6. e \in Top.todo /\ (\A f \in Top.todo : e.type <= f.type) /\ e \in Entry
      /\ e \in ChildEntries(vol, Top.path)
  BY <1>5 DEF NextEntries
<1> DEFINE q == Append(Top.path, e.name)
           d == [path |-> q, slash |-> TRUE, text |-> Empty, calm |-> Calm]
<1>7. Listed' = Also(Listed, q)
  <2>1. Calm \in BOOLEAN
    BY DEF Calm, TypeOK
  <2>2. d \in Doc /\ d.path = q /\ d.calm
    BY <1>3, <1>5, <1>6, <2>1, DocFacts, VolumeAssumption
  <2>3. docs' = Append(docs, d)
    BY <1>1 DEF AddDoc
  <2> HIDE DEF d, q
  <2>. QED
    BY <2>2, <2>3, ListedMore
<1>8. /\ DOMAIN stack' = DOMAIN stack /\ Len(stack') = Len(stack) /\ Len(stack) \in DOMAIN stack
      /\ \A k \in DOMAIN stack : stack'[k].path = stack[k].path
      /\ \A k \in DOMAIN stack : k # Len(stack) => stack'[k] = stack[k]
      /\ Top'.path = Top.path /\ Top'.todo = Top.todo \ {e}
      /\ Top' = stack'[Len(stack)]
  BY <1>1, <1>2, TakenFacts
<1>9. AsFile' = {} /\ AsDirectory' = {e}
  BY <1>1, <1>2 DEF AsFile, AsDirectory
<1>10. /\ ListedReached'
       /\ \A k \in DOMAIN stack : k # Len(stack) => Walking(vol, Listed', stack[k], {}, {})
       /\ \A p \in Path : p # Top.path => ListedIn(vol, Listed', p) = ListedIn(vol, Listed, p)
  BY <1>2, <1>3, <1>6, <1>7, CalmLists
<1>11. Walking(vol, Listed', Top', {}, {e})
  BY <1>5, <1>6, <1>7, <1>8, WalkingTakesDirectory
<1>12. q \in Path /\ q # Top.path
  <2>1. q \in Path
    BY <1>5, <1>6, ChildrenFacts
  <2>2. Len(q) = Len(Top.path) + 1 /\ Len(Top.path) \in Nat
    BY <1>5, StepFacts
  <2>3. Len(q) # Len(Top.path)
    BY <2>2
  <2>. QED
    BY <2>1, <2>3
<1>13. ListedIn(vol, Listed', q) = {}
  <2>1. Listed \subseteq Path /\ \A p \in Listed : Reached(vol, Listed, p)
    BY <1>4, ListedPaths DEF ListedReached
  <2>2. ListedIn(vol, Listed, q) = {}
    BY <1>5, <1>6, <2>1, NothingBelowEntry
  <2> HIDE DEF q
  <2>. QED
    BY <1>10, <1>12, <2>2
<1>14. EntryTaken'
  BY <1>1, <1>3, <1>8, <1>9, <1>13 DEF EntryTaken
<1>15. ASSUME NEW p \in Listed' \cup {<<>>}, IsEntered(vol, p), ~InProgressNow(p)
       PROVE  ListedIn(vol, Listed', p) \in ListedOf(vol, p)
  <2>1. p # q
    BY <1>8, <1>9, <1>15 DEF InProgressNow
  <2>2. p \in Listed \cup {<<>>}
    BY <1>7, <2>1 DEF Also
  <2>3. \A k \in DOMAIN stack : stack[k].path # p
    BY <1>8, <1>15 DEF InProgressNow
  <2>4. ~InProgress(p)
    BY <1>2, <2>3 DEF InProgress, AsDirectory
  <2>5. p \in Path /\ p # Top.path
    <3>1. <<>> \in Path /\ Listed \subseteq Path
      BY ListedPaths DEF Path
    <3>2. stack[Len(stack)].path # p
      BY <1>8, <2>3
    <3>. QED
      BY <2>2, <3>1, <3>2 DEF Top
  <2>6. ListedIn(vol, Listed, p) \in ListedOf(vol, p)
    BY <1>2, <1>4, <1>15, <2>2, <2>4 DEF OthersComplete, InWalk
  <2>. QED
    BY <1>10, <2>5, <2>6
<1>16. ASSUME NEW k \in DOMAIN stack'
       PROVE  /\ k = Len(stack') => Walking(vol, Listed', stack'[k], AsFile', AsDirectory')
              /\ k # Len(stack') => Walking(vol, Listed', stack'[k], {}, {})
  BY <1>8, <1>9, <1>10, <1>11
<1>. QED
  BY <1>3, <1>4, <1>8, <1>10, <1>14, <1>15, <1>16, CalmNow

\* An entry is taken for a file.
LEMMA CalmTakeFile ==
    ASSUME TypeOK, SoundDirectories, OneDeeper, CalmInv, [Next]_vars, Calm', TakeFile
    PROVE  CalmInv'
<1>1. PICK e \in NextEntries : ~TakenForDirectory(e) /\ entry' = e /\ stack' = Consume(e)
  BY DEF TakeFile
<1>2. stack # <<>> /\ pc = "entry" /\ pc' = "file" /\ docs' = docs
  BY DEF TakeFile, TypeOK
<1>3. Calm /\ vol' = vol /\ pc # "aborted" /\ Listed' = Listed
  BY <1>2, CalmFacts, ListedSame
<1>4. Len(stack) <= MaxDepth /\ ListedReached /\ AllWalking /\ EntryTaken /\ OthersComplete
  BY <1>3 DEF CalmInv
<1>5. /\ SoundVolume(vol)
      /\ Walking(vol, Listed, Top, {}, {})
      /\ Top.path \in Path
  <2>1. AsFile = {} /\ AsDirectory = {}
    BY <1>2 DEF AsFile, AsDirectory
  <2>2. Walking(vol, Listed, Top, AsFile, AsDirectory)
    BY <1>2, <1>3, TopWalks
  <2>. QED
    BY <1>2, <1>3, <2>1, <2>2, TopWalks
<1>6. e \in Top.todo /\ \A f \in Top.todo : e.type <= f.type
  BY DEF NextEntries
<1>8. /\ DOMAIN stack' = DOMAIN stack /\ Len(stack') = Len(stack) /\ Len(stack) \in DOMAIN stack
      /\ \A k \in DOMAIN stack : stack'[k].path = stack[k].path
      /\ \A k \in DOMAIN stack : k # Len(stack) => stack'[k] = stack[k]
      /\ Top'.path = Top.path /\ Top'.todo = Top.todo \ {e}
      /\ Top' = stack'[Len(stack)]
  BY <1>1, <1>2, TakenFacts
<1>9. AsFile' = {e} /\ AsDirectory' = {}
  BY <1>1, <1>2 DEF AsFile, AsDirectory
<1>11. Walking(vol, Listed, Top', {e}, {})
  BY <1>1, <1>5, <1>6, <1>8, WalkingTakesFile
<1>12. ListedReached' /\ EntryTaken'
  <2>1. ListedReached'
    BY <1>3, <1>4 DEF ListedReached
  <2>. QED
    BY <1>1, <1>9, <2>1 DEF EntryTaken
<1>15. ASSUME NEW p \in Listed' \cup {<<>>}, IsEntered(vol, p), ~InProgressNow(p)
       PROVE  ListedIn(vol, Listed', p) \in ListedOf(vol, p)
  <2>3. \A k \in DOMAIN stack : stack[k].path # p
    BY <1>8, <1>15 DEF InProgressNow
  <2>4. ~InProgress(p)
    BY <1>2, <2>3 DEF InProgress, AsDirectory
  <2>. QED
    BY <1>2, <1>3, <1>4, <1>15, <2>4 DEF OthersComplete, InWalk
<1>16. ASSUME NEW k \in DOMAIN stack'
       PROVE  /\ k = Len(stack') => Walking(vol, Listed', stack'[k], AsFile', AsDirectory')
              /\ k # Len(stack') => Walking(vol, Listed', stack'[k], {}, {})
  <2>1. CASE k = Len(stack)
    BY <1>3, <1>8, <1>9, <1>11, <2>1
  <2>2. CASE k # Len(stack)
    BY <1>3, <1>4, <1>8, <2>2 DEF AllWalking
  <2>. QED
    BY <1>8, <2>1, <2>2
<1>. QED
  BY <1>3, <1>4, <1>8, <1>12, <1>15, <1>16, CalmNow

\* The file is listed.
LEMMA CalmFile ==
    ASSUME TypeOK, SoundDirectories, OneDeeper, CalmInv, [Next]_vars, Calm', AddFile
    PROVE  CalmInv'
<1> DEFINE q == Append(Top.path, entry.name)
<1>1. docs' = Append(docs, FileDoc) /\ FileDoc \in Doc /\ FileDoc.path = q /\ FileDoc.calm = Calm
  BY FileDocFacts DEF AddFile, AddDoc, FileDoc
<1>2. /\ stack # <<>> /\ pc = "add" /\ pc' = "entry" /\ stack' = stack /\ entry \in Entry
      /\ past' = past
  BY FileDocFacts DEF AddFile, device
<1>3. Calm /\ vol' = vol /\ pc # "aborted"
  BY <1>2, CalmFacts
<1>4. Len(stack) <= MaxDepth /\ ListedReached /\ AllWalking /\ EntryTaken /\ OthersComplete
  BY <1>3 DEF CalmInv
<1>5. /\ SoundVolume(vol)
      /\ Walking(vol, Listed, Top, {entry}, {})
      /\ Top.path \in Path
      /\ IsDirectory(vol, Top.path)
  <2>1. AsFile = {entry} /\ AsDirectory = {}
    BY <1>2 DEF AsFile, AsDirectory
  <2>2. Walking(vol, Listed, Top, AsFile, AsDirectory)
    BY <1>2, <1>3, TopWalks
  <2>. QED
    BY <1>2, <1>3, <2>1, <2>2, TopWalks
<1>6. entry \in ChildEntries(vol, Top.path) /\ ~TakenForDirectory(entry)
  <2>1. {entry} \cup {} \subseteq ChildEntries(vol, Top.path) \ Top.todo
    BY <1>5, Zenon DEF Walking
  <2>2. ~TakenForDirectory(entry)
    BY <1>2, <1>4 DEF EntryTaken, AsFile
  <2>. QED
    BY <2>1, <2>2
<1>7. Listed' = Also(Listed, q)
  BY <1>1, <1>3, ListedMore
<1>8. Len(stack) \in DOMAIN stack /\ Top' = Top
  BY <1>2 DEF TypeOK, Top
<1>9. AsFile' = {} /\ AsDirectory' = {}
  BY <1>2 DEF AsFile, AsDirectory
<1>10. /\ ListedReached'
       /\ \A k \in DOMAIN stack : k # Len(stack) => Walking(vol, Listed', stack[k], {}, {})
       /\ \A p \in Path : p # Top.path => ListedIn(vol, Listed', p) = ListedIn(vol, Listed, p)
  BY <1>2, <1>3, <1>6, <1>7, CalmLists
<1>11. Walking(vol, Listed', Top, {}, {})
  BY <1>5, <1>7, WalkingLists
<1>12. EntryTaken'
  BY <1>9 DEF EntryTaken
<1>13. ~IsEntered(vol, q)
  BY <1>5, <1>6, ChildEntered
<1>15. ASSUME NEW p \in Listed' \cup {<<>>}, IsEntered(vol, p), ~InProgressNow(p)
       PROVE  ListedIn(vol, Listed', p) \in ListedOf(vol, p)
  <2>1. p # q
    BY <1>13, <1>15
  <2>2. p \in Listed \cup {<<>>}
    BY <1>7, <2>1 DEF Also
  <2>3. \A k \in DOMAIN stack : stack[k].path # p
    BY <1>2, <1>15 DEF InProgressNow
  <2>4. ~InProgress(p)
    BY <1>2, <2>3 DEF InProgress, AsDirectory
  <2>5. p \in Path /\ p # Top.path
    <3>1. <<>> \in Path /\ Listed \subseteq Path
      BY ListedPaths DEF Path
    <3>2. stack[Len(stack)].path # p
      BY <1>8, <2>3
    <3>. QED
      BY <2>2, <3>1, <3>2 DEF Top
  <2>6. ListedIn(vol, Listed, p) \in ListedOf(vol, p)
    BY <1>2, <1>4, <1>15, <2>2, <2>4 DEF OthersComplete, InWalk
  <2>. QED
    BY <1>10, <2>5, <2>6
<1>16. ASSUME NEW k \in DOMAIN stack'
       PROVE  /\ k = Len(stack') => Walking(vol, Listed', stack'[k], AsFile', AsDirectory')
              /\ k # Len(stack') => Walking(vol, Listed', stack'[k], {}, {})
  BY <1>2, <1>9, <1>10, <1>11 DEF Top
<1>. QED
  BY <1>2, <1>3, <1>4, <1>10, <1>12, <1>15, <1>16, CalmNow

\* CalmInv is kept by every step.
LEMMA CalmStep ==
    SoundDirectories /\ TypeOK /\ OnceInv /\ ContentInv /\ CalmInv /\ [Next]_vars => CalmInv'
<1> SUFFICES ASSUME SoundDirectories, TypeOK, StartsEmpty, OneDeeper, ContentInv, CalmInv, [Next]_vars,
                    Calm', pc' # "aborted"
             PROVE  CalmInv'
  BY DEF OnceInv, CalmInv
<1>0. Calm /\ pc # "aborted" /\ vol' = vol /\ SoundVolume(vol)
  BY CalmFacts, VolumesAreSound DEF TypeOK
<1>1. CASE OpenVolume \/ ReadJournal
  <2>1. pc \in {"superblock", "journal", "root"} /\ UNCHANGED <<stack, docs>>
        /\ pc' \in {"superblock", "journal", "root"}
    BY <1>1 DEF OpenVolume, ReadJournal
  <2>2. docs' = <<>> /\ stack' = <<>>
    BY <2>1 DEF StartsEmpty
  <2>. QED
    BY <2>1, <2>2, CalmBefore
<1>2. CASE LoadMetaData \/ ReadFile \/ UNCHANGED vars
  <2>1. /\ UNCHANGED <<stack, entry, docs>>
        /\ pc' = pc \/ (pc = "file" /\ pc' = "add")
    BY <1>2, LoadFacts, ReadFileFacts DEF vars
  <2>2. Listed' = Listed
    BY <2>1, ListedSame
  <2>3. AsFile' = AsFile /\ AsDirectory' = AsDirectory /\ Top' = Top
    BY <2>1 DEF AsFile, AsDirectory, Top
  <2>4. Len(stack) <= MaxDepth /\ ListedReached /\ AllWalking /\ EntryTaken /\ OthersComplete
    BY <1>0 DEF CalmInv
  <2>5. ListedReached' /\ AllWalking' /\ EntryTaken'
    BY <1>0, <2>1, <2>2, <2>3, <2>4 DEF ListedReached, AllWalking, EntryTaken
  <2>6. OthersComplete'
    BY <1>0, <2>1, <2>2, <2>3, <2>4 DEF OthersComplete, InWalk, InProgress
  <2>. QED
    BY <2>1, <2>4, <2>5, <2>6 DEF CalmInv
<1>3. CASE GetInodeAborts \/ Rewrite
  <2>1. CASE GetInodeAborts
    BY <2>1 DEF GetInodeAborts, Abort
  <2>2. CASE Rewrite
    <3>1. past \in Seq(Volumes) /\ past' = Append(past, vol)
      BY <2>2 DEF Rewrite, TypeOK
    <3>2. past' # <<>>
      BY <3>1
    <3>. QED
      BY <3>2 DEF Calm
  <2>. QED
    BY <1>3, <2>1, <2>2
<1>4. CASE ReadRoot
  <2>1. /\ pc = "root" /\ GetInode(RootInode) /\ docs' = docs /\ docs = <<>> /\ stack = <<>>
        /\ <<>> \in Path
    BY <1>4 DEF ReadRoot, StartsEmpty, Path
  <2>2. all_inodes[RootInode] = vol.inodes[RootInode] /\ RootInode \in Inodes
    BY <1>0, <2>1, RootFacts, TablesRight
  <2>3. Lookup(vol, <<>>) = RootInode
    BY <2>1, AlongFacts DEF Lookup
  <2>4. CASE vol.inodes[RootInode].dir
    <3>1. EnterDirectory(<<>>, vol.inodes[RootInode].block)
      BY <1>4, <2>2, <2>4 DEF ReadRoot
    <3>2. IsEntered(vol, <<>>)
      BY <2>2, <2>3, <2>4 DEF IsEntered, IsDirectory, Inodes
    <3>3. ListedIn(vol, Listed, <<>>) = {}
      BY <2>1, ListedNone DEF ListedIn
    <3>. QED
      BY <2>1, <2>2, <2>3, <2>4, <3>1, <3>2, <3>3, CalmPush
  <2>5. CASE ~vol.inodes[RootInode].dir
    <3>1. pc' = "done" /\ docs' = <<>> /\ stack' = <<>>
      BY <1>4, <2>1, <2>2, <2>5 DEF ReadRoot
    <3>2. ~IsEntered(vol, <<>>)
      BY <2>3, <2>5 DEF IsEntered, IsDirectory
    <3>. QED
      BY <3>1, <3>2, CalmBefore
  <2>. QED
    BY <2>4, <2>5
<1>5. CASE AddDirectory
  BY <1>5, CalmDirectory
<1>6. CASE Descend \/ NotADirectory
  <2> DEFINE q == Append(Top.path, entry.name)
             ino == entry.inode
  <2>1. pc = "descend" /\ stack # <<>> /\ entry \in Entry /\ GetInode(ino) /\ docs' = docs
    BY <1>6 DEF Descend, NotADirectory, TypeOK
  <2>2. ino \in Inodes /\ all_inodes[ino] = vol.inodes[ino] /\ ino # 0
    <3>1. ino \in Inodes
      BY <2>1, GetInodeFacts DEF Entry
    <3>. QED
      BY <1>0, <2>1, <3>1, TablesRight DEF Inodes
  <2>3. AsFile = {} /\ AsDirectory = {entry}
    BY <2>1 DEF AsFile, AsDirectory
  <2>4. /\ Walking(vol, Listed, Top, {}, {entry})
        /\ Top.path \in Path /\ IsDirectory(vol, Top.path)
    <3>1. /\ Walking(vol, Listed, Top, AsFile, AsDirectory)
          /\ Top.path \in Path /\ IsDirectory(vol, Top.path)
      BY <1>0, <2>1, TopWalks
    <3>. QED
      BY <2>3, <3>1
  <2>5. entry \in ChildEntries(vol, Top.path) /\ entry \in ListedIn(vol, Listed, Top.path)
    <3>1. /\ {} \cup {entry} \subseteq ChildEntries(vol, Top.path) \ Top.todo
          /\ ListedIn(vol, Listed, Top.path) = (ChildEntries(vol, Top.path) \ Top.todo) \ {}
      BY <2>4, Zenon DEF Walking
    <3>. QED
      BY <3>1
  <2>6. /\ TakenForDirectory(entry)
        /\ IsEntered(vol, q) => ListedIn(vol, Listed, q) = {}
    BY <1>0, <2>3 DEF CalmInv, EntryTaken
  <2>7. Lookup(vol, q) = ino /\ q \in Path /\ q \in Listed
    BY <1>0, <2>4, <2>5, ChildLookup, ChildrenFacts DEF ListedIn
  <2>8. /\ IsEntered(vol, q) <=> vol.inodes[ino].dir
        /\ entry \in SpecialEntries(vol, Top.path) <=> ~vol.inodes[ino].dir
    BY <1>0, <2>2, <2>4, <2>5, <2>6, ChildEntered
  <2>9. CASE Descend
    <3>1. EnterDirectory(q, vol.inodes[ino].block) /\ vol.inodes[ino].dir
      BY <2>2, <2>9 DEF Descend
    <3>. QED
      BY <2>1, <2>2, <2>6, <2>7, <2>8, <3>1, CalmPush
  <2>10. CASE NotADirectory
    <3>1. ~vol.inodes[ino].dir /\ stack' = Front(stack) /\ pc' \in {"entry", "done"}
      BY <2>2, <2>10 DEF NotADirectory, Caller
    <3>. QED
      BY <2>1, <2>8, <3>1, CalmPop
  <2>. QED
    BY <1>6, <2>9, <2>10
<1>7. CASE Return
  <2>1. /\ pc = "entry" /\ stack # <<>> /\ Top.todo = {} /\ docs' = docs /\ stack' = Front(stack)
        /\ pc' \in {"entry", "done"}
    BY <1>7 DEF Return, Caller, TypeOK
  <2>. QED
    BY <2>1, CalmPop
<1>8. CASE TakeFile
  BY <1>8, CalmTakeFile
<1>9. CASE AddFile
  BY <1>9, CalmFile
<1>. QED
  BY <1>1, <1>2, <1>3, <1>4, <1>5, <1>6, <1>7, <1>8, <1>9 DEF Next, WalkStep

\* The walk ends with its activations.
EndsEmpty == pc = "done" => stack = <<>>

LEMMA EndsStep == TypeOK /\ StartsEmpty /\ EndsEmpty /\ [Next]_vars => EndsEmpty'
<1> SUFFICES ASSUME TypeOK, StartsEmpty, EndsEmpty, [Next]_vars, pc' = "done" PROVE stack' = <<>>
  BY DEF EndsEmpty
<1>1. CASE ReadRoot
  <2>1. pc = "root" /\ GetInode(RootInode)
    BY <1>1 DEF ReadRoot
  <2>2. ~all_inodes[RootInode].dir
    <3> SUFFICES ASSUME all_inodes[RootInode].dir PROVE FALSE
      OBVIOUS
    <3>1. <<>> \in Path /\ EnterDirectory(<<>>, all_inodes[RootInode].block)
      BY <1>1 DEF ReadRoot, Path
    <3>2. pc' \in {"entry", "aborted"}
      BY <3>1, VolumeFacts, RootFacts, EnterFacts
    <3>. QED
      BY <3>2
  <2>. QED
    BY <1>1, <2>1, <2>2 DEF ReadRoot, StartsEmpty
<1>2. CASE NotADirectory \/ Return
  <2>1. stack # <<>> /\ stack' = Front(stack) /\ Len(stack) = 1
    BY <1>2 DEF NotADirectory, Return, Caller, TypeOK
  <2>2. Front(stack) \in Seq(Frame) /\ Len(Front(stack)) = Len(stack) - 1
    BY <2>1, FrontFacts DEF TypeOK
  <2>3. Len(Front(stack)) = 0
    BY <2>1, <2>2
  <2>. QED
    BY <2>1, <2>2, <2>3, EmptySeq
<1>3. CASE Descend
  <2>1. entry \in Entry /\ stack # <<>> /\ GetInode(entry.inode)
    BY <1>3 DEF Descend, TypeOK
  <2>2. /\ entry.inode \in Inodes /\ Append(Top.path, entry.name) \in Path
        /\ EnterDirectory(Append(Top.path, entry.name), all_inodes[entry.inode].block)
    BY <1>3, <2>1, GetInodeFacts, TopFacts, PathAppend DEF Entry, Descend
  <2>3. pc' \in {"entry", "aborted"}
    BY <2>2, VolumeFacts, EnterFacts
  <2>. QED
    BY <2>3
<1>4. CASE ~(ReadRoot \/ NotADirectory \/ Return \/ Descend)
  <2>1. pc = "done" /\ stack' = stack
    BY <1>4 DEF Next, WalkStep, OpenVolume, LoadMetaData, GetInodeAborts, ReadJournal,
                AddDirectory, TakeFile, ReadFile, AddFile, WantsInode, Rewrite, Abort, vars
  <2>. QED
    BY <2>1 DEF EndsEmpty
<1>. QED
  BY <1>1, <1>2, <1>3, <1>4

\* On its way a calm walk is on the way to a complete one, and at its end it is one.
OnTheWay ==
    Calm /\ pc # "aborted" =>
        /\ InWalk => \E W \in CompleteWalks[vol] : Listed \subseteq W
        /\ pc = "done" => Listed \in CompleteWalks[vol]

LEMMA CalmWalks ==
    ASSUME SoundDirectories, TypeOK, OneDeeper, CalmInv, EndsEmpty
    PROVE  OnTheWay
<1> SUFFICES ASSUME Calm, InWalk \/ pc = "done"
             PROVE  \E W \in CompleteWalks[vol] : Listed \subseteq W /\ (pc = "done" => W = Listed)
  BY DEF OnTheWay
<1>1. vol \in Volumes /\ SoundVolume(vol)
  BY VolumesAreSound DEF TypeOK
<1>2. ListedReached /\ AllWalking /\ EntryTaken /\ OthersComplete
  BY DEF CalmInv, InWalk
<1>3. Listed \subseteq Path
  BY ListedPaths
<1> DEFINE Fits(p) == \E S \in ListedOf(vol, p) : ListedIn(vol, Listed, p) \subseteq S
           AllFit == \A p \in Listed \cup {<<>>} : IsEntered(vol, p) => Fits(p)
           AllAre == \A p \in Listed \cup {<<>>} :
                        IsEntered(vol, p) => ListedIn(vol, Listed, p) \in ListedOf(vol, p)
<1>4. ASSUME NEW p \in Listed \cup {<<>>}, IsEntered(vol, p), ~InProgress(p)
      PROVE  ListedIn(vol, Listed, p) \in ListedOf(vol, p)
  BY <1>2, <1>4 DEF OthersComplete, InWalk
<1>5. ASSUME NEW p \in Listed \cup {<<>>}, IsEntered(vol, p), InProgress(p)
      PROVE  Fits(p)
  <2>1. ASSUME NEW k \in DOMAIN stack, stack[k].path = p PROVE Fits(p)
    <3>1. stack[k].path \in Path
      BY PathFacts
    <3>2. CASE k = Len(stack)
      <4>1. Walking(vol, Listed, stack[k], AsFile, AsDirectory)
        BY <1>2, <3>2 DEF AllWalking
      <4>2. AtMostOne(AsDirectory)
        BY DEF AsDirectory, AtMostOne
      <4>3. \E S \in ListedOf(vol, stack[k].path) : ListedIn(vol, Listed, stack[k].path) \subseteq S
        BY <1>1, <3>1, <4>1, <4>2, WalkingFits
      <4>. QED
        BY <2>1, <4>3
    <3>3. CASE k # Len(stack)
      <4>1. Walking(vol, Listed, stack[k], {}, {})
        BY <1>2, <3>3 DEF AllWalking
      <4>2. AtMostOne({})
        BY DEF AtMostOne
      <4>3. \E S \in ListedOf(vol, stack[k].path) : ListedIn(vol, Listed, stack[k].path) \subseteq S
        BY <1>1, <3>1, <4>1, <4>2, WalkingFits
      <4>. QED
        BY <2>1, <4>3
    <3>. QED
      BY <3>2, <3>3
  <2>2. ASSUME NEW e \in AsDirectory, p = Append(Top.path, e.name) PROVE Fits(p)
    <3>1. ListedIn(vol, Listed, p) = {}
      BY <1>2, <1>5, <2>2 DEF EntryTaken
    <3>2. p \in Path /\ IsDirectory(vol, p)
      <4>1. <<>> \in Path
        BY DEF Path
      <4>. QED
        BY <1>3, <1>5, <4>1 DEF IsEntered
    <3> DEFINE none == {}
    <3>3. none \subseteq ChildEntries(vol, p) /\ none \cap SpecialEntries(vol, p) = {}
          /\ \A a \in none, f \in ChildEntries(vol, p) \ none : a.type <= f.type
      OBVIOUS
    <3> HIDE DEF none
    <3>4. \E S \in ListedOf(vol, p) : none \subseteq S
      BY <1>1, <3>2, <3>3, TakenFits
    <3>. QED
      BY <3>1, <3>4 DEF none
  <2>. QED
    BY <1>5, <2>1, <2>2 DEF InProgress
<1>6. AllFit
  BY <1>4, <1>5
<1>7. pc = "done" => AllAre
  <2> SUFFICES ASSUME pc = "done", NEW p \in Listed \cup {<<>>}, IsEntered(vol, p)
               PROVE  ListedIn(vol, Listed, p) \in ListedOf(vol, p)
    OBVIOUS
  <2>1. ~InProgress(p)
    BY DEF InProgress, AsDirectory, EndsEmpty
  <2>. QED
    BY <1>4, <2>1
<1>8. \A p \in Listed : p # <<>> /\ Len(p) <= MaxDepth /\ Reached(vol, Listed, p)
  BY <1>2 DEF ListedReached
<1>9. \E W \in CompleteWalks[vol] : Listed \subseteq W /\ (AllAre => W = Listed)
  <2>1. \A p \in Listed \cup {<<>>} :
           IsEntered(vol, p) => \E S \in ListedOf(vol, p) : ListedIn(vol, Listed, p) \subseteq S
    BY <1>6
  <2> DEFINE now == Listed
  <2> HIDE DEF now
  <2>2. /\ now \subseteq Path
        /\ \A p \in now : p # <<>> /\ Len(p) <= MaxDepth /\ Reached(vol, now, p)
        /\ \A p \in now \cup {<<>>} :
              IsEntered(vol, p) => \E S \in ListedOf(vol, p) : ListedIn(vol, now, p) \subseteq S
    BY <1>3, <1>8, <2>1 DEF now
  <2>3. \E W \in CompleteWalks[vol] :
              /\ now \subseteq W
              /\ (\A p \in now \cup {<<>>} :
                     IsEntered(vol, p) => ListedIn(vol, now, p) \in ListedOf(vol, p)) => W = now
    BY <1>1, <2>2, WalkCovered
  <2>. QED
    BY <2>3, Zenon DEF now
<1> HIDE DEF AllAre
<1>. QED
  BY <1>7, <1>9

\* What a document more says of the step, and of the calm.
LEMMA DocsStep ==
    ASSUME TypeOK, [Next]_vars, docs' # docs
    PROVE  /\ pc \in {"entry", "add"} /\ pc' \in {"descend", "entry"} /\ past' = past
           /\ \E d \in Doc : docs' = Append(docs, d) /\ d.calm = Calm'
<1>1. CASE AddDirectory
  <2>1. PICK e \in NextEntries :
          AddDoc([path |-> Append(Top.path, e.name), slash |-> TRUE, text |-> Empty, calm |-> Calm])
    BY <1>1 DEF AddDirectory
  <2>2. /\ stack # <<>> /\ pc = "entry" /\ pc' = "descend" /\ past' = past /\ good' = good
    BY <1>1 DEF AddDirectory, TypeOK, device
  <2>3. e \in Entry /\ Top.path \in Path
    BY <2>2, TopFacts DEF NextEntries
  <2>4. Calm \in BOOLEAN /\ (Calm' <=> Calm)
    BY <2>2 DEF Calm, TypeOK
  <2> DEFINE d == [path |-> Append(Top.path, e.name), slash |-> TRUE, text |-> Empty, calm |-> Calm]
  <2>5. d \in Doc /\ d.calm = Calm
    BY <2>3, <2>4, DocFacts, VolumeAssumption
  <2>6. Calm' = Calm
    BY <2>2 DEF Calm
  <2> HIDE DEF d
  <2>. QED
    BY <2>1, <2>2, <2>5, <2>6 DEF AddDoc, d
<1>2. CASE AddFile
  <2>1. docs' = Append(docs, FileDoc) /\ FileDoc \in Doc /\ FileDoc.calm = Calm
    BY <1>2, FileDocFacts DEF AddFile, AddDoc, FileDoc
  <2>2. pc = "add" /\ pc' = "entry" /\ past' = past /\ good' = good
    BY <1>2 DEF AddFile, device
  <2>3. Calm' = Calm
    BY <2>2 DEF Calm
  <2>. QED
    BY <2>1, <2>2, <2>3
<1>3. CASE ~(AddDirectory \/ AddFile)
  BY <1>3 DEF Next, WalkStep, OpenVolume, LoadMetaData, GetInodeAborts, ReadJournal, ReadRoot,
              Descend, NotADirectory, TakeFile, ReadFile, Return, Rewrite, Abort, vars
<1>. QED
  BY <1>1, <1>2, <1>3

\* Where all was not calm any more, nothing more is listed.
LEMMA NotListed ==
    ASSUME TypeOK, [Next]_vars, ~Calm' \/ pc' = "aborted"
    PROVE  Listed' = Listed
<1>1. CASE docs' = docs
  BY <1>1, ListedSame
<1>2. CASE docs' # docs
  <2>1. PICK d \in Doc : docs' = Append(docs, d) /\ d.calm = Calm'
    BY <1>2, DocsStep
  <2>2. pc' # "aborted"
    BY <1>2, DocsStep
  <2>3. ~d.calm
    BY <2>1, <2>2
  <2>4. /\ DOMAIN docs' = DOMAIN docs \cup {Len(docs) + 1}
        /\ \A i \in DOMAIN docs : docs'[i] = docs[i]
        /\ docs'[Len(docs) + 1] = d
    BY <2>1, AppendDoc
  <2> SUFFICES ASSUME NEW p PROVE p \in Listed' <=> p \in Listed
    OBVIOUS
  <2>5. p \in Listed' <=> \E i \in DOMAIN docs' : docs'[i].calm /\ docs'[i].path = p
    BY DEF Listed
  <2>6. p \in Listed <=> \E i \in DOMAIN docs : docs[i].calm /\ docs[i].path = p
    BY DEF Listed
  <2>. QED
    BY <2>3, <2>4, <2>5, <2>6
<1>. QED
  BY <1>1, <1>2

\* What the device was when the walk began stays so.
LEMMA OriginalStays ==
    ASSUME TypeOK, [Next]_vars
    PROVE  Original' = Original
<1>1. CASE Rewrite
  <2>1. past \in Seq(Volumes) /\ past' = Append(past, vol)
    BY <1>1 DEF Rewrite, TypeOK
  <2>2. past' # <<>>
    BY <2>1
  <2>3. CASE past = <<>>
    BY <2>1, <2>2, <2>3 DEF Original
  <2>4. CASE past # <<>>
    <3>1. Len(past) \in Nat /\ Len(past) # 0
      BY <2>1, <2>4, EmptySeq
    <3>2. past'[1] = past[1]
      BY <2>1, <3>1
    <3>. QED
      BY <2>2, <2>4, <3>2 DEF Original
  <2>. QED
    BY <2>3, <2>4
<1>2. CASE ~Rewrite
  <2>1. UNCHANGED device
    BY <1>2 DEF Next, WalkStep, OpenVolume, LoadMetaData, GetInodeAborts, ReadJournal, ReadRoot,
                AddDirectory, Descend, NotADirectory, TakeFile, ReadFile, AddFile, Return, Abort, vars, device
  <2>. QED
    BY <2>1 DEF Original, device
<1>. QED
  BY <1>1, <1>2

\* Neither does the end of a walk change, nor does a walk that has died recover.
LEMMA EndsAreFinal ==
    ASSUME TypeOK, [Next]_vars
    PROVE  /\ pc = "aborted" => pc' = "aborted"
           /\ ~Calm => ~Calm'
           /\ pc = "done" => UNCHANGED vars
<1>1. pc \in {"aborted", "done"} => UNCHANGED vars
  BY DEF Next, WalkStep, OpenVolume, LoadMetaData, GetInodeAborts, ReadJournal, ReadRoot,
         AddDirectory, Descend, NotADirectory, TakeFile, ReadFile, AddFile, Return, Rewrite, Abort, WantsInode
<1>2. ~Calm => ~Calm'
  <2> SUFFICES ASSUME Calm' PROVE Calm
    OBVIOUS
  <2>1. CASE pc' = "aborted"
    <3>1. good
      BY GoodStays DEF Calm
    <3>2. CASE Rewrite
      <4>1. past \in Seq(Volumes) /\ past' = Append(past, vol)
        BY <3>2 DEF Rewrite, TypeOK
      <4>2. past' # <<>>
        BY <4>1
      <4>. QED
        BY <4>2 DEF Calm
    <3>3. CASE ~Rewrite
      <4>1. UNCHANGED past
        BY <3>3 DEF Next, WalkStep, OpenVolume, LoadMetaData, GetInodeAborts, ReadJournal, ReadRoot,
               AddDirectory, Descend, NotADirectory, TakeFile, ReadFile, AddFile, Return, Abort, vars, device
      <4>. QED
        BY <3>1, <4>1 DEF Calm
    <3>. QED
      BY <3>2, <3>3
  <2>2. CASE pc' # "aborted"
    BY <2>2, CalmFacts
  <2>. QED
    BY <2>1, <2>2
<1>. QED
  BY <1>1, <1>2 DEF vars

\* A step of read_inode is one of the abstract walk, or none.
LEMMA WalkStepRefined ==
    ASSUME TypeOK, TypeOK', OnTheWay, OnTheWay', [Next]_vars
    PROVE  [AbstractWalk!Next]_(AbstractWalk!walkVars)
<1> DEFINE complete == CompleteWalks[Original]
           outcome == CASE pc = "aborted" \/ ~Calm -> "died" [] pc = "done" /\ Calm -> "returned"
                        [] OTHER -> "walking"
<1>1. /\ outcome = "died" <=> pc = "aborted" \/ ~Calm
      /\ outcome = "returned" <=> pc = "done" /\ Calm
      /\ outcome = "walking" <=> pc \notin {"aborted", "done"} /\ Calm
      /\ outcome \in {"died", "returned", "walking"}
  OBVIOUS
<1>2. /\ outcome' = "died" <=> pc' = "aborted" \/ ~Calm'
      /\ outcome' = "returned" <=> pc' = "done" /\ Calm'
      /\ outcome' = "walking" <=> pc' \notin {"aborted", "done"} /\ Calm'
      /\ outcome' \in {"died", "returned", "walking"}
  OBVIOUS
<1>3. complete' = complete
  BY OriginalStays
<1>4. Calm' /\ pc' # "aborted" => Calm /\ pc # "aborted" /\ vol' = vol
  BY CalmFacts
<1>5. Calm => complete = CompleteWalks[vol]
  BY DEF Calm, Original
<1>6. pc = "done" => Listed' = Listed /\ outcome' = outcome
  <2> SUFFICES ASSUME pc = "done" PROVE Listed' = Listed /\ outcome' = outcome
    OBVIOUS
  <2>1. UNCHANGED <<pc, good, past, docs>>
    BY EndsAreFinal DEF vars, device
  <2>2. Calm' = Calm /\ pc' = pc
    BY <2>1 DEF Calm
  <2>. QED
    BY <2>1, <2>2, ListedSame
<1> HIDE DEF complete, outcome
<1>8. CASE ~Calm' \/ pc' = "aborted"
  <2>1. Listed' = Listed /\ outcome' = "died"
    BY <1>2, <1>8, NotListed
  <2>2. outcome # "returned"
    BY <1>1, <1>6, <2>1
  <2>3. CASE outcome = "died"
    BY <1>3, <2>1, <2>3 DEF AbstractWalk!walkVars, complete, outcome
  <2>4. CASE outcome = "walking"
    <3>1. AbstractWalk!Die
      BY <1>3, <2>1, <2>4 DEF AbstractWalk!Die, complete, outcome
    <3>. QED
      BY <3>1 DEF AbstractWalk!Next
  <2>. QED
    BY <1>1, <2>2, <2>3, <2>4
<1>9. CASE Calm' /\ pc' = "done"
  <2>1. Calm /\ pc # "aborted" /\ vol' = vol /\ outcome' = "returned"
    BY <1>2, <1>4, <1>9
  <2>2. CASE pc = "done"
    BY <1>3, <1>6, <2>2 DEF AbstractWalk!walkVars, complete, outcome
  <2>3. CASE pc # "done"
    <3>1. outcome = "walking"
      BY <1>1, <2>1, <2>3
    <3>2. Listed' = Listed
      <4>1. docs' = docs
        BY <1>9, DocsStep
      <4>. QED
        BY <4>1, ListedSame
    <3>3. Listed \in complete
      <4>1. Listed' \in CompleteWalks[vol']
        BY <1>9 DEF OnTheWay
      <4>. QED
        BY <1>5, <2>1, <3>2, <4>1
    <3>4. AbstractWalk!ComeBack
      BY <1>3, <2>1, <3>1, <3>2, <3>3 DEF AbstractWalk!ComeBack, complete, outcome
    <3>. QED
      BY <3>4 DEF AbstractWalk!Next
  <2>. QED
    BY <2>2, <2>3
<1>10. CASE Calm' /\ pc' \notin {"done", "aborted"}
  <2>1. Calm /\ pc # "aborted" /\ vol' = vol /\ outcome' = "walking"
    BY <1>2, <1>4, <1>10
  <2>2. outcome = "walking"
    BY <1>1, <1>6, <2>1
  <2>3. CASE Listed' = Listed
    BY <1>3, <2>1, <2>2, <2>3 DEF AbstractWalk!walkVars, complete, outcome
  <2>4. CASE Listed' # Listed
    <3>1. docs' # docs
      BY <2>4, ListedSame
    <3>2. PICK d \in Doc : docs' = Append(docs, d) /\ d.calm = Calm'
      BY <3>1, DocsStep
    <3>3. Listed' = Listed \cup {d.path}
      BY <1>10, <3>2, ListedMore DEF Also
    <3>4. pc' \in {"descend", "entry"}
      BY <3>1, DocsStep
    <3>5. PICK W \in CompleteWalks[vol] : Listed' \subseteq W
      BY <1>10, <2>1, <3>4 DEF OnTheWay, InWalk
    <3>6. W \in complete /\ d.path \in W \ Listed /\ Listed \subseteq W
      BY <1>5, <2>1, <2>4, <3>3, <3>5
    <3>7. AbstractWalk!List
      BY <1>3, <2>1, <2>2, <3>3, <3>6 DEF AbstractWalk!List, complete, outcome
    <3>. QED
      BY <3>7 DEF AbstractWalk!Next
  <2>. QED
    BY <2>3, <2>4
<1>. QED
  BY <1>8, <1>9, <1>10

\* The whole inductive invariant of a walk, and what it comes to.
WalkInv == TypeOK /\ OnceInv /\ ContentInv /\ CalmInv /\ EndsEmpty

LEMMA WalkStarts == Init => WalkInv
<1>1. Init => TypeOK
  BY VolumeAssumption DEF Init, TypeOK, Locations, NoInode, Inode
<1>2. Init => OnceInv
  BY DEF Init, OnceInv, StartsEmpty, DirsHaveBlocks, OneDeeper, Unreached, JustTaken,
         EachPathOnce, NoInode
<1>3. Init => ContentInv
  BY DEF Init, ContentInv, TablesAreOfTheVolume, EntriesInv, EntryInv, BufferInv, LastDoc, DocsAreOfTheVolume
<1>4. Init => CalmInv /\ EndsEmpty
  BY IndexerAssumption DEF Init, CalmInv, Listed, ListedReached, AllWalking, EntryTaken, AsFile,
       AsDirectory, OthersComplete, InWalk, EndsEmpty
<1>. QED
  BY <1>1, <1>2, <1>3, <1>4 DEF WalkInv

LEMMA WalkInvStep ==
    ASSUME SoundDirectories, WalkInv, [Next]_vars
    PROVE  WalkInv'
<1>1. TypeOK /\ OnceInv /\ ContentInv /\ CalmInv /\ EndsEmpty /\ StartsEmpty
  BY DEF WalkInv, OnceInv
<1>2. TypeOK' /\ OnceInv'
  BY <1>1, TypeStep, OnceStep
<1>3. ContentInv' /\ CalmInv'
  BY <1>1, ContentStep, CalmStep DEF OnceInv
<1>4. EndsEmpty'
  BY <1>1, EndsStep
<1>. QED
  BY <1>2, <1>3, <1>4 DEF WalkInv

LEMMA WalkOnTheWay ==
    ASSUME SoundDirectories, WalkInv
    PROVE  OnTheWay
BY CalmWalks DEF WalkInv, OnceInv

\* A walk does not write.
LEMMA OnlyReads == WalkStep => UNCHANGED device
BY DEF WalkStep, OpenVolume, LoadMetaData, GetInodeAborts, ReadJournal, ReadRoot,
       AddDirectory, Descend, NotADirectory, TakeFile, ReadFile, AddFile, Return, Abort, device

\* An activation that is over adds nothing and does not end the process.
LEMMA PopsQuietly ==
    ASSUME TypeOK, WalkStep, Len(stack') < Len(stack)
    PROVE  docs' = docs /\ pc' \in {"entry", "done"}
<1>1. stack \in Seq(Frame) /\ Len(stack) \in Nat
  BY DEF TypeOK
<1>2. CASE NotADirectory \/ Return
  BY <1>2 DEF NotADirectory, Return, Caller
<1>3. ASSUME NEW path \in Path, NEW b \in Blocks \cup {0}, EnterDirectory(path, b) PROVE FALSE
  <2>1. stack' = stack \/ Len(stack') = Len(stack) + 1
    BY <1>3, EnterFacts
  <2>. QED
    BY <1>1, <2>1
<1>4. CASE ReadRoot
  <2>1. <<>> \in Path /\ all_inodes[RootInode].block \in Blocks \cup {0}
    BY RootFacts, VolumeFacts DEF Path
  <2>. QED
    BY <1>1, <1>3, <1>4, <2>1 DEF ReadRoot
<1>5. CASE Descend
  <2>1. entry \in Entry /\ stack # <<>> /\ GetInode(entry.inode)
    BY <1>5 DEF Descend, TypeOK
  <2>2. Append(Top.path, entry.name) \in Path /\ all_inodes[entry.inode].block \in Blocks \cup {0}
    BY <2>1, GetInodeFacts, TopFacts, PathAppend, VolumeFacts DEF Entry
  <2>. QED
    BY <1>3, <1>5, <2>2 DEF Descend
<1>6. CASE AddDirectory \/ TakeFile
  <2>1. stack # <<>> /\ \E e : stack' = Consume(e)
    BY <1>6 DEF AddDirectory, TakeFile, TypeOK
  <2>. QED
    BY <1>1, <2>1, ConsumeFacts
<1>7. CASE UNCHANGED stack
  BY <1>1, <1>7
<1>. QED
  BY <1>2, <1>4, <1>5, <1>6, <1>7
     DEF WalkStep, OpenVolume, LoadMetaData, GetInodeAborts, ReadJournal, ReadFile, AddFile, Abort

\* How deep the recursion is, whatever it follows: every activation works on a path that is
\* one name longer, and the stack holds only so many.
DepthInv ==
    /\ pc \in {"superblock", "journal", "root"} => stack = <<>>
    /\ OneDeeper
    /\ Len(stack) <= MaxDepth

\* A new activation.
LEMMA DeeperPush ==
    ASSUME TypeOK, DepthInv, NEW path \in Path, Len(path) = Len(stack), NEW b \in Blocks \cup {0},
           EnterDirectory(path, b)
    PROVE  DepthInv'
<1>1. stack \in Seq(Frame) /\ Len(stack) \in Nat /\ MaxDepth \in Nat
  BY IndexerAssumption DEF TypeOK
<1>2. pc' \in {"entry", "aborted"}
  BY EnterFacts
<1>3. CASE stack' = stack
  BY <1>2, <1>3 DEF DepthInv, OneDeeper
<1>4. CASE stack' # stack
  <2>1. pc' = "entry" /\ Len(stack) # MaxDepth
    BY <1>2, <1>4, EnterFacts
  <2>2. PICK todo : stack' = Append(stack, [path |-> path, todo |-> todo])
    BY <2>1, EnterFacts
  <2>3. /\ DOMAIN stack' = DOMAIN stack \cup {Len(stack) + 1} /\ Len(stack') = Len(stack) + 1
        /\ \A k \in DOMAIN stack : stack'[k] = stack[k]
        /\ stack'[Len(stack) + 1].path = path
    BY <1>1, <2>2
  <2>4. OneDeeper'
    BY <1>1, <2>3 DEF DepthInv, OneDeeper
  <2>5. Len(stack') <= MaxDepth
    BY <1>1, <2>1, <2>3 DEF DepthInv
  <2>. QED
    BY <2>1, <2>4, <2>5 DEF DepthInv
<1>. QED
  BY <1>3, <1>4

\* Every step keeps the depth.
LEMMA DepthStep == TypeOK /\ DepthInv /\ [Next]_vars => DepthInv'
<1> SUFFICES ASSUME TypeOK, DepthInv, [Next]_vars PROVE DepthInv'
  OBVIOUS
<1>0. stack \in Seq(Frame) /\ Len(stack) \in Nat /\ DOMAIN stack = 1..Len(stack) /\ MaxDepth \in Nat
  BY IndexerAssumption DEF TypeOK
<1>1. CASE ReadRoot
  <2>1. <<>> \in Path /\ all_inodes[RootInode].block \in Blocks \cup {0} /\ stack = <<>>
    BY <1>1, RootFacts, VolumeFacts DEF Path, ReadRoot, DepthInv
  <2>2. CASE EnterDirectory(<<>>, all_inodes[RootInode].block)
    BY <2>1, <2>2, DeeperPush
  <2>3. CASE pc' = "done" /\ stack' = stack
    BY <2>3 DEF DepthInv, OneDeeper
  <2>. QED
    BY <1>1, <2>2, <2>3 DEF ReadRoot
<1>2. CASE Descend
  <2>1. entry \in Entry /\ stack # <<>> /\ GetInode(entry.inode)
    BY <1>2 DEF Descend, TypeOK
  <2>2. Append(Top.path, entry.name) \in Path /\ all_inodes[entry.inode].block \in Blocks \cup {0}
    BY <2>1, GetInodeFacts, TopFacts, PathAppend, VolumeFacts DEF Entry
  <2>3. Len(Append(Top.path, entry.name)) = Len(stack)
    <3>1. Top.path \in Seq(Names) /\ Len(Top.path) = Len(stack) - 1
      BY <2>1, TopFacts DEF Top, DepthInv, OneDeeper, Path
    <3>2. entry.name \in Names
      BY <2>1 DEF Entry
    <3>3. Len(Append(Top.path, entry.name)) = Len(Top.path) + 1
      BY <3>1, <3>2, AppendProperties
    <3>4. Len(stack) - 1 + 1 = Len(stack)
      BY <1>0
    <3>. QED
      BY <3>1, <3>3, <3>4
  <2>. QED
    BY <1>2, <2>2, <2>3, DeeperPush DEF Descend
<1>3. CASE AddDirectory \/ TakeFile
  <2>1. PICK e : stack' = Consume(e)
    BY <1>3 DEF AddDirectory, TakeFile
  <2>2. stack # <<>> /\ pc' \in {"descend", "file"}
    BY <1>3 DEF AddDirectory, TakeFile, TypeOK
  <2>3. /\ stack' \in Seq(Frame) /\ Len(stack') = Len(stack)
        /\ \A k \in DOMAIN stack : stack'[k].path = stack[k].path
    BY <2>1, <2>2, ConsumeFacts
  <2>. QED
    BY <1>0, <2>2, <2>3 DEF DepthInv, OneDeeper
<1>4. CASE NotADirectory \/ Return
  <2>1. stack' = Front(stack) /\ stack # <<>> /\ pc' \in {"entry", "done"}
    BY <1>4 DEF NotADirectory, Return, TypeOK, Caller
  <2>2. Len(stack') = Len(stack) - 1 /\ \A k \in DOMAIN stack' : k \in DOMAIN stack /\ stack'[k] = stack[k]
    BY <1>0, <2>1, FrontFacts
  <2>. QED
    BY <1>0, <2>1, <2>2 DEF DepthInv, OneDeeper
<1>5. CASE /\ stack' = stack
           /\ pc' \in {"superblock", "journal", "root"} => pc \in {"superblock", "journal", "root"}
  BY <1>5 DEF DepthInv, OneDeeper
<1>. QED
  BY <1>1, <1>2, <1>3, <1>4, <1>5
     DEF Next, WalkStep, OpenVolume, LoadMetaData, GetInodeAborts, ReadJournal, ReadFile, AddFile,
         Rewrite, Abort, vars

\* The path of a document is no longer than the stack is deep.
LEMMA PathFits ==
    ASSUME TypeOK, DepthInv, [Next]_vars, docs' # docs
    PROVE  \E d \in Doc : /\ docs' = Append(docs, d)
                          /\ \E n \in 1..MaxDepth : d.path \in [1..n -> Names]
<1>1. pc \in {"entry", "add"} /\ (AddDirectory \/ AddFile)
  BY DocsStep DEF Next, WalkStep, OpenVolume, LoadMetaData, GetInodeAborts, ReadJournal, ReadRoot,
              Descend, NotADirectory, TakeFile, ReadFile, Return, Rewrite, Abort, vars
<1>2. stack # <<>> /\ stack \in Seq(Frame) /\ Len(stack) \in 1..MaxDepth
  BY <1>1, IndexerAssumption DEF TypeOK, DepthInv
<1>3. Top.path \in Seq(Names) /\ Len(Top.path) = Len(stack) - 1
  BY <1>2, TopFacts DEF Top, DepthInv, OneDeeper, Path
<1>4. PICK d \in Doc : docs' = Append(docs, d)
  BY DocsStep
<1>5. \E e \in Entry : \E other :
        docs' = Append(docs, other) /\ other.path = Append(Top.path, e.name)
  <2>1. CASE AddDirectory
    <3>1. PICK e \in NextEntries :
            docs' = Append(docs, [path |-> Append(Top.path, e.name), slash |-> TRUE, text |-> Empty,
                                  calm |-> Calm])
      BY <2>1 DEF AddDirectory, AddDoc
    <3>2. e \in Entry
      BY <1>2, TopFacts DEF NextEntries
    <3>. QED
      BY <3>1, <3>2
  <2>2. CASE AddFile
    <3>1. docs' = Append(docs, FileDoc) /\ FileDoc.path = Append(Top.path, entry.name) /\ entry \in Entry
      BY <2>2, FileDocFacts DEF AddFile, AddDoc, FileDoc
    <3>. QED
      BY <3>1
  <2>. QED
    BY <1>1, <2>1, <2>2
<1>6. PICK e \in Entry :
        \E other : docs' = Append(docs, other) /\ other.path = Append(Top.path, e.name)
  BY <1>5
<1>11. PICK other : docs' = Append(docs, other) /\ other.path = Append(Top.path, e.name)
  BY <1>6
<1>7. docs \in Seq(Doc) /\ Len(docs) \in Nat
  BY DEF TypeOK
<1>8. d = other
  <2>1. \A x, y : Append(docs, x) = Append(docs, y) => x = y
    BY <1>7
  <2>. QED
    BY <1>4, <1>11, <2>1, Zenon
<1>9. e.name \in Names
  BY <1>6 DEF Entry
<1>10. Append(Top.path, e.name) \in [1..Len(stack) -> Names]
  <2>1. /\ Append(Top.path, e.name) \in Seq(Names)
        /\ Len(Append(Top.path, e.name)) = Len(Top.path) + 1
    BY <1>3, <1>9, AppendProperties
  <2>2. Len(Top.path) + 1 = Len(stack)
    BY <1>2, <1>3
  <2>3. Append(Top.path, e.name) \in [1..Len(Append(Top.path, e.name)) -> Names]
    BY <2>1, LenProperties
  <2>. QED
    BY <2>1, <2>2, <2>3
<1>. QED
  BY <1>2, <1>4, <1>11, <1>8, <1>10

\* While all is calm, all that has been added was added calmly.
CalmDocs == Calm => \A i \in DOMAIN docs : docs[i].calm

\* A failure ends the calm, and it does not come back.
LEMMA CalmDocsStep == TypeOK /\ CalmDocs /\ [Next]_vars => CalmDocs'
<1> SUFFICES ASSUME TypeOK, CalmDocs, [Next]_vars, Calm', NEW i \in DOMAIN docs' PROVE docs'[i].calm
  BY DEF CalmDocs
<1>1. Calm
  <2>1. good
    BY GoodStays DEF Calm
  <2>2. CASE Rewrite
    <3>1. past \in Seq(Volumes) /\ past' = Append(past, vol)
      BY <2>2 DEF Rewrite, TypeOK
    <3>2. past' # <<>>
      BY <3>1
    <3>. QED
      BY <3>2 DEF Calm
  <2>3. CASE ~Rewrite
    <3>1. past' = past
      BY <2>3, OnlyReads DEF Next, device, vars
    <3>. QED
      BY <2>1, <3>1 DEF Calm
  <2>. QED
    BY <2>2, <2>3
<1>2. CASE docs' = docs
  BY <1>1, <1>2 DEF CalmDocs
<1>3. CASE docs' # docs
  <2>1. PICK d \in Doc : docs' = Append(docs, d) /\ d.calm = Calm'
    BY <1>3, DocsStep
  <2>2. /\ DOMAIN docs' = DOMAIN docs \cup {Len(docs) + 1}
        /\ \A j \in DOMAIN docs : docs'[j] = docs[j]
        /\ docs'[Len(docs) + 1] = d
    BY <2>1, AppendDoc
  <2>. QED
    BY <1>1, <2>1, <2>2 DEF CalmDocs
<1>. QED
  BY <1>2, <1>3

\* All of this holds when read_inode begins.
LEMMA DepthStarts == Init => TypeOK /\ DepthInv /\ CalmDocs
<1>1. Init => TypeOK
  BY VolumeAssumption DEF Init, TypeOK, Locations, NoInode, Inode
<1>2. Init => DepthInv
  BY IndexerAssumption DEF Init, DepthInv, OneDeeper
<1>3. Init => CalmDocs
  BY DEF Init, CalmDocs
<1>. QED
  BY <1>1, <1>2, <1>3

\* read_inode is the walk that main() relies on: on every volume of sound directories, of
\* any size, with entries of any types, however the reads and the writer behave.
THEOREM WalkRefined == ASSUME SoundDirectories PROVE Spec => ImplementsWalk
<1>1. Init => AbstractWalk!Init
  BY DEF Init, AbstractWalk!Init, Listed, Calm
<1>2. WalkInv /\ [Next]_vars => WalkInv'
  BY WalkInvStep
<1>3. WalkInv => OnTheWay /\ TypeOK
  BY WalkOnTheWay DEF WalkInv
<1>4. TypeOK /\ TypeOK' /\ OnTheWay /\ OnTheWay' /\ [Next]_vars
         => [AbstractWalk!Next]_(AbstractWalk!walkVars)
  BY WalkStepRefined
<1>. QED
  BY <1>1, <1>2, <1>3, <1>4, WalkStarts, PTL DEF Spec, ImplementsWalk, AbstractWalk!Spec
===============================================================================
