-------------------------------- MODULE Indexer -------------------------------
(***************************************************************************)
(* One call of read_inode (src/read_inode.cpp) and the recursion of        *)
(* read_current_directory and read_directory_inode (src/ostream.h).        *)
(*                                                                         *)
(* The recursion is the stack of its activations of read_current_directory,*)
(* each with the path it works on (prefix) and the entries it has not      *)
(* reached yet (todo).  std::sort orders them by file_type only, so of the *)
(* entries that are left any one of the least type may be next.            *)
(*                                                                         *)
(* The ifstream `device' is good until one read fails, and no read after   *)
(* that transfers anything.  Reads of inode tables and of the journal are  *)
(* asserted; reads of directory and file blocks, and of bitmaps, are not:  *)
(* what their freshly allocated buffer held before then passes for the     *)
(* block, and the walk goes on and comes back.  A read fails on a faulty   *)
(* device at any block or table, and on every device at a block beyond its *)
(* end: block()[0] of a device node is no block number, nor is that of a   *)
(* symbolic link.                                                          *)
(*                                                                         *)
(* The device may be mounted: somebody may write to it meanwhile.  The     *)
(* table of a group is read once and kept, directories and files are read  *)
(* when the walk gets there.                                               *)
(***************************************************************************)
EXTENDS Volume, SequencesExt

CONSTANTS Volumes,     \* the volumes that can be indexed
          Rewrites,    \* the pairs of volumes of which one can become the other
          MaxRewrites, \* how often that happens during one walk
          Garbage,     \* what a recycled buffer may parse as, other than a directory
          MaxDepth,    \* activations of read_current_directory that fit on the C++ stack
          NoEntry

VARIABLES vol,         \* the volume as it is now
          past,        \* what it was before, the oldest first
          pc,          \* where read_inode is
          good,        \* device.good()
          loaded,      \* groups with a block_bitmap, so with an inode table in memory
          all_inodes,  \* the inode tables in memory
          stack,       \* activations of read_current_directory
          entry,       \* the directory entry being descended into, or read as a file
          file_content, \* the global buffer read_file_inode fills, up to its first NUL
          docs         \* the documents db.add has committed, in order

device == <<vol, past>>
tables == <<loaded, all_inodes>>
vars == <<device, pc, good, tables, stack, entry, file_content, docs>>

\* The writer leaves alone what read_inode reads only once, at the beginning.
ASSUME IndexerAssumption ==
    /\ Volumes \subseteq VolumeType
    /\ \A vw \in Rewrites : /\ vw[2] \in Volumes
                            /\ vw[2].accepted = vw[1].accepted
                            /\ vw[2].extJournal = vw[1].extJournal
                            /\ vw[2].journal = vw[1].journal
                            /\ vw[2].logs = vw[1].logs
    /\ MaxRewrites \in Nat
    /\ Garbage \subseteq SUBSET Entry
    /\ MaxDepth \in Nat \ {0}
    /\ NoEntry \notin Entry

\* A path: the names from the root on, and whether a "/" ends it. For the properties,
\* a document knows whether all was calm when it was added.
Path == Seq(Names)
Doc == [path : Path, slash : BOOLEAN, text : Texts, calm : BOOLEAN]
Frame == [path : Path, todo : SUBSET Entry]
Locations == {"superblock", "journal", "root", "entry", "descend", "file", "add",
              "done", "aborted"}

NoInode == [dir |-> FALSE, block |-> 0]

TypeOK ==
    /\ vol \in Volumes
    /\ past \in Seq(Volumes)
    /\ pc \in Locations
    /\ good \in BOOLEAN
    /\ loaded \in SUBSET Groups
    /\ all_inodes \in [Inodes -> Inode]
    /\ stack \in Seq(Frame)
    /\ entry \in Entry \cup {NoEntry}
    /\ pc \in {"descend", "file", "add"} => entry # NoEntry
    /\ pc \in {"entry", "descend", "file", "add"} => stack # <<>>
    /\ file_content \in Texts
    /\ docs \in Seq(Doc)

Init ==
    /\ vol \in Volumes
    /\ past = <<>>
    /\ pc = "superblock"
    /\ good = TRUE
    /\ loaded = {}
    /\ all_inodes = [ino \in Inodes |-> NoInode]
    /\ stack = <<>>
    /\ entry = NoEntry
    /\ file_content = Empty
    /\ docs = <<>>

-------------------------------------------------------------------------------
(* Reading. *)

\* What device.good() may be after a read of the device, and of block b: a read that
\* fails leaves the stream bad for good.
AfterRead == {ok \in BOOLEAN : IF ok THEN good ELSE ~good \/ vol.faulty}
AfterReadOf(b) == IF b \in Beyond THEN {FALSE} ELSE AfterRead

Abort ==
    /\ pc' = "aborted"
    /\ UNCHANGED <<device, good, tables, stack, entry, file_content, docs>>

(* Definitions named ..._Mutant are what a plausible mistake would make of the
   definition that follows them. Nothing here uses them. *)

\* The inode whose get_inode is the next thing to do, in the places where there is one.
Wanted == CASE pc = "journal" -> vol.journal [] pc = "root" -> RootInode [] OTHER -> entry.inode
WantsInode == pc \in {"root", "descend", "file"} \/ (pc = "journal" /\ ~vol.extJournal)

\* get_inode returns a reference into a table in memory.
GetInode(ino) == Bit(ino) < BlockBits /\ Group(ino) \in loaded

\* The assert(device.good()) of load_inodes, and without it.
TableAccepted_Mutant(ok) == TRUE
TableAccepted(ok) == ok

\* The table that is in the memory of a group after its read. NoInode stands for what
\* a new Inode[] holds that the read has not filled.
TableRead(ino, ok) == IF ok THEN vol.inodes[ino] ELSE NoInode

\* load_meta_data, for a group not seen before. The group counts as loaded from the
\* first line on (its block_bitmap is allocated before the reads); the two bitmaps are
\* read unchecked, and one assertion at the end stands for all three reads.
LoadMetaData ==
    /\ WantsInode
    /\ Bit(Wanted) < BlockBits
    /\ Group(Wanted) \notin loaded
    /\ loaded' = loaded \cup {Group(Wanted)}
    /\ \E ok \in AfterRead :
          /\ good' = ok
          /\ all_inodes' = [ino \in Inodes |-> IF Group(ino) = Group(Wanted) THEN TableRead(ino, ok)
                                                                          ELSE all_inodes[ino]]
          /\ IF TableAccepted(ok) THEN UNCHANGED pc ELSE pc' = "aborted"
    /\ UNCHANGED <<device, stack, entry, file_content, docs>>

\* Try again instead of stopping.
GetInodeAborts_Mutant == WantsInode /\ Bit(Wanted) >= BlockBits /\ UNCHANGED vars

\* The assertion on the index.
GetInodeAborts == WantsInode /\ Bit(Wanted) >= BlockBits /\ Abort

\* What a directory buffer may hold when the stream is ok after the read of block b,
\* or not: the block; or whatever an earlier buffer at the same address held. Block 0
\* (an inode without blocks) is no directory either.
BufferEntries(b, ok) ==
    IF ok /\ b # 0 THEN {vol.dirs[b]} ELSE Garbage \cup {vol.dirs[c] : c \in Blocks}

\* read_current_directory up to its loop, on what was read for block b. Too many
\* activations overflow the stack of the process.
EnterDirectory(path, b) ==
    \E ok \in AfterReadOf(b) : \E entries \in BufferEntries(b, ok) :
        /\ good' = ok
        /\ IF (\E e \in entries : NameTooLong(e)) \/ Len(stack) = MaxDepth
           THEN pc' = "aborted" /\ UNCHANGED stack
           ELSE /\ pc' = "entry"
                /\ stack' = Append(stack, [path |-> path, todo |-> Kept(entries)])

\* A directory or an inode without a block is not read and has no content.
IsRead(inode) == ~inode.dir /\ inode.block # 0

\* read_file_inode writes a NUL where the content ends: at the front, when nothing is
\* read. Without that, what the memory held before its allocation is the content.
Unread_Mutant == file_content
Unread == Empty

-------------------------------------------------------------------------------
(* read_inode up to the walk. *)

\* Open the device, read and check the superblock and the group descriptors.
OpenVolume ==
    /\ pc = "superblock"
    /\ pc' = IF vol.accepted THEN "journal" ELSE "aborted"
    /\ UNCHANGED <<device, good, tables, stack, entry, file_content, docs>>

\* Without either check of the journal superblock.
JournalAccepted_Mutant(b) == TRUE

\* The magic number of the journal superblock that is read from block b, and then
\* init_journal_consts, which insists on the block size of the volume (and calls
\* get_inode for the inode that is already there).
JournalAccepted(b) == b \in vol.logs

\* The journal superblock, when the journal is on the volume.
ReadJournal ==
    /\ pc = "journal"
    /\ \/ vol.extJournal /\ pc' = "root"
       \/ /\ ~vol.extJournal
          /\ GetInode(vol.journal)
          /\ LET first == all_inodes[vol.journal].block
             IN  \/ JournalAccepted(first) /\ TRUE \in AfterReadOf(first) /\ pc' = "root"
                 \/ (~JournalAccepted(first) \/ FALSE \in AfterReadOf(first)) /\ pc' = "aborted"
    /\ UNCHANGED <<device, good, tables, stack, entry, file_content, docs>>

\* The root directory. When inode 2 is not a directory nothing is indexed.
ReadRoot ==
    /\ pc = "root"
    /\ GetInode(RootInode)
    /\ IF all_inodes[RootInode].dir
       THEN EnterDirectory(<<>>, all_inodes[RootInode].block)
       ELSE pc' = "done" /\ UNCHANGED <<good, stack>>
    /\ UNCHANGED <<device, tables, entry, file_content, docs>>

-------------------------------------------------------------------------------
(* The loop of read_current_directory, in the topmost activation. *)

Top == stack[Len(stack)]

\* Without std::sort, in any order of the block.
NextEntries_Mutant == Top.todo

\* The entries std::sort may put next.
NextEntries == {e \in Top.todo : \A f \in Top.todo : e.type <= f.type}

\* Without ++i.
Consume_Mutant(e) == stack
Consume(e) == [stack EXCEPT ![Len(stack)].todo = @ \ {e}]

\* No failure and no writer so far.
Calm == good /\ past = <<>>

\* db.add. Without the one of directories.
AddDoc_Mutant(doc) == docs' = IF doc.slash THEN docs ELSE Append(docs, doc)
AddDoc(doc) == docs' = Append(docs, doc)

\* `file_type & 2': the entry is added as a directory before it is looked at.
AddDirectory ==
    /\ pc = "entry"
    /\ \E e \in NextEntries :
          /\ TakenForDirectory(e)
          /\ AddDoc([path |-> Append(Top.path, e.name), slash |-> TRUE, text |-> Empty, calm |-> Calm])
          /\ entry' = e
          /\ stack' = Consume(e)
    /\ pc' = "descend"
    /\ UNCHANGED <<device, good, tables, file_content>>

\* read_directory_inode, of something that is one.
Descend ==
    /\ pc = "descend"
    /\ GetInode(entry.inode)
    /\ all_inodes[entry.inode].dir
    /\ EnterDirectory(Append(Top.path, entry.name), all_inodes[entry.inode].block)
    /\ entry' = NoEntry
    /\ UNCHANGED <<device, tables, file_content, docs>>

\* Where an activation that is over returns to. The root activation forgotten.
Caller_Mutant == "entry"
Caller == IF Len(stack) = 1 THEN "done" ELSE "entry"

\* read_directory_inode returns -1, and so does its caller: the entries it had not
\* reached are dropped. The caller's caller ignores what it returns.
NotADirectory ==
    /\ pc = "descend"
    /\ GetInode(entry.inode)
    /\ ~all_inodes[entry.inode].dir
    /\ stack' = Front(stack)
    /\ entry' = NoEntry
    /\ pc' = Caller
    /\ UNCHANGED <<device, good, tables, file_content, docs>>

\* Any other type: a new file_content for it, of which nothing is known ...
TakeFile ==
    /\ pc = "entry"
    /\ \E e \in NextEntries :
          /\ ~TakenForDirectory(e)
          /\ entry' = e
          /\ stack' = Consume(e)
    /\ file_content' \in Texts
    /\ pc' = "file"
    /\ UNCHANGED <<device, good, tables, docs>>

\* ... which read_file_inode fills. A failed read leaves anything in it ...
ReadFile ==
    /\ pc = "file"
    /\ GetInode(entry.inode)
    /\ LET inode == all_inodes[entry.inode]
       IN  IF IsRead(inode)
           THEN \E ok \in AfterReadOf(inode.block) :
                   /\ good' = ok
                   /\ file_content' \in IF ok THEN {vol.data[inode.block]} ELSE Texts
           ELSE file_content' = Unread /\ UNCHANGED good
    /\ pc' = "add"
    /\ UNCHANGED <<device, tables, stack, entry, docs>>

\* ... and which becomes a document, and is deleted.
AddFile ==
    /\ pc = "add"
    /\ AddDoc([path |-> Append(Top.path, entry.name), slash |-> FALSE, text |-> file_content,
               calm |-> Calm])
    /\ entry' = NoEntry
    /\ file_content' = Empty
    /\ pc' = "entry"
    /\ UNCHANGED <<device, good, tables, stack>>

\* The end of the loop.
Return ==
    /\ pc = "entry"
    /\ Top.todo = {}
    /\ stack' = Front(stack)
    /\ pc' = Caller
    /\ UNCHANGED <<device, good, tables, entry, file_content, docs>>

WalkStep ==
    \/ OpenVolume
    \/ LoadMetaData \/ GetInodeAborts
    \/ ReadJournal
    \/ ReadRoot
    \/ AddDirectory \/ Descend \/ NotADirectory
    \/ TakeFile \/ ReadFile \/ AddFile
    \/ Return

\* Another process changes the volume.
Rewrite ==
    /\ pc \notin {"superblock", "done", "aborted"}
    /\ Len(past) < MaxRewrites
    /\ \E w \in Volumes : <<vol, w>> \in Rewrites /\ vol' = w
    /\ past' = Append(past, vol)
    /\ UNCHANGED <<pc, good, tables, stack, entry, file_content, docs>>

Next == WalkStep \/ Rewrite

Spec == Init /\ [][Next]_vars

\* read_inode runs on its own: nothing it waits for. Nobody has to write.
FairSpec == Spec /\ WF_vars(WalkStep)

-------------------------------------------------------------------------------
(* What the volume holds, for the properties. *)

\* The inode a path names on the volume v, 0 if none: a file system without damage
\* has at most one entry of a name in a directory.
Step(v, ino, name) ==
    IF ino = 0 \/ ~v.inodes[ino].dir \/ v.inodes[ino].block = 0 THEN 0
    ELSE LET named == {e \in v.dirs[v.inodes[ino].block] : e.name = name}
         IN  IF named = {} THEN 0 ELSE (CHOOSE e \in named : TRUE).inode

\* The inodes along a path, that of the root first.
Along(v, path) ==
    LET ino[n \in 0..Len(path)] ==
            IF n = 0 THEN RootInode ELSE Step(v, ino[n - 1], path[n])
    IN  ino

Lookup(v, path) == Along(v, path)[Len(path)]

IsDirectory(v, path) == Lookup(v, path) # 0 /\ v.inodes[Lookup(v, path)].dir

\* The entries that can be indexed below a path, and those of them that end it.
ChildEntries(v, path) == Kept(v.dirs[v.inodes[Lookup(v, path)].block])
SpecialEntries(v, path) ==
    {e \in ChildEntries(v, path) : TakenForDirectory(e) /\ e.inode # 0 /\ ~v.inodes[e.inode].dir}

\* What can be listed of a directory: all, or what sorts before an entry at which it is
\* given up, and it. Of that entry's type there may be others that come before it.
ListedOf(v, path) ==
    {S \in SUBSET ChildEntries(v, path) :
        \/ SpecialEntries(v, path) = {} /\ S = ChildEntries(v, path)
        \/ \E last \in S :
              /\ S \cap SpecialEntries(v, path) = {last}
              /\ \A e \in S : e.type <= last.type
              /\ \A f \in ChildEntries(v, path) \ S : last.type <= f.type}

\* A directory whose entry says that it is one; old volumes' entries say nothing.
IsEntered(v, path) ==
    /\ IsDirectory(v, path)
    /\ path = <<>> \/ \E e \in ChildEntries(v, Front(path)) : e.name = Last(path) /\ TakenForDirectory(e)

\* The paths within so many directories of the root.
PathsWithin(v, depth) ==
    LET within[n \in 0..depth] ==
            IF n = 0 THEN {<<>>}
            ELSE LET P == within[n - 1]
                 IN  P \cup UNION {{Append(p, e.name) : e \in ChildEntries(v, p)} :
                                     p \in {q \in P : IsEntered(v, q)}}
    IN  within[depth]

\* What a walk of each volume that nothing stops may list: one set for each way to give
\* up the directories, of all paths whose every step is listed.
CompleteWalks ==
    [v \in Volumes |->
        LET paths == PathsWithin(v, MaxDepth)
            dirs == {p \in paths : IsEntered(v, p)}
            ways == {w \in [dirs -> UNION {ListedOf(v, p) : p \in dirs}] :
                        \A p \in dirs : w[p] \in ListedOf(v, p)}
            StepsListed(p, w) ==
                \A i \in DOMAIN p : \E e \in w[SubSeq(p, 1, i - 1)] : e.name = p[i]
        IN  {{p \in paths \ {<<>>} : StepsListed(p, w)} : w \in ways}]

\* What was listed while all was calm.
Listed == {docs[i].path : i \in {j \in DOMAIN docs : docs[j].calm}}

\* What the volume was when the walk began, and everything it has been.
Original == IF past = <<>> THEN vol ELSE past[1]
Versions == {vol} \cup Range(past)

\* A file that is not empty.
HasContent(inode) == ~inode.dir /\ inode.block # 0
Content(v, inode) == IF HasContent(inode) THEN v.data[inode.block] ELSE Empty

\* The writer has left alone the way to a path, and what is there.
Undisturbed(path) ==
    \A v \in Versions, n \in 0..Len(path) :
        LET ino == Along(vol, path)[n]
        IN  /\ Along(v, path)[n] = ino
            /\ ino # 0 => v.inodes[ino] = vol.inodes[ino]
            /\ ino # 0 /\ HasContent(vol.inodes[ino]) =>
                  v.data[vol.inodes[ino].block] = vol.data[vol.inodes[ino].block]

-------------------------------------------------------------------------------
(* Properties. *)

\* As long as no read has failed, every document about a path that no writer has
\* disturbed is right, whatever was changed around it and however old the inode tables
\* in memory are: the path names an inode, the content is that file's own (never what
\* the new buffer held before), and a directory has none. The one exception is a cleared
\* entry (inode 0) of a directory: it is added before get_inode stops the program, so it
\* is the last document.
DocsAreOfTheVolume ==
    good => \A i \in DOMAIN docs :
        Undisturbed(docs[i].path) =>
            LET ino == Lookup(vol, docs[i].path)
            IN  IF ino = 0
                THEN i = Len(docs) /\ docs[i].slash /\ pc \in {"descend", "aborted"}
                ELSE docs[i].text = IF docs[i].slash THEN Empty ELSE Content(vol, vol.inodes[ino])

\* As long as no read has failed, no path is added twice: neither returning from a
\* directory nor giving one up half-way leads back to an entry already added, nor does
\* a writer who moves directories about under the walk.
EachPathOnce ==
    good => \A i, j \in DOMAIN docs : docs[i].path = docs[j].path => i = j

\* On a device that nobody writes to and whose reads succeed, read_inode is the walk
\* that main() relies on: it comes back only with a complete one, and giving up a
\* directory at a symbolic link costs nothing outside that directory.
AbstractWalk == INSTANCE Walk WITH
    complete <- CompleteWalks[Original],
    listed <- Listed,
    outcome <- CASE pc = "aborted" \/ ~Calm -> "died" [] pc = "done" /\ Calm -> "returned"
                 [] OTHER -> "walking"

ImplementsWalk == AbstractWalk!Spec

\* Even on a failing or a changing device, below the root a document is preceded by the
\* one of its directory: an index that is cut short anywhere has every parent it needs.
ParentFirst ==
    \A i \in DOMAIN docs :
        Len(docs[i].path) > 1 =>
            \E j \in 1..(i - 1) : docs[j].slash /\ docs[j].path = Front(docs[i].path)

\* The inodes get_inode hands out are the volume's, though a group counts as loaded
\* before its table is read, reads in between are unchecked, and a writer may have changed
\* the volume since: the table of a group in memory is, as a whole, one the volume has had.
TablesAreOfTheVolume ==
    pc # "aborted" =>
        \A g \in loaded : \E v \in Versions :
            \A ino \in Inodes : Group(ino) = g => all_inodes[ino] = v.inodes[ino]

\* Nothing is added before the superblock, the journal and the inode of the root directory
\* have been accepted: a volume the program cannot read leaves no document behind. The
\* journal is on another device, or the block its inode names, in the table in memory, is
\* a journal superblock with the magic number and the block size the code insists on.
RefusedVolumesAddNothing ==
    [][docs' # docs => /\ vol.accepted
                       /\ Group(RootInode) \in loaded /\ all_inodes[RootInode].dir
                       /\ \/ vol.extJournal
                          \/ /\ GetInode(vol.journal)
                             /\ all_inodes[vol.journal].block \in vol.logs]_vars

\* The recursion ends, whatever garbage a failing device or a writer makes it follow.
Terminates == <>(pc \in {"done", "aborted"})

\* assert(bit < 8U * block_size_) in get_inode (ostream.h:214) says that every inode
\* number the walk looks up is one.
InodeIndexAsserted ==
    pc \in {"descend", "file", "add"} => Bit(entry.inode) < BlockBits

\* assert(entry.name_len < 255) in read_current_directory (ostream.h:291) says that
\* no directory the walk enters has a longer name.
NameLengthAsserted ==
    pc = "descend" /\ GetInode(entry.inode) /\ all_inodes[entry.inode].dir =>
        \A e \in vol.dirs[all_inodes[entry.inode].block] : ~NameTooLong(e)

-------------------------------------------------------------------------------
(* The inductive invariants behind ParentFirst and RefusedVolumesAddNothing. *)

DirListed(path) == \E j \in DOMAIN docs : docs[j].slash /\ docs[j].path = path

\* Every activation below the root works on a directory that has been added.
PrefixInv ==
    /\ ParentFirst
    /\ \A k \in DOMAIN stack : stack[k].path = <<>> \/ DirListed(stack[k].path)
    /\ pc = "descend" => DirListed(Append(Top.path, entry.name))

InWalk == pc \in {"entry", "descend", "file", "add"}

AcceptedInv ==
    /\ pc = "journal" \/ pc = "root" \/ InWalk => vol.accepted
    /\ (pc = "root" \/ InWalk) /\ ~vol.extJournal =>
          GetInode(vol.journal) /\ all_inodes[vol.journal].block \in vol.logs
    /\ InWalk => Group(RootInode) \in loaded /\ all_inodes[RootInode].dir

\* What a file system without damage promises, and no code checks: every directory has
\* a block, and no block, read as a directory, has two entries of a name.
UniqueNames(entries) == \A e, f \in entries : e.name = f.name => e = f
SoundDirectories ==
    \A v \in Volumes :
        /\ \A ino \in Inodes : v.inodes[ino].dir => v.inodes[ino].block # 0
        /\ \A b \in Blocks : UniqueNames(Kept(v.dirs[b]))

\* The inductive invariant behind ImplementsWalk: how far a calm walk is in each directory.
\* The entries of a directory that are listed.
ListedIn(v, listed, path) == {e \in ChildEntries(v, path) : Append(path, e.name) \in listed}

\* A path whose every step is listed, in a directory that is entered.
Reached(v, listed, path) ==
    \A i \in DOMAIN path :
        LET above == SubSeq(path, 1, i - 1)
        IN  IsEntered(v, above) /\ \E e \in ListedIn(v, listed, above) : e.name = path[i]

\* An activation in the middle of its loop. It has taken what sorts first, and nothing at
\* which it gives up; `file' is the entry it is reading and has not listed yet, `down' the
\* one it is about to enter.
Walking(v, listed, frame, file, down) ==
    LET all == ChildEntries(v, frame.path)
        taken == all \ frame.todo
    IN  /\ IsEntered(v, frame.path)
        /\ frame.path = <<>> \/ frame.path \in listed
        /\ frame.todo \subseteq all
        /\ file \cup down \subseteq taken
        /\ ListedIn(v, listed, frame.path) = taken \ file
        /\ \A e \in taken, f \in frame.todo : e.type <= f.type
        /\ taken \cap SpecialEntries(v, frame.path) \subseteq down
        /\ \A d \in down, e \in taken : e.type <= d.type

AsFile == IF pc \in {"file", "add"} THEN {entry} ELSE {}
AsDirectory == IF pc = "descend" THEN {entry} ELSE {}

InProgress(path) ==
    \/ \E k \in DOMAIN stack : stack[k].path = path
    \/ \E e \in AsDirectory : path = Append(Top.path, e.name)

\* What is listed is reached from the root.
ListedReached ==
    \A p \in Listed : p # <<>> /\ Len(p) <= MaxDepth /\ Reached(vol, Listed, p)

AllWalking ==
    \A k \in DOMAIN stack :
        IF k = Len(stack) THEN Walking(vol, Listed, stack[k], AsFile, AsDirectory)
                          ELSE Walking(vol, Listed, stack[k], {}, {})

\* The entry taken last: no directory, or one of which nothing is listed yet.
EntryTaken ==
    /\ \A e \in AsFile : ~TakenForDirectory(e)
    /\ \A e \in AsDirectory :
          /\ TakenForDirectory(e)
          /\ LET p == Append(Top.path, e.name) IN IsEntered(vol, p) => ListedIn(vol, Listed, p) = {}

\* Of the other directories all is listed, or all up to where they were given up.
OthersComplete ==
    InWalk \/ pc = "done" =>
        \A p \in Listed \cup {<<>>} :
            IsEntered(vol, p) /\ ~InProgress(p) => ListedIn(vol, Listed, p) \in ListedOf(vol, p)

CalmInv ==
    Calm /\ pc # "aborted" =>
        /\ Len(stack) <= MaxDepth
        /\ ListedReached
        /\ AllWalking
        /\ EntryTaken
        /\ OthersComplete
===============================================================================
