# Desktop-Search: TLA+ specifications

This directory specifies the Desktop-Search program of this repository: a
command-line tool that reads an ext2/ext3 device block by block, puts the path,
name and beginning of every file it finds into a Xapian database in `./db`, and
answers queries from that database. The specifications are checked on small
instances with TLC; the main results are proved with TLAPS for every value of the
constants. Line numbers refer to the files in `src/`.

## 1. The system

| Component | Files | State | Operations |
|---|---|---|---|
| Program and query loop | `desktop_search.cpp` | `globalArgs`, the local `DB db` | `main`: options, construction, decide to index, `read_inode`, query loop |
| Document database | `DB.cpp`, `DB.h` | handles `wdb` and `db`, pointer `enquire`, and on disk the metadata `version` and the documents | `DB`, `~DB`, `isCreated`, `open`, `add`, `close`, `search` |
| Volume walk | `read_inode.cpp`, `ostream.h` | `device` (one `ifstream`), `super_block`, `group_descriptor_table`, `block_bitmap`, `inode_bitmap`, `all_inodes`, `file_content`, `sum_files` | `read_inode`, `init_consts`, `init_journal_consts`, `get_inode`, `load_meta_data`, `load_inodes`, `read_current_directory`, `read_directory_inode`, `read_file_inode` |
| Printing | `ostream.h` 425-618 | none | `operator<<` of the superblock, group descriptors and journal blocks |
| Block vectors, journal descriptors | `blocknr_vector_type.h` | a tagged union; vectors of descriptors | `push_back`, `remove`, `operator=`; revoke parsing; `Transaction`. In no compiled file |
| Directory blocks | `directory_struction.h` | vectors of `DirEntry` | `read_block`, `exactly_equal`, `print`. In no compiled file |
| Hash table | `hashsearch.h` | `hashList` | `hashInsert`, `hashSearch`. In no compiled file |
| Former indexer and searcher | `index.cpp`, `search.cpp` | a database `proverbs` | `index`, `search`: commented out in `main`, not in the makefile |
| Vendored and scaffolding | `kernel-jbd.h`, `jfs_compat.h`, `ext3.h`, `sys.h`, `debug.h`, `locate.h`, `basic_function.h` | none | layouts, accessors, macros |

How they interact. `main` builds one `DB`, whose constructor takes Xapian's write
lock on `./db` and keeps it until the process ends. If the read handle shows no
`version`, `main` calls `open`, which writes one into the *working copy*, then
`read_inode` with a **copy** of the `DB` (same handles, same `enquire` pointer), and
then `close`. `read_inode` walks the directory tree recursively, passing further
copies of the `DB`; every `add` commits, so the first one also makes the version
durable. Queries are then answered through the read handle after `reopen`.
Everything in the walk shares the one global stream and the one global
`file_content`. There are no threads; concurrency is between processes, and between
a process and the end it may meet at any moment (failed assertions, exceptions
nothing catches, signals).

What is hard about it, and what makes each component correct:

- *crash and restart*: every document is a commit of its own and no later run
  resumes or repairs anything. Correct means that the damage of an interrupted run
  is exactly a prefix of its walk, from one device, with the directories of every file in
  it, and that a run interrupted before its first document leaves nothing
  (`CreatedIffNonEmpty`, `OneSource`, `OnlyTheOwnerAppends`, `ParentFirst`);
- *interleaved processes*: two runs may both want to index
  (`OneSource`, `NoPathTwice`);
- *coming back whatever happened*: `read_inode` returns after failed reads too, and
  `main` closes the index as if it were whole; it is, when no read failed
  (`CompleteIndex`);
- *stale reads*: the decision to index, and every query, go through a read handle
  that is a snapshot (`OneSource`, `AnswersCurrent`);
- *ownership*: `DB` is copied freely though it owns a heap object (`EnquireSound`);
- *error returns*: one symbolic link ends the directory it is in, and only the order
  of the sort bounds what that loses (`ImplementsWalk`);
- *a failing device*: most reads are unchecked, and a stream that has failed once
  delivers nothing any more while the walk goes on over old buffers
  (`TablesAreOfTheVolume`, `Terminates`, `ImplementsMain`). A device node among the files is enough: its
  `block()[0]` is no block number;
- *a changing device*: it may be mounted; inode tables are read once and kept,
  directories and files when the walk gets there (`DocsAreOfTheVolume`,
  `EachPathOnce`);
- *composition*: `read_inode` runs with copies of the `DB` at every level of its
  recursion, in a process that may die in it (`ImplementsMain`);
- *what is stored of a file*: one block of it, cut by its size, by a check for ASCII
  and by the first byte 0 (`WordsOfTheFileFound`);
- *positions in strings*: the line of a hit is cut out of the path at places that come
  from searches that may fail (`OneWordSurvives`, `MarksTheQuery`);
- *lengths from the disk*: the length of a directory record or of a revoke list is
  what the block says, 0 included (`NextFollowsRecords`, `LinksAreTheDirectory`,
  `RevokesFromTheList`);
- *assertions as error handling*: what the program refuses it refuses by dying, in
  the middle of what it was doing (`RefusedVolumesAddNothing` and the two findings).

The hazards are listed with their lines in `PROJECT.json`.

## 2. The modules

`DB` models the class `DB` over what Xapian promises. `store` is the durable
revision, `lock` the holder of the write lock; `wdb[r]`, `db[r]`, `enquire[r]` are the
members of the `DB` object of process `r`, and `heap[r]` the `Enquire` objects it has
allocated. One operator per method. Xapian is external and modelled as the code
uses it: one writer at a time, `commit` makes the whole working copy durable, what is
not committed is lost, a `Database` reads the revision it was opened on until
`reopen`. The constructor's `*new` leaks a reference to each handle, so the flush
that the last handle's destructor would do never happens; that is why `Close` never
reaches `store`. The terms of a document and the query language are abstracted to
the relation `Matches` between queries and paths; both result lists of `search` are
one set.

`DesktopSearch` extends `DB` with `main`: `pc[r]` is the place in `main` of
invocation `r`, `device[r]` is `globalArgs.deviceName`, `walked[r]` and `answer[r]`
are what the run has added and printed (history, for the properties).

| Action | Code |
|---|---|
| `ParseOptions` | `initGlobalArgs`, the `getopt` loop |
| `ConstructDB` | `DB db;`, or the exception of the lock |
| `CheckCreated`, `OpenDB` | `if(!db.isCreated())`, `db.open()`, `if(globalArgs.deviceName)` |
| `IndexFile`, `ReturnFromReadInode` | `read_inode`, abstracted to any number of `add`s of any paths, and its return, at any moment, with the destructor of its parameter |
| `CloseDB`, `Query`, `Exit` | `db.close()`, one turn of the loop, its end |
| `Crash` | every way a process ends that `main` did not choose |

`DesktopSearch` promises nothing of what a walk has added when it comes back: the code
has no such condition (`read_inode` 181-185), and after an unchecked failed read the walk
comes back incomplete. What it has added then is the matter of `WholeProgram`.
`WalkLengths` says how many documents a walk may add: `Nat` there, a bound here for TLC.

`WriteOnceIndex` is the abstract specification of `./db`: an index that begins with
one device, grows at its end, is sealed, and never changes again.
`DesktopSearch!IndexIsWriteOnce` is the refinement.

`Volume` declares what a volume is and the arithmetic of `get_inode`. `Indexer`
models one call of `read_inode`, on a device that may fail, end before a block it is
asked for, or be written to meanwhile: `vol` is the volume as it is, `past` what it
was; `stack` holds the activations of `read_current_directory`, each with its prefix
and the entries it has not reached; `entry` is the entry being descended into or read
as a file; `loaded` are the groups with a `block_bitmap` and `all_inodes` their tables
as they were read; `good` is the state of the stream; `file_content` is the global buffer
of the file being read, up to its first byte 0; `docs` are the documents added.

| Action | Code |
|---|---|
| `OpenVolume` | `read_inode` 85-117, `init_consts` |
| `LoadMetaData` | `get_inode` for a group not seen before: `load_meta_data`, `load_inodes` |
| `GetInodeAborts` | the assertion of `get_inode` |
| `ReadJournal` | `read_inode` 135-155, `init_journal_consts` |
| `ReadRoot` | `read_inode` 165-183 |
| `AddDirectory` | `read_current_directory` 312-319 |
| `Descend`, `NotADirectory` | `read_directory_inode` and the use of what it returns, 321-324 |
| `TakeFile`, `ReadFile`, `AddFile` | `read_current_directory` 326-331, `read_file_inode`, `read_current_directory` 335-338 |
| `Return` | the end of `read_current_directory` |
| `Rewrite` | another process writes to the device: external |

`std::sort` orders entries by type only, so of the entries left any one of the least
type may be next. A read fails at a block beyond the end of the device, and may fail
anywhere on a faulty one; an unchecked failed read leaves its buffer to chance: nothing
that parses, or the block an earlier buffer held. The buffer of a file is new memory of which
nothing is known; only `ReadFile` decides what is added. `LoadMetaData` follows the order
of the code: the group counts as loaded before anything is read, the bitmaps are read
unchecked, and the assertion behind the inode table (`TableAccepted`) stands for all
three reads. `MaxDepth` is the number of
activations the C++ stack can hold; one more ends the process, as it does in the
program (and it keeps TLC's state space finite). The writer leaves alone what is read
only at the beginning (the superblock and where the journal is). With a writer nothing
is promised about completeness: a directory made during the walk, whose inode was not a
directory when its table was read, makes the walk give up the rest of the parent.

`read_inode` has no `return` at its end; its caller ignores the result and the
makefile compiles without optimisation, so it returns.

`Walk` is the abstract specification of a `read_inode` whose reads succeed on a device
left alone: it lists paths towards a complete walk, comes back only when it has one,
and may die at any moment. `Indexer!ImplementsWalk` shows that `read_inode` does that
(from the first failed read or rewrite on, the mapping says `died`, which permits
anything after it: the program goes on). What a
complete walk is (`CompleteWalks`): one set of paths for each way of giving up the
directories that have an entry taken for a directory which is none. Such a directory is
listed up to that entry, and of the entries of the same type any may have come before it
(`ListedOf`); a directory is entered only if its entry's type has the bit for it
(`IsEntered`), which it has not where the volume records no types.

`WholeProgram` puts the two together again: `main` of `DesktopSearch` calls the
`read_inode` of `Indexer` (an instance, with its variables), whose
documents go through the `Add` of `DB` (`AddThrough`), whose activations destroy their
copy of `DB` when they end (`ReadInode`), and whose aborts end the process. Devices may
fail as in `Indexer`; nobody writes to them. Its main property is that it implements
`DesktopSearch`, fairness included, so what is shown, and proved, of `DesktopSearch`
holds of it. That the index is complete (`CompleteIndex`) and lists nothing twice
(`NoPathTwice`) is said here, and only of walks in which no read failed.

The theorems about a module `M` are in `MProofs`, which extends it; there is one for
`DesktopSearch` (and with it `DB` and `WholeProgram`), `Indexer`, `SuperBlock`,
`NameSearch`, `BlocknrVector` and `FormerIndex`, and `JournalAndDirectoryProofs` for
`JournalDescriptors` and `DirectoryBlocks`. `BasicLemmas` has what several of them need about
division, induction, recursive functions and sequences. `MCM` gives the constants of `M`
their values for TLC. Definitions named `..._Mutant...` are
plausible mistakes, used to see that each property can fail; no specification
uses them.

The other modules model parts that can be looked at alone.

`SuperBlock` is `read_inode` up to the assertions on the superblock, with
`init_consts`, in the C types of the code: `sb` is the superblock on the device, any
record of machine words, `consts` are the globals. The actions are the statements in
their order (`OpenDevice`, `ReadSuperBlock`, `InitConsts`, `ReadDescriptors`,
`CheckSuperBlock`); each may end the process. Divisions by zero and negative
allocations die where the code divides and allocates, which is before it looks at the
magic number. It discharges, for one volume, what `Volume` assumes of an accepted one.

`NameSearch` refines the relation `Matches` of `DB`: the terms `DB::add` makes of a name
(every suffix, as `Xapian::TermGenerator` splits it) and of a content, what `DB::search`
matches with a partial query and then with an exact one, and the line it prints for a
hit, with the C++ positions, `npos + n` wrapping round to `n - 1`. The content is made
of the bytes of a file's first block as `read_file_inode` makes it (`FileContent`).
`docs` is the database, `RunQuery` the first query, `ShowHit` and `HitThrows` one turn of
the loop over its results, `SearchContents` the second query and its list.
`TermGenerator`, `QueryParser` and `std::string` are external. The terminator of a full
block is written one byte behind the buffer; with the block sizes of ext3 `malloc`
has added at least that byte, so the string is what it is meant to be.

`BlocknrVector` is `blocknr_vector_type`, one list of block numbers as a `size_t`
that is nothing, a block shifted left by one with the lowest bit set, or a pointer to
an array. `blocknr` is that word, `heap` the arrays that are allocated; `put` and `wide`
are history, what the list should hold. One action for each method (`PushBack` has the
three cases of `push_back`), and one for each whose assertion fails.

`JournalDescriptors` is `Descriptor`, `DescriptorTag`, `DescriptorRevoke` and
`Transaction`: `descriptors` is `M_descriptor`. The revoke list has the length the disk
gives it, a machine word. `PrintDescriptors` is the report of a transaction, without flags
and layout. `add_block_descriptors` is not modelled: the two functions it calls have no
definition in the repository.

`DirectoryBlocks` is `DirectoryBlock`: `BeginRead`, `ReadDirEntry`, `EndRead` are
`read_block` around its callback, with the static buffer and the flag that guards it.
Entries are delivered in any order, as a scan for deleted entries may. `std::sort` is any
arrangement of them that has no inversion (`Sorted`). A record's length is whatever the
disk says, 0 and lengths that lead out of the block included. Beside it,
`CurrentDirectory` is the way in which the walk reads the same block (`ostream.h`
284-306): its assertion on the length of a name, its `break` at a record of length 0, and
the two names it skips. `read_block` knows no such `break`: with length 0 an entry becomes
its own successor and passes the assertion at `directory_struction.h:153`.
`LinksAreTheDirectory` says that this is the one way in which the links can lead nowhere,
and that it happens where the walk stops.

`FormerIndex` is `index` and `search`: `file` is `directory_file`, `words` what `>>` has
still to read, `pending` what Xapian has not made durable. `OpenDatabase`,
`AddDocument`, `EndIndex`, `CatchError` are `index`, `Search` is `search`.

No compiled file includes `blocknr_vector_type.h` or `directory_struction.h`, and the
calls of `index` and `search` are commented out: these modules let the callers make
any sequence of calls.

## 3. What is checked

| Run | Question | States |
|---|---|---|
| `desktop_search` | Do three overlapping, crashing runs keep the database the work of one of them, the answers current, the `Enquire` pointer sound? Does it implement `WriteOnceIndex`? Does a started run reach its prompt or die? | 163159 |
| `usage_text` | Finding: `-r` of a later run is ignored, against the usage text | violation |
| `indexer` | Are documents those of the volume, once each, parents first, and the tables used the volume's, on a device that fails or is written to? Does a refused volume leave nothing? Does the walk end? Does `read_inode` implement `Walk` on a device left alone? | 48296 |
| `inode_index` | Finding: an entry with inode 0 fails the assertion of `get_inode` | violation |
| `name_length` | Finding: a 255-byte name fails the assertion of `read_current_directory` | violation |
| `superblock` | Of every superblock over 8-bit words: has an accepted volume a slot for every inode, and is every well-formed one accepted? | 156158 |
| `name_search` | Of every short name, file and query: does a search find the substrings of names and the words of files, and print the path with the query marked? | 63235 |
| `blocknr_vector` | Do any calls leak an array or dereference a block number, and which bits of a block survive? | 1784 |
| `journal_descriptors` | Is a revoke list read inside its block, does the report keep the order? | 9076 |
| `directory_blocks` | Whatever the record lengths, do the links follow the records, lead where the walk goes and stop where it stops, are two reads equal? | 226528 |
| `former_index` | Is the database a prefix of the present file after crashes and errors, and do searches show what they should? | 166 |
| `whole_program` | Is the whole program, `read_inode` and failing reads included, what `DesktopSearch` says? Is the index complete, and without a path twice, when no read failed? | 20321 |

Bounds and why they are enough. Three runs are one that indexes, one that overlaps
with it, and one that comes after both; nothing in `DB` depends on more, and the
theorems cover any number. Two devices are needed to see documents mixed; walks of up
to two documents over two paths give walks that add nothing, one document, two, and one
twice (`WalkLengths`, 0..2). The bound is also what ends an abstract walk for
`StartedRunsSettle`; that the real one ends is `Indexer!Terminates`, and the fairness
half of `ImplementsMain` with `WalkLengths = Nat`. Eight inodes in two groups, with
`InodesPerGroup` 4 and `BlockBits` 8, make the group and index arithmetic cross a
group boundary and let the index of inode 0 (`UInt - 1`) exceed a block's bits. Three
directories nested in each other, and the subsets of nine entries of every file type,
give every order in which the sort can put files, directories and links, on two
levels; `MaxDepth` 3 is as deep as the tree, and exceeded by garbage that refers to
itself and by directories that the writer moves into each other. Two rewrites are a change
and its reversal, or two changes; the writer makes a directory, gives a removed file's
inode to one, or swaps two. The faulty volumes are smaller ones, because what a bad
stream lets the walk read multiplies. `whole_program` needs two runs (one indexes, one
comes meanwhile or afterwards) and two volumes: one with links and a socket, on a sound
device, and one on a device any read of which may fail, with a cleared entry at which the
walk dies if it gets there. Walks with a failed read come back to the prompt there.
`CHECK_DEADLOCK FALSE` because every run of
the program ends.

The modules that compute with machine words scale the words down, so that every value
occurs: 8-bit words with blocks of at least 8 bytes of 2 bits in `superblock`, 5-bit words in
`journal_descriptors`, 4-bit block numbers in a 6-bit `size_t` in `blocknr_vector`;
`name_search` drops words of more than 3 letters where Xapian does of more than 64, has
blocks of 3 bytes of which 2 are looked at for ASCII, and files shorter, as long and
longer. Wrap-around,
sign extension and truncation then happen in thousands of states; what depends on the
width only through such arithmetic is proved for every width. Lists of three blocks
pass through all representations in both directions. Blocks of four places hold
entries, deleted ones inside records, and records that have no length or end at any
place, one behind the block included. Four
files of at most four names, a flush every two documents and names of up to four
letters put a crash, a blank and a refused name before, between and after flushes.

Fairness. `DesktopSearch!FairSpec` is weakly fair to `ProgramStep(r)` of each run: a
process that has started and is not blocked is scheduled. Nothing makes a user start
a run, type a query or end one; and no lock is ever waited for, because the
constructor throws. `Indexer!FairSpec` is weakly fair to `WalkStep`: one thread that waits
for nothing (a read that fails returns); nobody has to write to the device.
`WholeProgram!WholeSpec` is weakly fair to `WholeProgramStep(r)`, the same as `ProgramStep` with
the steps of the walk in it.

## 4. What is proved

Each theorem is for every value of the constants that the named assumptions allow: any
number of runs, devices and paths, every volume, every pattern of read failures, every
writer, every word size.

**`DesktopSearchProofs`**: all safety properties of `desktop_search`, the refinement of
`WriteOnceIndex` included. The argument is the lock. None of the properties is
inductive: that a run about to index does not mix its documents with another's depends
on what it has read being still true. `IInv` adds `LockInv` (a run is past its
constructor exactly while it holds the lock), `HandleInv` and `WalkInv` (what the
handles of the lock holder show is the store, with the stamp of `open` on it during the
walk), `FreshInv`, `EnquireInv` (no `Enquire` object before the first query, which is
what makes the copies of `DB` harmless) and `AnswerInv`. From `IInv`, `StoreChange` says
what a step can do to the store (nothing, or one append by the run that holds the lock
and is walking), and the action property and the refinement follow from that lemma. The
assumptions are `DBAssumption` and `MainAssumption`: the model values differ, and `Matches`
relates queries to paths.

Its last part is about `WholeProgram`. The refinement, fairness aside (`WholeRefined`), is
for any devices, damaged and failing ones too, under `WholeAssumption` (the paths are those
the recursion can come to, and there is no bound on their number). It takes
`IndexerProofs` as an instance (`WP`) for the walk of the
process that is in `read_inode`. The invariant is that of `DesktopSearch` (`IInv`), what
`Indexer` says of the depth of the stack and of the paths on it (`DepthInv`: what bounds
the paths that can be added, `PathFits`), and one that ties them together, `RunsWalk`: the
volume under the walk is that of the device of the run that holds the lock, and the
paths of the documents are what the run has added. `WalkMoves` says that whatever the
program does, its walk takes a step of `Indexer`, starts again from `Init`, or waits.
`ReadInodeStep` then maps the steps of the recursion: a document is an `IndexFile`, an
abort is a `Crash`, a destructor of a copy of `DB` changes nothing because there is no
`Enquire` object yet, and the rest are stutters; `ReturnToMain` is `ReturnFromReadInode`.
What is proved of `DesktopSearch` follows for the whole program (`WholeProgramKeeps`).

`CompleteWithoutFailures` (`CompleteIndex`) and `PathsOnce` (`NoPathTwice`) are about what a
walk leaves behind, for sound directories (below). They do not follow from `DesktopSearch`;
they carry the invariants of the walk through the life of the run and beyond it. Whatever
other runs do, the documents in the database are those that the walk's variables still hold,
and if their owner has come back from the walk, it is over (`LastWalk`). As long as the
stream is good these documents have no repetition (`OnceInv`), and are complete at the end
of the walk (`CalmInv`).

**`IndexerProofs`**: all safety properties of `indexer`, and that `read_inode` implements
`Walk`, under `VolumeAssumption` (what `read_inode` asserts about the superblock, and at
least two inodes) and `IndexerAssumption`.

- `InodeIndex`: given what `read_inode` asserts of the superblock, `get_inode`'s
  assertion holds for every inode of the volume and fails for 0.
- `ParentsFirst`, `RefusedAddNothing`. `PrefixInv` strengthens `ParentFirst`
  with the stack: every activation works on a prefix that has been added. `AcceptedInv`
  strengthens `RefusedVolumesAddNothing` with the program counter: from the root directory
  on, the journal is elsewhere, or its inode's block, as it is in the table in memory, is
  a journal superblock that passed both checks; no later table replaces that one.
- `TablesOfTheVolume` (`TablesAreOfTheVolume`): each inode table in memory, as a whole, is
  that of some version of the volume.
- `PathsOnce` (`EachPathOnce`). `OnceInv` says what the documents are compared with:
  nothing that has been added, and no activation further in, is at or below an entry that
  an activation has still to reach (`Unreached`) or has just taken (`JustTaken`), and each
  activation works one level below the one that called it (`OneDeeper`).
- `DocsOfTheVolume` (`DocsAreOfTheVolume`). `ContentInv`: beside the tables, as long as the
  way to an entry is undisturbed its path leads, on the volume as it is, to the inode the
  entry names (`EntriesInv`, `EntryInv`), and the buffer that is about to be added holds the
  content of that inode, whatever was in the memory before.
- `WalkRefined` (`ImplementsWalk`). `CalmInv` describes a walk in the middle: an
  activation has listed exactly the entries it has taken, which are those that sort first,
  and none at which it gives up (`AllWalking`); the entry just taken has nothing below it
  yet (`EntryTaken`); every other directory that is listed is listed completely, or up to
  where it was given up (`OthersComplete`). `OnTheWay` then picks a complete walk that
  contains what is listed and the path to be listed next, `EndsEmpty` shows that at the
  end what is listed is one, and each step is `List`, `ComeBack`, `Die` or a stutter.

The last three have the hypothesis `SoundDirectories`: every directory has a block, and no
block has two entries of one name. A file system without damage promises that, but no
code checks it, and with two entries of a name the same path is indeed added twice. It is
therefore a hypothesis of the theorems and no assumption of the module; that the volumes
of the runs satisfy it is checked by the `ASSUME` of `MCIndexer` and of `MCWholeProgram`.
A failing device is no exception: a block that reads as another block is one of these blocks, and what was
indexed from a bad stream is outside what the properties speak of.

Why `ListedOf` and `IsEntered` are as they are: of two entries that are taken for
directories and have the same type, one a directory and the other not, either may come
first, so both may be listed or one; and a directory whose entry has no type is added as
a file and not entered, whatever is in it. The refinement is not provable, and not true,
of simpler definitions; but such volumes are rare among those of the run, which may not
tell the difference.

**`SuperBlockProofs`**: all properties of `superblock`, for every superblock and every word
size. If `read_inode` accepts the volume, and its inodes can be counted in an `int`, each
of them has a group and an index inside its table (`SlotsForAll`) and the tables fill their
blocks exactly (`TablesForAll`); and no volume such as `mke2fs` makes is refused
(`WellFormedForAll`). `ConstsInv` ties the globals to the superblock they were computed
from; with it the first becomes a statement about the C division of two numbers, which
the assertions make exact. `AssertedInv` adds what was asserted of the block and inode
size when the descriptors are read. `SuperBlockAssumption` has that the smallest block
holds a whole number of inodes (1024 and 128 bytes), without which the property
about tables is false.

**`NameSearchProofs`**: all properties of `name_search`, for every alphabet, word limit,
block size and set of documents `main` can build (`DocumentsAssumption`: a parent that
ends in a slash, a name without one). `SearchInv` says that what is shown and what is
still held are together the matches. `FindsSubstrings`: the suffixes that `add` indexes
and the prefix that the query ends in make a search for a substring. `OneWordsSurvive`
and `QueryMarked`: a query of one word is found in the last component of the path, at a
place where the three parts of the line are the path again. `FindsWords`: a word that
ends before the first byte 0 and lies in what is looked at is a term. The assumption on
`tolower` is that it takes letters, and only them, to letters.

**`BlocknrVectorProofs`**: all properties of `blocknr_vector`, for every number of bits.
The encodings give back the lower bits of a block (`EncodeFacts`, `EncodeLastFacts`), and
type correctness, `Sound` and `SmallBlocksExact` are inductive together though none is
alone: what `remove` stores when it empties a vector down to one block is decoded
correctly because the array held numbers of the right range, and the array is there
because the word is a vector exactly when its address is on the heap. `LowBitsForAll`
counts: what any sequence of calls has put in and not removed is in the list as often as
it should be, up to the top bit that the shifts may lose or change.

**`JournalAndDirectoryProofs`**: all properties of `journal_descriptors` and of
`directory_blocks`, for every word size, block size and set of entries.

- Of the journal: `IInv` says what a descriptor is: a tag of one block, or the beginning of
  a list on the disk, which is `RevokesForAll`; `PrintsInOrder` is about the folds of the
  report.
- Of directory blocks: `DirectoryInv` says that the read in progress has each entry
  delivered to it once (`Collects`), and that a finished one has all entries of the block
  in the order of their places (`InPlace`), linked and past its assertions (`HasLinks`).
  `OrderExists` shows, by ranks, that entries at different places can be sorted at all.
  `NextForAll` is then about two neighbours in place. For `ReadsAgreeForAll`, two sequences
  with the same places in increasing order are the same position by position
  (`SamePlaces`), so their links are too. `LinksForAll` first shows that the recursive
  functions of the link follower and of the walk exist, and then goes back from the end of
  the block: from each entry on, deleted or not, both read the same names and both stop at
  the first one without a length.
  `DirectoryAssumption` has what a block is: finitely many entries at different places
  inside it, one of them at its beginning, whose records may have no length, end anywhere
  and overlap; that they end at an entry or at the end of the block is what the assertions
  ensure.

**`FormerIndexProofs`**: both properties of `former_index`. `PrefixInv` counts: after `r`
documents, `words` is what `>>` leaves of the file behind the first `r` pairs, of which
the last fewer than `FlushEvery` may not be stored. `FormerAssumption` has that a word
has a character; for a query that is an empty word Xapian answers with everything, which
the model leaves out.

Induction. The provers cannot instantiate a theorem about an operator `P(_)`, which is
how the library states induction. `BasicLemmas` states it about sets instead:
`LeastNumber`, then `Induction` (a set of numbers with 0 and the successor of each of its
members has all), then `RecursionExists` (a function with given first value and step
exists). With them `Along`, `Lookup` and the folds of the other modules can be computed in
proofs.

Only model-checked:

- `Terminates` and `StartedRunsSettle`: liveness, out of the prover's reach, as are
  fairness and ENABLED;
- the fairness half of `ImplementsMain`, that the whole program keeps going as
  `DesktopSearch` does; its safety half is `WholeRefined`;
- the three runs that show a finding.

## 5. What is not modelled

- In `Indexer`: the bytes of a directory block are its entries, and rec_len only says
  where the next one starts (`DirectoryBlocks` has the record lengths); a content is one
  value (`NameSearch` has the bytes). Only the first block of a file or directory exists,
  as in the code. A record length or name length of a damaged block that leads out of the
  buffer, or to where no entry begins, is left out.
- A bound on the depth of the recursion: the code has none, the model stops the process at
  `MaxDepth` as an overflow of the stack does.
- `add_block_descriptors` and `contains_tag_for_block` of the journal descriptors: the
  first calls only functions that are declared and never defined, so there is no index to
  model; the second changes nothing and has nothing to be compared with.
- A writer that changes the superblock, the group descriptors or the journal's inode.
- Between `Indexer` and `SuperBlock`: `Indexer` takes the verdict of the assertions on the
  superblock as one Boolean of the volume.
- Of `search`: ranking and the query operators (`AND`, phrases, prefixes), which are
  Xapian's; the terms of paths, which nothing searches for; which exception a query
  raises: an exception is `Crash`.
- Printing of superblocks, group descriptors and journal blocks (`ostream.h` 425-618):
  formatting without state, of which only the superblock's is called.
- `hashsearch.h`, in no compiled file: `hashInsert` links a new unit nowhere, so the
  table stays empty and there is no behaviour to check.
- `DirEntry::print`, `get_bitmap_mask` and class `Directory`: the first needs helpers, the
  last a constructor that have no definition in the repository, and nothing calls the
  second.
- The vendored headers `kernel-jbd.h` and `jfs_compat.h`, of which only layouts are
  used, and `locate.h`, `sys.h`, `debug.h`, `basic_function.h`.

## 6. Plan

In this order:

1. `DB`, `DesktopSearch`, `WriteOnceIndex` and their proofs: done.
2. `Volume`, `Indexer`, `Walk` and their proofs, the refinement included: done.
3. `SuperBlock`, `NameSearch`, `BlocknrVector`, `JournalDescriptors`, `DirectoryBlocks`,
   `FormerIndex`, with their proofs: done.
4. A volume that changes during the walk, in `Indexer`; the second half of `search` and the
   content of files, in `NameSearch`: done.
5. `DesktopSearch` and `Indexer` composed, in `WholeProgram`, on devices that may fail, with
   the proof that it implements `DesktopSearch`, fairness aside, and of what its index
   then is: done.
6. Open: `WholeProgram` on devices that are written to, and `SuperBlock` in the place of
   the one Boolean by which `Indexer` knows it.
