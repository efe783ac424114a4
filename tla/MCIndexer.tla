------------------------------- MODULE MCIndexer ------------------------------
(* Indexer with small volumes for TLC. *)
EXTENDS Indexer

CONSTANTS root, lost, jrnl, dirD, dirE, fileA, fileB, new, far,   \* blocks
          a, b, c, d, e, s, t,                         \* names
          textA, textB

File(block) == [dir |-> FALSE, block |-> block]
Dir(block) == [dir |-> TRUE, block |-> block]
E(ino, type, name) == [inode |-> ino, type |-> type, name |-> name, nameLen |-> 1]
Dots(self, parent) == {E(self, 2, Dot), E(parent, 2, DotDot)}

\* Inodes 1 to 4 are in group 0, inodes 5 to 8 in group 1.
MCInodes ==
    << Dir(lost), Dir(root), Dir(dirD), File(jrnl), File(fileA), File(fileB), File(0), Dir(dirE) >>

Tree(inRoot, inD, inE) ==
    [blk \in Blocks |->
        CASE blk = root -> inRoot \cup Dots(2, 2) \cup {E(1, 2, LostFound)}
          [] blk = lost -> Dots(1, 2)
          [] blk = dirD -> inD \cup Dots(3, 2)
          [] blk = dirE -> inE \cup Dots(8, 3)
          [] OTHER -> {}]

Ext3(dirs) ==
    [accepted |-> TRUE, extJournal |-> FALSE, journal |-> 4, logs |-> {jrnl}, faulty |-> FALSE,
     inodes |-> MCInodes, dirs |-> dirs,
     data |-> [blk \in Blocks |-> CASE blk = fileA -> textA [] blk = jrnl -> Empty [] OTHER -> textB]]

\* Files, directories, symbolic links, sockets, devices and untyped entries, in every
\* combination; d is the only way to dirD and e the only way to dirE.
InRoot == {E(5, 1, a), E(3, 2, d), E(7, 6, b), E(7, 7, s), E(7, 7, t)}
InD == {E(6, 0, b), E(7, 3, s), E(5, 4, a), E(8, 2, e)}
InE == {E(5, 1, c), E(7, 5, b)}

Sound == {Ext3(Tree(r, q, InE)) : r \in SUBSET InRoot, q \in SUBSET InD}

Plain == Ext3(Tree(InRoot, InD, InE))

\* An entry cleared by e2fsck, and a name as long as ext2 allows.
Cleared == Ext3(Tree({E(3, 2, d)}, {E(0, 1, a), E(6, 1, b)}, {}))
ClearedDir == Ext3(Tree({E(5, 1, a), E(3, 2, d)}, {E(0, 2, e), E(6, 1, b)}, {}))
LongName == Ext3(Tree({E(3, 2, d), E(8, 2, e)}, {[E(5, 1, a) EXCEPT !.nameLen = 255]}, {E(6, 1, b)}))

\* A device node whose number is beyond the last block, and the entries without types
\* of an old ext2 volume.
Node == [Plain EXCEPT !.inodes[7] = File(far), !.dirs[root] = @ \cup {E(7, 4, c)}]
Untyped == Ext3(Tree({E(5, 0, a), E(3, 0, d)}, {E(6, 0, b)}, {}))

\* A file whose entry was damaged and says that it is a directory, beside one that is.
Mixed == Ext3(Tree({E(5, 2, a), E(3, 2, d), E(6, 4, b)}, {E(5, 1, a)}, {}))

\* Two directories are enough to follow garbage from one into the other, and from each
\* into itself.
Small == Ext3(Tree({E(5, 1, a), E(3, 2, d)}, {E(6, 1, b), E(7, 7, s)}, {}))
Faulty == {[v EXCEPT !.faulty = TRUE] :
              v \in {Small, [Small EXCEPT !.extJournal = TRUE, !.journal = 0], ClearedDir, LongName}}
MCGarbage == {{}, {E(8, 2, d), E(3, 2, d)}}

\* What a writer makes of a volume: a new directory whose inode was free, a file with
\* the inode of another that was removed, directories that change places and names.
Before == Ext3(Tree({E(5, 1, a), E(3, 2, d)}, {E(6, 1, b), E(8, 2, e)}, {E(5, 1, c)}))
NewDir == [Before EXCEPT !.inodes[7] = Dir(new), !.dirs[root] = @ \cup {E(7, 2, s)}]
Reused == [Before EXCEPT !.inodes[5] = Dir(fileA), !.data[fileA] = textB,
                         !.dirs[root] = (@ \ {E(5, 1, a)}) \cup {E(5, 2, t)}, !.dirs[dirE] = Dots(8, 3)]
Swapped == [Before EXCEPT !.dirs = Tree({E(5, 1, a), E(8, 2, e)}, {E(6, 1, b)}, {E(5, 1, c), E(3, 2, d)})]

MCRewrites == {<<Before, NewDir>>, <<NewDir, Before>>, <<Before, Reused>>,
               <<Before, Swapped>>, <<Swapped, Before>>}

MCVolumes ==
    Sound \cup Faulty \cup
    { Cleared, ClearedDir, LongName, Node, Untyped, Mixed, Before, NewDir, Reused, Swapped,
      [Plain EXCEPT !.extJournal = TRUE, !.journal = 0],
      [Plain EXCEPT !.accepted = FALSE],
      [Plain EXCEPT !.journal = 0],                    \* ext2: no journal
      [Plain EXCEPT !.journal = 7],                    \* its inode has no block
      [Plain EXCEPT !.logs = {}],                      \* not a journal superblock
      [Plain EXCEPT !.inodes[2] = File(root)] }

ASSUME MCSoundDirectories == SoundDirectories
===============================================================================
