----------------------------- MODULE MCWholeProgram ---------------------------
(* WholeProgram with two small volumes for TLC, one of them failing. *)
EXTENDS WholeProgram

CONSTANTS r1, r2, d1, d2, q, root, jrnl, dirD, fileA, a, b, d, s, t, textA

File(block) == [dir |-> FALSE, block |-> block]
Dir(block) == [dir |-> TRUE, block |-> block]
E(ino, type, name) == [inode |-> ino, type |-> type, name |-> name, nameLen |-> 1]

\* Two symbolic links, of which a walk lists one, and a directory that is given up at
\* a socket.
Tree == [vblk \in Blocks |->
    CASE vblk = root -> {E(2, 2, Dot), E(5, 1, a), E(3, 2, d), E(6, 7, s), E(6, 7, t)}
      [] vblk = dirD -> {E(3, 2, Dot), E(2, 2, DotDot), E(5, 1, b), E(6, 6, s), E(5, 6, t)}
      [] OTHER -> {}]

Links == [accepted |-> TRUE, extJournal |-> FALSE, journal |-> 4, logs |-> {jrnl}, faulty |-> FALSE,
          inodes |-> <<File(0), Dir(root), Dir(dirD), File(jrnl), File(fileA), File(0)>>,
          dirs |-> Tree, data |-> [vblk \in Blocks |-> textA]]

\* A device whose reads may fail, with a cleared entry at which the walk dies if it gets
\* there.
Failing == [Links EXCEPT
    !.faulty = TRUE,
    !.dirs = [vblk \in Blocks |->
        CASE vblk = root -> {E(5, 1, a), E(3, 2, d)}
          [] vblk = dirD -> {E(5, 1, b), E(0, 2, s)}
          [] OTHER -> {}]]

MCDisk == [dev \in Devices |-> IF dev = d1 THEN Links ELSE Failing]
MCPaths == UNION {[1..n -> Names] : n \in 1..MaxDepth}
MCMatches == {q} \X MCPaths
MCGarbage == {{}}

\* The directories are those of a file system without damage, as the theorems ask.
ASSUME MCSoundDirectories == W!SoundDirectories
===============================================================================
