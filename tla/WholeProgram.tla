------------------------------ MODULE WholeProgram ----------------------------
(***************************************************************************)
(* main() of DesktopSearch calling the read_inode of Indexer, which calls  *)
(* the add of DB: the whole program, with the walk that DesktopSearch      *)
(* leaves open, on devices that may fail.                                  *)
(*                                                                         *)
(* Only the process that holds the lock can be in read_inode, so one copy  *)
(* of the walk's globals and of its stack is enough: those of that process.*)
(* Nobody writes to the devices meanwhile (module Indexer is about that).  *)
(***************************************************************************)
EXTENDS DesktopSearch

CONSTANTS Disk,        \* Disk[d]: the volume on device d
          Blocks, Beyond, Garbage, Names, Texts, Empty, Dot, DotDot, LostFound,
          NInodes, InodesPerGroup, BlockBits, UInt, MaxDepth, NoEntry

VARIABLES vol, where, good, loaded, all_inodes, stack, entry, file_content, docs

walkVars == <<vol, where, good, loaded, all_inodes, stack, entry, file_content, docs>>
wholeVars == <<vars, walkVars>>

W == INSTANCE Indexer WITH
    Volumes <- {Disk[d] : d \in Devices},
    Rewrites <- {}, MaxRewrites <- 0, past <- <<>>, pc <- where

\* A document can have any path that the recursion can come to, and there can be any
\* number of them. (The rest is what modules Volume and Indexer assume.)
ASSUME WholeAssumption ==
    /\ Disk \in [Devices -> W!VolumeType]
    /\ \A n \in 1..MaxDepth : [1..n -> Names] \subseteq Paths
    /\ WalkLengths = Nat
    /\ NInodes \in Nat \ {0, 1} /\ InodesPerGroup \in Nat \ {0} /\ BlockBits \in Nat /\ UInt \in Nat
    /\ InodesPerGroup <= BlockBits
    /\ BlockBits < UInt
    /\ Empty \in Texts
    /\ 0 \notin Blocks /\ Beyond \subseteq Blocks
    /\ Garbage \subseteq SUBSET W!Entry
    /\ MaxDepth \in Nat \ {0}
    /\ NoEntry \notin W!Entry

WholeInit == Init /\ W!Init

\* db.open(), and the call of read_inode with a copy of db, if there is a device.
OpenAndCall(r) ==
    /\ OpenDB(r)
    /\ IF device[r] = NoDevice
       THEN UNCHANGED walkVars
       ELSE /\ vol' = Disk[device[r]]
            /\ where' = "superblock"
            /\ good' = TRUE
            /\ loaded' = {}
            /\ all_inodes' = [ino \in W!Inodes |-> W!NoInode]
            /\ stack' = <<>>
            /\ entry' = NoEntry
            /\ file_content' = Empty
            /\ docs' = <<>>

\* The document that a step of the walk adds goes through the copy of db that this
\* activation has: the handles are main's.
AddThrough(r, path) ==
    /\ Add(r, [dev |-> device[r], path |-> path])
    /\ walked' = [walked EXCEPT ![r] = Append(@, path)]
    /\ UNCHANGED <<pc, device, answer>>

\* A step of read_inode: it may add a document, end an activation (whose copy of db is
\* destroyed) or end the process.
ReadInode(r) ==
    /\ pc[r] = "walk"
    /\ W!WalkStep
    /\ \/ docs' # docs /\ AddThrough(r, docs'[Len(docs')].path)
       \/ Len(stack') < Len(stack) /\ Destroy(r) /\ UNCHANGED mainVars
       \/ /\ where' = "aborted"
          /\ ProcessEnds(r)
          /\ Goto(r, "stopped")
          /\ UNCHANGED <<device, walked, answer>>
       \/ /\ docs' = docs /\ Len(stack') >= Len(stack) /\ where' # "aborted"
          /\ UNCHANGED <<dbVars, mainVars>>

(* Definitions named ..._Mutant are what a plausible mistake would make of the
   definition that follows them. Nothing here uses them. *)

\* The return of a subdirectory of the root taken for the one of read_inode.
WalkIsOver_Mutant == where \in {"entry", "done"} /\ Len(stack) < 2
WalkIsOver == where = "done"

\* read_inode returns: its parameter db is destroyed.
ReturnToMain(r) ==
    /\ pc[r] = "walk"
    /\ WalkIsOver
    /\ Destroy(r)
    /\ Goto(r, "close")
    /\ UNCHANGED <<device, walked, answer, walkVars>>

\* What the process does by itself; the rest is done to it.
WholeProgramStep(r) ==
    \/ (ConstructDB(r) \/ CheckCreated(r) \/ CloseDB(r)) /\ UNCHANGED walkVars
    \/ OpenAndCall(r)
    \/ ReadInode(r)
    \/ ReturnToMain(r)

WholeNext ==
    \E r \in Runs :
        \/ WholeProgramStep(r)
        \/ (ParseOptions(r) \/ Query(r) \/ Exit(r) \/ Crash(r)) /\ UNCHANGED walkVars

WholeSpec ==
    /\ WholeInit
    /\ [][WholeNext]_wholeVars
    /\ \A r \in Runs : WF_wholeVars(WholeProgramStep(r))

-------------------------------------------------------------------------------
\* The program is DesktopSearch, its fairness included: the recursion of read_inode
\* always comes back or dies, whatever a failing device gives it to read; the copies of DB
\* that it makes and destroys at every level leave no trace; and a process that dies at
\* any moment in it leaves what DesktopSearch says.
ImplementsMain == FairSpec

\* read_inode comes back whatever it has walked, and main() goes on to its prompt. If no
\* read of the device failed on the way, the database then holds a complete walk of the
\* device by the rules of the recursion, wherever earlier runs were stopped; and it goes
\* on holding it.
CompleteIndex ==
    good /\ store.version # NoVersion /\ pc[Owner] \in {"close", "prompt"} =>
        {StoredPaths[i] : i \in DOMAIN StoredPaths} \in W!CompleteWalks[Disk[device[Owner]]]

\* Unless a read of the device has failed, no path is in the database twice, though
\* nothing in add() looks for it: not by the recursion of one run, nor by another run
\* that is started with the same device.
NoPathTwice ==
    good => \A i, j \in DOMAIN StoredPaths : StoredPaths[i] = StoredPaths[j] => i = j
===============================================================================
