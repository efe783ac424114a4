---------------------------- MODULE DesktopSearch -----------------------------
(***************************************************************************)
(* main() of src/desktop_search.cpp, run any number of times, possibly     *)
(* several at once, over one "./db".                                       *)
(*                                                                         *)
(* Each element of Runs is one invocation: it parses its options, builds   *)
(* the DB, indexes the device of -r if the database has not been created   *)
(* yet, and then answers queries until `exit' or end of input.  A run can  *)
(* die at any moment: a failed assertion of read_inode, an exception of    *)
(* Xapian or of std::string that nothing catches, or a signal.             *)
(*                                                                         *)
(* read_inode is abstracted here to the documents it adds, one commit at a *)
(* time: any paths, any number of times, and it may come back at any       *)
(* moment, since reads that fail are not noticed.  Module Indexer models   *)
(* the walk itself, and WholeProgram puts it in this place.                *)
(***************************************************************************)
EXTENDS DB

CONSTANTS WalkLengths, \* how many documents a walk may have added: Nat, or a bound for TLC
          NoDevice     \* -r was not given

VARIABLES pc,          \* pc[r]: where r is in main()
          device,      \* device[r]: globalArgs.deviceName
          walked,      \* walked[r]: the paths r's walk has added, in order
          answer       \* answer[r]: the last query of r and the documents it printed

mainVars == <<pc, device, walked, answer>>
vars == <<dbVars, mainVars>>

ASSUME MainAssumption == NoDevice \notin Devices

Locations == {"idle", "construct", "check", "open", "walk", "close",
              "prompt", "stopped"}

NoAnswer == [query |-> Null, docs |-> {}]
Answer == [query : Queries, docs : SUBSET Document]

TypeOK ==
    /\ DBTypeOK
    /\ pc \in [Runs -> Locations]
    /\ device \in [Runs -> Devices \cup {NoDevice}]
    /\ walked \in [Runs -> Seq(Paths)]
    /\ answer \in [Runs -> Answer \cup {NoAnswer}]

Init ==
    /\ DBInit
    /\ pc = [r \in Runs |-> "idle"]
    /\ device = [r \in Runs |-> NoDevice]
    /\ walked = [r \in Runs |-> <<>>]
    /\ answer = [r \in Runs |-> NoAnswer]

Goto(r, there) == pc' = [pc EXCEPT ![r] = there]

-------------------------------------------------------------------------------
(* The steps of one run. *)

\* initGlobalArgs and the getopt loop: the last -r wins; -h only prints.
ParseOptions(r) ==
    /\ pc[r] = "idle"
    /\ \E d \in Devices \cup {NoDevice} : device' = [device EXCEPT ![r] = d]
    /\ Goto(r, "construct")
    /\ UNCHANGED <<dbVars, walked, answer>>

\* DB db;
ConstructDB(r) ==
    /\ pc[r] = "construct"
    /\ \/ Construct(r) /\ Goto(r, "check")
       \/ ConstructThrows(r) /\ Goto(r, "stopped")
    /\ UNCHANGED <<device, walked, answer>>

\* `if (globalArgs.deviceName)', as in the commented-out end of main().
HasIndex_Mutant(r) == device[r] = NoDevice
HasIndex(r) == IsCreated(r)

\* if(!db.isCreated())
CheckCreated(r) ==
    /\ pc[r] = "check"
    /\ Goto(r, IF HasIndex(r) THEN "prompt" ELSE "open")
    /\ UNCHANGED <<dbVars, device, walked, answer>>

\* db.open(); and, if there is a device, the call of read_inode, whose parameter
\* db is a copy of main's: the same handles, the same enquire pointer.
OpenDB(r) ==
    /\ pc[r] = "open"
    /\ Open(r)
    /\ Goto(r, IF device[r] # NoDevice THEN "walk" ELSE "close")
    /\ UNCHANGED <<device, walked, answer>>

\* The walk reaches one more file: db.add on its copy of the handles.
IndexFile(r) ==
    /\ pc[r] = "walk"
    /\ Len(walked[r]) + 1 \in WalkLengths
    /\ \E p \in Paths :
          /\ Add(r, [dev |-> device[r], path |-> p])
          /\ walked' = [walked EXCEPT ![r] = Append(@, p)]
    /\ UNCHANGED <<pc, device, answer>>

\* read_inode is over, whatever it has walked: its parameter db is destroyed.
ReturnFromReadInode(r) ==
    /\ pc[r] = "walk"
    /\ Destroy(r)
    /\ Goto(r, "close")
    /\ UNCHANGED <<device, walked, answer>>

\* db.close();
CloseDB(r) ==
    /\ pc[r] = "close"
    /\ Close(r)
    /\ Goto(r, "prompt")
    /\ UNCHANGED <<device, walked, answer>>

\* One turn of the query loop: a line that is not "exit".
Query(r) ==
    /\ pc[r] = "prompt"
    /\ \E q \in Queries :
          /\ Search(r, q)
          /\ answer' = [answer EXCEPT ![r] = [query |-> q, docs |-> Result(db'[r], q)]]
    /\ UNCHANGED <<pc, device, walked>>

\* End of input or "exit": ~DB, then the end of the process.
Exit(r) ==
    /\ pc[r] = "prompt"
    /\ ProcessEnds(r)
    /\ Goto(r, "stopped")
    /\ UNCHANGED <<device, walked, answer>>

\* A failed assertion, an exception nobody catches, a signal, a power cut.
Crash(r) ==
    /\ pc[r] \notin {"idle", "stopped"}
    /\ ProcessEnds(r)
    /\ Goto(r, "stopped")
    /\ UNCHANGED <<device, walked, answer>>

-------------------------------------------------------------------------------
(* The program, and the specification. *)

\* What the program does by itself, as opposed to what the user does to it.
ProgramStep(r) ==
    \/ ConstructDB(r)
    \/ CheckCreated(r)
    \/ OpenDB(r)
    \/ IndexFile(r)
    \/ ReturnFromReadInode(r)
    \/ CloseDB(r)

Step(r) ==
    \/ ParseOptions(r)
    \/ ProgramStep(r)
    \/ Query(r)
    \/ Exit(r)
    \/ Crash(r)

Next == \E r \in Runs : Step(r)

Spec == Init /\ [][Next]_vars

\* A started process keeps being scheduled; nobody has to start one, type a
\* query, leave the prompt or kill it.
FairSpec == Spec /\ \A r \in Runs : WF_vars(ProgramStep(r))

-------------------------------------------------------------------------------
(* Properties. *)

\* The run whose open() stamped the durable revision.
Owner == store.version.by

\* The paths in the database, in docid order.
StoredPaths == [i \in DOMAIN store.docs |-> store.docs[i].path]

\* main() takes the version for the sign that the database exists: the durable
\* version is there exactly when at least one document is (the stamp of open()
\* waits for the first commit of add(), the stamp of close() for one that never
\* comes), so a walk that dies before its first document leaves no trace.
CreatedIffNonEmpty ==
    store.version # NoVersion <=> store.docs # <<>>

\* Whatever runs overlap, fail or come later, the durable documents are the work
\* of one run: the one whose open() stamped them, from its device, in a database
\* that was empty. They are precisely the paths that run has walked, in their order and
\* no more often: no later or overlapping run indexes anything again.
OneSource ==
    store.version # NoVersion =>
        /\ store.version.at = "open"
        /\ device[Owner] # NoDevice
        /\ \A i \in DOMAIN store.docs : store.docs[i].dev = device[Owner]
        /\ StoredPaths = walked[Owner]

\* enquire is null or points to an object that is allocated and is the only one:
\* no copy of the DB passed by value ever deletes what another copy still holds,
\* and search() neither leaks nor deletes twice.
EnquireSound ==
    \A r \in Runs : heap[r] = {enquire[r]} \ {Null}

\* What a query prints is computed from everything that is durable, the documents
\* the same process has just added through its other handle included, and stays
\* right for as long as the run is at its prompt.
AnswersCurrent ==
    \A r \in Runs :
        pc[r] = "prompt" /\ answer[r] # NoAnswer
            => answer[r].docs = Result(store, answer[r].query)

\* Once a document is durable, the database changes only by documents that the
\* same run appends during its walk: neither close() nor any later run adds,
\* removes, restamps or completes anything, even if that walk was cut short.
OnlyTheOwnerAppends ==
    [][store.version # NoVersion =>
          \/ store' = store
          \/ /\ pc[Owner] = "walk"
             /\ store'.version = store.version
             /\ \E doc \in Document : store'.docs = Append(store.docs, doc)]_vars

\* The durable database implements WriteOnceIndex: it is sealed from the moment its
\* owner leaves the walk, by returning from read_inode or by dying in it.
Index == INSTANCE WriteOnceIndex WITH
    source <- IF store.docs = <<>> THEN NoDevice ELSE device[Owner],
    docs   <- StoredPaths,
    sealed <- store.docs # <<>> /\ pc[Owner] # "walk"

IndexIsWriteOnce == Index!Spec

\* A run that has started gets as far as its prompt, or dies on the way.
StartedRunsSettle ==
    \A r \in Runs : pc[r] = "construct" ~> pc[r] \in {"prompt", "stopped"}

\* displayUsage() says of the device of -r: "Otherwise the database will use the
\* last point file" (desktop_search.cpp:37). So a run that was given a device
\* searches that device.
UsesLastPointedFile ==
    \A r \in Runs :
        pc[r] = "prompt" /\ device[r] # NoDevice
            => \A i \in DOMAIN store.docs : store.docs[i].dev = device[r]
-------------------------------------------------------------------------------
(***************************************************************************)
(* The inductive invariant behind these properties: while a run is alive   *)
(* past its constructor it holds the lock, so what it has read of the      *)
(* store is still what the store says.                                     *)
(***************************************************************************)
Alive == {"check", "open", "walk", "close", "prompt"}

LockInv == \A r \in Runs : pc[r] \in Alive <=> lock = r

\* A run that has not walked has no paths to show.
FreshInv ==
    \A r \in Runs : pc[r] \in {"idle", "construct", "check", "open"} => walked[r] = <<>>

\* Both handles of a run still agree with the store when it decides to index.
HandleInv ==
    \A r \in Runs :
        /\ pc[r] = "check" => db[r] = store /\ wdb[r] = store
        /\ pc[r] = "open" => wdb[r] = store /\ store = EmptyRevision

\* During the walk the working copy is the store with r's stamp on it, and the
\* store is empty or r's own.
WalkInv ==
    \A r \in Runs : pc[r] = "walk" =>
        /\ device[r] # NoDevice
        /\ wdb[r] = [version |-> [by |-> r, at |-> "open"], docs |-> store.docs]
        /\ walked[r] = StoredPaths
        /\ store = EmptyRevision \/ store.version = wdb[r].version

\* No Enquire object exists before the first query: that is what makes it safe
\* to pass DB by value.
EnquireInv == \A r \in Runs : pc[r] # "prompt" => enquire[r] = Null

\* Nobody has asked a run anything before it reaches its prompt.
AnswerInv ==
    \A r \in Runs : pc[r] \notin {"prompt", "stopped"} => answer[r] = NoAnswer

IInv ==
    /\ TypeOK
    /\ LockInv
    /\ FreshInv
    /\ HandleInv
    /\ WalkInv
    /\ CreatedIffNonEmpty
    /\ OneSource
    /\ EnquireSound
    /\ EnquireInv
    /\ AnswerInv
===============================================================================
