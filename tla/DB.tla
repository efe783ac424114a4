---------------------------------- MODULE DB ----------------------------------
(***************************************************************************)
(* The class DB (src/DB.cpp, src/DB.h) over the Xapian database "./db".    *)
(*                                                                         *)
(* `store' is what Xapian has made durable: the metadata entry "version"   *)
(* and the documents, in docid order.  Every process that constructs a DB  *)
(* has its own working copy (wdb), its own read snapshot (db) and its own  *)
(* Enquire object (enquire, allocated on that process' heap).              *)
(*                                                                         *)
(* Xapian itself is external and modelled as the code uses it:             *)
(*  - one WritableDatabase at a time: the constructor throws when another  *)
(*    process holds the write lock, and the lock dies with its process;    *)
(*  - set_metadata and add_document change the working copy, and commit()  *)
(*    makes the whole working copy durable at once;                        *)
(*  - the handles made with `*new' in DB::DB are never deleted, so the     *)
(*    flush Xapian does when the last handle goes never happens: what was  *)
(*    not committed is lost when the process ends;                         *)
(*  - a Database reads the revision it was opened on until reopen().       *)
(***************************************************************************)
EXTENDS Naturals, Sequences, FiniteSets

CONSTANTS Runs,        \* invocations of the program
          Paths,       \* what set_data stores: the path of a file
          Devices,     \* device files that can be given to -r
          Queries,     \* what a user can type at the prompt
          Matches,     \* the <<query, path>> pairs for which Xapian returns the path
          NoRun,       \* the write lock is free
          Null         \* the null pointer

VARIABLES store,       \* the durable revision of ./db
          lock,        \* the process that holds Xapian's write lock
          wdb,         \* wdb[r]: the working copy of r's WritableDatabase
          db,          \* db[r]: the revision r's Database reads
          enquire,     \* enquire[r]: DB::enquire
          heap         \* heap[r]: the Enquire objects of r that are allocated

dbVars == <<store, lock, wdb, db, enquire, heap>>

ASSUME DBAssumption == /\ NoRun \notin Runs
                       /\ Null \notin {1, 2}
                       /\ Matches \subseteq Queries \X Paths

\* ctime() of the moment, told apart by who wrote it and where: open() or close().
Stamp == [by : Runs, at : {"open", "close"}]
NoVersion == [by |-> NoRun, at |-> "never"]

\* A document: its path, and (for the properties) the device it was read from.
Document == [dev : Devices, path : Paths]

Revision == [version : Stamp \cup {NoVersion}, docs : Seq(Document)]
EmptyRevision == [version |-> NoVersion, docs |-> <<>>]

\* Addresses of Enquire objects; two are enough, new happens after delete.
EnquireIds == {1, 2}

DBTypeOK ==
    /\ store \in Revision
    /\ lock \in Runs \cup {NoRun}
    /\ wdb \in [Runs -> Revision]
    /\ db \in [Runs -> Revision]
    /\ enquire \in [Runs -> EnquireIds \cup {Null}]
    /\ heap \in [Runs -> SUBSET EnquireIds]

DBInit ==
    /\ store = EmptyRevision
    /\ lock = NoRun
    /\ wdb = [r \in Runs |-> EmptyRevision]
    /\ db = [r \in Runs |-> EmptyRevision]
    /\ enquire = [r \in Runs |-> Null]
    /\ heap = [r \in Runs |-> {}]

(***************************************************************************)
(* The operations.                                                         *)
(***************************************************************************)

(* Definitions named ..._Mutant are what a plausible mistake would make of the
   definition that follows them. Nothing here uses them. *)

\* Without Xapian's lock.
Unlocked_Mutant == TRUE
Unlocked == lock = NoRun

\* `enquire = NULL' forgotten: the pointer is whatever was in memory.
NoEnquire_MutantUninitialised(r) == enquire' = [enquire EXCEPT ![r] = 3] /\ UNCHANGED heap

\* An Enquire object from the start, as search() makes later.
NoEnquire_MutantEager(r) == enquire' = [enquire EXCEPT ![r] = 1] /\ heap' = [heap EXCEPT ![r] = {1}]

NoEnquire(r) == enquire' = [enquire EXCEPT ![r] = Null] /\ UNCHANGED heap

\* DB::DB: take the write lock, then open both handles on the durable revision.
Construct(r) ==
    /\ Unlocked
    /\ lock' = r
    /\ wdb' = [wdb EXCEPT ![r] = store]
    /\ db' = [db EXCEPT ![r] = store]
    /\ NoEnquire(r)
    /\ UNCHANGED store

\* DB_RETRY_LOCK: wait for the lock instead of throwing.
ConstructThrows_Mutant(r) == lock # NoRun /\ UNCHANGED dbVars /\ FALSE

\* DB::DB when another process is writing: Xapian throws, nothing catches it.
ConstructThrows(r) ==
    /\ lock # NoRun
    /\ UNCHANGED dbVars

\* The wrong key.
IsCreated_Mutant(r) == r \notin Runs

\* DB::isCreated asks the read snapshot, not the working copy.
IsCreated(r) == db[r].version # NoVersion

\* commit() of a working copy: it becomes durable as a whole.
Commit(r, rev) ==
    /\ wdb' = [wdb EXCEPT ![r] = rev]
    /\ store' = rev
    /\ UNCHANGED <<lock, db, enquire, heap>>

\* DB::open and DB::close write the version into the working copy only.
StampVersion(r, where) ==
    /\ wdb' = [wdb EXCEPT ![r] = [@ EXCEPT !.version = [by |-> r, at |-> where]]]
    /\ UNCHANGED <<store, lock, db, enquire, heap>>

\* With a commit: the version would be there before the first document.
Open_Mutant(r) == Commit(r, [wdb[r] EXCEPT !.version = [by |-> r, at |-> "open"]])
Open(r) == StampVersion(r, "open")

\* With a commit: the version of a finished index would change once more.
Close_Mutant(r) == Commit(r, [wdb[r] EXCEPT !.version = [by |-> r, at |-> "close"]])
Close(r) == StampVersion(r, "close")

\* DB::add: one more document, and everything pending becomes durable.
Add(r, doc) == Commit(r, [wdb[r] EXCEPT !.docs = Append(@, doc)])

\* The documents a query returns from revision rev (both result lists).
Result(rev, q) == {d \in {rev.docs[i] : i \in DOMAIN rev.docs} : <<q, d.path>> \in Matches}

\* Without reopen().
Reopen_Mutant(r) == UNCHANGED db
Reopen(r) == db' = [db EXCEPT ![r] = store]

\* DB::search, up to its answer: reopen the snapshot, replace the Enquire object.
Search(r, q) ==
    /\ Reopen(r)
    /\ \E new \in EnquireIds \ (heap[r] \ {enquire[r]}) :
          /\ heap' = [heap EXCEPT ![r] = (@ \ {enquire[r]}) \cup {new}]
          /\ enquire' = [enquire EXCEPT ![r] = new]
    /\ UNCHANGED <<store, lock, wdb>>

\* DB::~DB of a DB object that shares r's enquire pointer: `delete enquire'
\* does nothing to a null pointer and leaves the other copies' pointer as it is.
Destroy(r) ==
    /\ heap' = [heap EXCEPT ![r] = @ \ {enquire[r]}]
    /\ UNCHANGED <<store, lock, wdb, db, enquire>>

\* The end of r's process, whatever ended it: memory and lock are gone, and
\* with them everything that was not committed.
ProcessEnds(r) ==
    /\ lock' = IF lock = r THEN NoRun ELSE lock
    /\ wdb' = [wdb EXCEPT ![r] = EmptyRevision]
    /\ db' = [db EXCEPT ![r] = EmptyRevision]
    /\ enquire' = [enquire EXCEPT ![r] = Null]
    /\ heap' = [heap EXCEPT ![r] = {}]
    /\ UNCHANGED store
===============================================================================
