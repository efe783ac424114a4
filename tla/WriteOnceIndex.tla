---------------------------- MODULE WriteOnceIndex ----------------------------
(***************************************************************************)
(* What "./db" promises whoever searches it: an index that is written once.*)
(* Its first document decides which device it describes; it grows, path by *)
(* path, at its end; at some moment, complete or not, it is sealed, and    *)
(* never changes again.                                                    *)
(***************************************************************************)
EXTENDS Sequences

CONSTANTS Paths, Devices, NoDevice

VARIABLES source,      \* the device the index describes, or NoDevice: no index yet
          docs,        \* the paths it lists, in order
          sealed       \* nothing will be added any more

absVars == <<source, docs, sealed>>

Init ==
    /\ source = NoDevice
    /\ docs = <<>>
    /\ sealed = FALSE

Begin ==
    /\ source = NoDevice
    /\ source' \in Devices
    /\ \E p \in Paths : docs' = <<p>>
    /\ UNCHANGED sealed

Extend ==
    /\ source # NoDevice
    /\ ~sealed
    /\ \E p \in Paths : docs' = Append(docs, p)
    /\ UNCHANGED <<source, sealed>>

Seal ==
    /\ source # NoDevice
    /\ ~sealed
    /\ sealed' = TRUE
    /\ UNCHANGED <<source, docs>>

Next == Begin \/ Extend \/ Seal

Spec == Init /\ [][Next]_absVars
===============================================================================
