---------------------------------- MODULE Walk --------------------------------
(***************************************************************************)
(* What main() may assume of read_inode while no read fails and nobody     *)
(* writes to the device: it lists paths, each once, always on the way to   *)
(* some complete walk of the device; it comes back only when it has        *)
(* completed one; and it may die at any moment.                            *)
(***************************************************************************)
VARIABLES complete,    \* the sets of paths a walk of the device can end with
          listed,      \* the paths listed so far
          outcome      \* "walking", "returned" or "died"

walkVars == <<complete, listed, outcome>>

Init ==
    /\ listed = {}
    /\ outcome = "walking"

List ==
    /\ outcome = "walking"
    /\ \E W \in complete : \E p \in W \ listed :
          /\ listed \subseteq W
          /\ listed' = listed \cup {p}
    /\ UNCHANGED <<complete, outcome>>

ComeBack ==
    /\ outcome = "walking"
    /\ listed \in complete
    /\ outcome' = "returned"
    /\ UNCHANGED <<complete, listed>>

Die ==
    /\ outcome = "walking"
    /\ outcome' = "died"
    /\ UNCHANGED <<complete, listed>>

Next == List \/ ComeBack \/ Die

Spec == Init /\ [][Next]_walkVars
===============================================================================
