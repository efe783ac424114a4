---------------------------- MODULE MCDesktopSearch ---------------------------
(* DesktopSearch with small constants for TLC. *)
EXTENDS DesktopSearch

CONSTANTS r1, r2, r3, d1, d2, a, b, qa, qall

MCMatches == {<<qa, a>>, <<qall, a>>, <<qall, b>>}
MCWalkLengths == 0..2
===============================================================================
