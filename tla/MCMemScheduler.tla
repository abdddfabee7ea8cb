--------------------------- MODULE MCMemScheduler ---------------------------
(***************************************************************************)
(* Two scheduled messages and one immediate one on two destinations.       *)
(***************************************************************************)
EXTENDS MemScheduler, TLC

CONSTANTS s1, s2, i1, q1, q2

MCDestOf == [m \in Messages |-> IF m = s2 THEN q2 ELSE q1]
=============================================================================
