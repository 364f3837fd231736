--------------------------- MODULE MCDashSession ---------------------------
(* A video of two levels and three segments, small enough to model-check,  *)
(* whose segments take from one to three reads and writes of two bytes and *)
(* may be larger than what the connection holds.                           *)
EXTENDS DashSession

MCVideo == [q \in 0 .. 1 |-> [i \in 0 .. 2 |-> <<<<1, 2, 3>>, <<5, 4, 1>>>>[q + 1][i + 1]]]

(* The same video without its last segment.                                *)
MCShortVideo == [q \in 0 .. 1 |-> [i \in 0 .. 1 |-> MCVideo[q][i]]]
============================================================================
