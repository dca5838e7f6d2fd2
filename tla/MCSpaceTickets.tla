--------------------------- MODULE MCSpaceTickets ---------------------------
(* Instances of SpaceTickets for TLC.                                         *)
EXTENDS SpaceTickets, TLC

Symmetry == Permutations(Tasks)
=============================================================================
