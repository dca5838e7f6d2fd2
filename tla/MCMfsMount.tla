----------------------------- MODULE MCMfsMount -----------------------------
(* Instances of MfsMount for TLC: mounts and unmounts of one device.          *)
EXTENDS MfsMount, TLC

Symmetry == Permutations(Tasks)
=============================================================================
