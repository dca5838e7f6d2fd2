--------------------------- MODULE MCMfsNamespace ---------------------------
(* Instances of MfsNamespace for TLC: two jobs started from one shell, one    *)
(* path in each of two directories, created and unlinked again and again.     *)
EXTENDS MfsNamespace, TLC

CONSTANTS d1, d2, a

SharedCwd == [t \in Tasks |-> "home"]
TwoFiles == {<<d1, a>>, <<d2, a>>}
Symmetry == Permutations(Tasks)
=============================================================================
