----------------------------- MODULE MCSnapshot -----------------------------
(* The instance of Snapshot for TLC. *)
EXTENDS Snapshot
=============================================================================
