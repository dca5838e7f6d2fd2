----------------------------- MODULE MCDrewLock -----------------------------
(* Instances of DrewLock for TLC. *)
EXTENDS DrewLock
=============================================================================
