----------------------------- MODULE GroupLock -----------------------------
(***************************************************************************)
(* A-B exclusion: any number of tasks of one side hold the lock together,  *)
(* never two tasks of different sides.                                     *)
(***************************************************************************)
CONSTANTS A, B   \* the tasks of the two sides

VARIABLES inA, inB   \* the tasks of each side that hold the lock

Init == inA = {} /\ inB = {}

EnterA(p) == p \notin inA /\ inB = {} /\ inA' = inA \cup {p} /\ inB' = inB
EnterB(p) == p \notin inB /\ inA = {} /\ inB' = inB \cup {p} /\ inA' = inA
LeaveA(p) == p \in inA /\ inA' = inA \ {p} /\ inB' = inB
LeaveB(p) == p \in inB /\ inB' = inB \ {p} /\ inA' = inA

Next ==
    \/ \E p \in A : EnterA(p) \/ LeaveA(p)
    \/ \E p \in B : EnterB(p) \/ LeaveB(p)

Spec == Init /\ [][Next]_<<inA, inB>>
=============================================================================
