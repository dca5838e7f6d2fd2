---------------------------- MODULE CommitOrder ----------------------------
(***************************************************************************)
(* What the transactions of one filesystem promise: changes are gathered   *)
(* in numbered epochs, one of which is open at a time; a closed epoch      *)
(* becomes stable all at once, only after every earlier epoch is stable,   *)
(* and never when it was lost; a dead filesystem opens no more epochs.     *)
(***************************************************************************)
EXTENDS Integers

VARIABLES
    open,    \* the epoch that accepts changes, 0 for none
    last,    \* the last epoch opened
    stable,  \* the epoch a crash would fall back to
    lost,    \* epochs whose changes were given up
    dead     \* an error was reported

vars == <<open, last, stable, lost, dead>>

Init == open = 0 /\ last = 0 /\ stable = 0 /\ lost = {} /\ dead = FALSE

Open ==
    /\ open = 0 /\ ~dead
    /\ open' = last + 1 /\ last' = last + 1
    /\ UNCHANGED <<stable, lost, dead>>

Close ==
    /\ open # 0
    /\ open' = 0
    /\ UNCHANGED <<last, stable, lost, dead>>

(* The write that makes the epoch stable may still report an error. *)
Persist ==
    /\ stable < last /\ stable + 1 # open /\ stable + 1 \notin lost
    /\ stable' = stable + 1
    /\ dead' \in {dead, TRUE}
    /\ UNCHANGED <<open, last, lost>>

Lose(i) ==
    /\ i \in 1..last
    /\ lost' = lost \cup {i}
    /\ UNCHANGED <<open, last, stable, dead>>

Die ==
    /\ dead' = TRUE
    /\ UNCHANGED <<open, last, stable, lost>>

Next == Open \/ Close \/ Persist \/ (\E i \in 1..last : Lose(i)) \/ Die

Spec == Init /\ [][Next]_vars
=============================================================================
