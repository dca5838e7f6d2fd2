--------------------------- MODULE OrderedService ---------------------------
(***************************************************************************)
(* What a work queue with ordered functions promises: the functions of the *)
(* jobs finish in any order, the ordered functions run one at a time, each *)
(* once, in the order the jobs were submitted.                             *)
(***************************************************************************)
EXTENDS Integers

CONSTANT MaxJobs   \* bound: jobs submitted

VARIABLES
    submitted,   \* number of jobs submitted
    finished,    \* jobs whose function has finished
    current,     \* the job whose ordered function runs, 0 when none does
    served       \* the last job whose ordered function has returned

Init == submitted = 0 /\ finished = {} /\ current = 0 /\ served = 0

Submit ==
    /\ submitted < MaxJobs /\ submitted' = submitted + 1
    /\ UNCHANGED <<finished, current, served>>

Finish(j) ==
    /\ j \in (1 .. submitted) \ finished
    /\ finished' = finished \cup {j}
    /\ UNCHANGED <<submitted, current, served>>

Begin ==
    /\ current = 0 /\ served + 1 \in finished
    /\ current' = served + 1
    /\ UNCHANGED <<submitted, finished, served>>

End ==
    /\ current # 0
    /\ served' = current /\ current' = 0
    /\ UNCHANGED <<submitted, finished>>

Next == Submit \/ (\E j \in 1 .. MaxJobs : Finish(j)) \/ Begin \/ End

Spec == Init /\ [][Next]_<<submitted, finished, current, served>>
=============================================================================
