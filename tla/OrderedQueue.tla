---------------------------- MODULE OrderedQueue ----------------------------
(***************************************************************************)
(* The work queues of btrfs_mfs_v4.3/async-thread.c.  A work item has a    *)
(* function that any worker runs and, if it is ordered, an ordered         *)
(* function and a free function: whichever helper finds the first item of  *)
(* the queue done runs its ordered function, so the helper of one item     *)
(* runs ordered functions of, and frees, others.  Items are memory:        *)
(* an item that was freed may be allocated again while the helper that     *)
(* executed it is still running.  The kernel's workqueue does not execute  *)
(* an item while a helper started for the same address still runs, so a    *)
(* helper is named by the item it was started for.  A step ends where      *)
(* list_lock is released, a bit is set or a function of the item returns.  *)
(* The adjustment of the number of workers to the load (thresh_*_hook) is  *)
(* left out: LimitActive stands for the workers there are.                 *)
(***************************************************************************)
EXTENDS Integers, Sequences, FiniteSets

CONSTANTS
    Items,         \* addresses of struct btrfs_work
    LimitActive,   \* helpers that may run at the same time
    MaxJobs        \* bound: calls of btrfs_queue_work for ordered items

ASSUME LimitAssumption == LimitActive \in Nat \ {0}
ASSUME ItemsAssumption == IsFiniteSet(Items)
ASSUME JobsAssumption == MaxJobs \in Nat

VARIABLES
    stage,      \* each item: "free", "listed", "queued" or "taken" by a helper
    ordered,    \* items that have an ordered function
    list,       \* ordered_list
    done,       \* items with WORK_DONE_BIT
    claimed,    \* items with WORK_ORDER_DONE_BIT
    helper,     \* the helper of each item: where it is, the item whose
                \* ordered function it runs, and free_self
    job,        \* number of the ordered call that queued each item last
    submitted,  \* number of ordered calls
    finished,   \* ordered calls whose function has returned
    served      \* the ordered call whose ordered function returned last

items == <<stage, ordered, list, done, claimed, job>>
progress == <<submitted, finished, served>>
vars == <<items, helper, progress>>

Idle(p) == [at |-> "idle", work |-> p, free_self |-> FALSE]

Init ==
    /\ stage = [w \in Items |-> "free"]
    /\ ordered = {} /\ done = {} /\ claimed = {}
    /\ list = <<>>
    /\ helper = [p \in Items |-> Idle(p)]
    /\ job = [w \in Items |-> 0]
    /\ submitted = 0 /\ finished = {} /\ served = 0

IsAt(p, s) == helper[p].at = s
MoveTo(p, s) == helper' = [helper EXCEPT ![p].at = s]
Stage(w, s) == stage' = [stage EXCEPT ![w] = s]
Running == {p \in Items : ~IsAt(p, "idle")}

-----------------------------------------------------------------------------
(* The caller allocates and initialises an item, puts it on the ordered    *)
(* list, and then queues it for execution.                                 *)
AddWork(w) ==
    /\ stage[w] = "free" /\ Stage(w, "listed")
    /\ ordered' = ordered \ {w}
    /\ done' = done \ {w} /\ claimed' = claimed \ {w}
    /\ UNCHANGED <<list, job, helper, progress>>

AddOrderedWork(w) ==
    /\ stage[w] = "free" /\ Stage(w, "listed")
    /\ submitted < MaxJobs /\ submitted' = submitted + 1
    /\ job' = [job EXCEPT ![w] = submitted + 1]
    /\ ordered' = ordered \cup {w}
    /\ done' = done \ {w} /\ claimed' = claimed \ {w}
    /\ list' = Append(list, w)
    /\ UNCHANGED <<helper, finished, served>>

QueueWork(w) ==
    /\ stage[w] = "listed" /\ Stage(w, "queued")
    /\ UNCHANGED <<ordered, list, done, claimed, job, helper, progress>>

-----------------------------------------------------------------------------
(* The worker pool gives the item to a worker. *)
Execute(w) ==
    /\ stage[w] = "queued" /\ Stage(w, "taken")
    /\ IsAt(w, "idle") /\ Cardinality(Running) < LimitActive
    /\ helper' = [helper EXCEPT ![w] = [Idle(w) EXCEPT !.at = "func"]]
    /\ UNCHANGED <<ordered, list, done, claimed, job, progress>>

(* An item without an ordered function is freed by its own function. *)
UnorderedFunc(p) ==
    /\ IsAt(p, "func") /\ p \notin ordered
    /\ Stage(p, "free")
    /\ MoveTo(p, "return")
    /\ UNCHANGED <<ordered, list, done, claimed, job, progress>>

(* The function returns and the item is marked done. *)
OrderedFunc(p) ==
    /\ IsAt(p, "func") /\ p \in ordered
    /\ done' = done \cup {p}
    /\ finished' = finished \cup {job[p]}
    /\ MoveTo(p, "scan")
    /\ UNCHANGED <<stage, ordered, list, claimed, job, submitted, served>>

(* run_ordered_work: the first item is for this helper if it is done and   *)
(* no other helper has claimed it.                                         *)
MutTakesClaimed(w) == w \in done
MutTakesUndone(w) == w \notin claimed
Takes(w) == w \in done /\ w \notin claimed

Claim(p) ==
    /\ IsAt(p, "scan") /\ list # <<>> /\ Takes(Head(list))
    /\ claimed' = claimed \cup {Head(list)}
    /\ helper' = [helper EXCEPT ![p] =
           [at |-> "ordered", work |-> Head(list), free_self |-> @.free_self]]
    /\ UNCHANGED <<stage, ordered, list, done, job, progress>>

Stop(p) ==
    /\ IsAt(p, "scan") /\ (list # <<>> => ~Takes(Head(list)))
    /\ MoveTo(p, IF helper[p].free_self THEN "free_self" ELSE "return")
    /\ UNCHANGED <<items, progress>>

(* Where a helper goes when it has taken an item off the list: its own     *)
(* item it keeps until the loop ends, any other it frees at once.          *)
MutFreesSelf(p, w) == "free"
MutStopsAtSelf(p, w) == IF w = p THEN "free_self" ELSE "free"
AfterDrop(p, w) == IF w = p THEN "scan" ELSE "free"

(* list_del *)
Without(s, w) ==
    IF \E i \in 1 .. Len(s) : s[i] = w
    THEN LET k == CHOOSE i \in 1 .. Len(s) : s[i] = w
         IN  [i \in 1 .. Len(s) - 1 |-> IF i < k THEN s[i] ELSE s[i + 1]]
    ELSE s

(* The ordered function returns and the item leaves the list. *)
Drop(p) ==
    /\ IsAt(p, "ordered")
    /\ LET w == helper[p].work
       IN  /\ list' = Without(list, w)
           /\ served' = job[w]
           /\ helper' = [helper EXCEPT ![p] =
                  [at |-> AfterDrop(p, w), work |-> w, free_self |-> @.free_self \/ w = p]]
    /\ UNCHANGED <<stage, ordered, done, claimed, job, submitted, finished>>

FreeOther(p) ==
    /\ IsAt(p, "free")
    /\ Stage(helper[p].work, "free")
    /\ MoveTo(p, "scan")
    /\ UNCHANGED <<ordered, list, done, claimed, job, progress>>

MutFreedSelf(p) == stage
FreedSelf(p) == [stage EXCEPT ![p] = "free"]

FreeSelf(p) ==
    /\ IsAt(p, "free_self")
    /\ stage' = FreedSelf(p)
    /\ MoveTo(p, "return")
    /\ UNCHANGED <<ordered, list, done, claimed, job, progress>>

(* The worker is free for another item. *)
Return(p) ==
    /\ IsAt(p, "return")
    /\ helper' = [helper EXCEPT ![p] = Idle(p)]
    /\ UNCHANGED <<items, progress>>

-----------------------------------------------------------------------------
HelperStep(p) ==
    \/ UnorderedFunc(p) \/ OrderedFunc(p)
    \/ Claim(p) \/ Stop(p) \/ Drop(p) \/ FreeOther(p) \/ FreeSelf(p)
    \/ Return(p)

Next ==
    \E w \in Items :
        AddWork(w) \/ AddOrderedWork(w) \/ QueueWork(w) \/ Execute(w) \/ HelperStep(w)

Spec == Init /\ [][Next]_vars

(* A caller that has begun to queue an item queues it, a worker of the     *)
(* pool takes queued items, and a running helper goes on.                  *)
FairSpec ==
    /\ Spec
    /\ \A w \in Items : WF_vars(QueueWork(w)) /\ SF_vars(Execute(w))
    /\ \A p \in Items : WF_vars(HelperStep(p))

-----------------------------------------------------------------------------
(* Every variable has its type and an item is listed at most once, also    *)
(* when it is allocated and queued again while its helper runs.            *)
QueueTypeOK ==
    /\ stage \in [Items -> {"free", "listed", "queued", "taken"}]
    /\ ordered \subseteq Items /\ done \subseteq Items /\ claimed \subseteq Items
    /\ list \in Seq(Items)
    /\ \A i, j \in 1 .. Len(list) : list[i] = list[j] => i = j
    /\ helper \in [Items -> [at : {"idle", "func", "scan", "ordered", "free",
                                   "free_self", "return"},
                             work : Items, free_self : BOOLEAN]]
    /\ job \in [Items -> 0 .. MaxJobs] /\ submitted \in 0 .. MaxJobs
    /\ finished \subseteq 1 .. submitted /\ served \in 0 .. submitted

(* The items a helper will still dereference. *)
Uses(p) ==
    (IF IsAt(p, "func") THEN {p} ELSE {})
        \cup (IF IsAt(p, "ordered") \/ IsAt(p, "free") THEN {helper[p].work} ELSE {})
        \cup (IF helper[p].free_self /\ ~IsAt(p, "return") THEN {p} ELSE {})

(* No helper is going to touch an item that was freed, also not when it    *)
(* was allocated and queued again meanwhile, no two helpers are going to   *)
(* free the same item, and no freed item is on the list (the order of      *)
(* list_del, free and free_self in run_ordered_work).                      *)
NoUseAfterFree ==
    /\ \A p \in Items : \A w \in Uses(p) : stage[w] = "taken"
    /\ \A p, q \in Items : p # q => Uses(p) \cap Uses(q) = {}
    /\ \A i \in 1 .. Len(list) : stage[list[i]] # "free"

(* When no helper runs and none is to be started, which is what a flush of *)
(* the queue with no concurrent caller waits for, every ordered function   *)
(* has run and every item is freed (btrfs_flush_workqueue): the helper     *)
(* that stops at an unfinished item leaves the rest to that item's helper. *)
FlushFinishesAll ==
    Running = {} /\ (\A w \in Items : stage[w] \in {"free", "taken"})
        => list = <<>> /\ \A w \in Items : stage[w] = "free"

(* Every item that was queued is freed, whatever is queued after it. *)
EveryItemFreed ==
    \A w \in Items : stage[w] # "free" ~> stage[w] = "free"

(* The job whose ordered function runs. *)
Current ==
    LET serving == {p \in Items : IsAt(p, "ordered")}
    IN  IF serving = {} THEN 0 ELSE job[helper[CHOOSE p \in serving : TRUE].work]

Service == INSTANCE OrderedService WITH current <- Current

(* The queue implements OrderedService for the ordered jobs: one ordered   *)
(* function at a time, in the order of btrfs_queue_work, each once and     *)
(* after its own function, whichever helper runs it.                       *)
ServesInOrder == Service!Spec
=============================================================================
