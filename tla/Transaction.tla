---------------------------- MODULE Transaction ----------------------------
(***************************************************************************)
(* The life of a btrfs transaction (btrfs_mfs_v4.3/transaction.c): tasks   *)
(* join the running transaction with a handle, one of them commits it, the *)
(* others wait for that commit, an error aborts it, and the tree log       *)
(* writes the super block in between.                                      *)
(*                                                                         *)
(* A step is one critical section of fs_info->trans_lock, or one access    *)
(* outside it that another task can observe.  fs_info->trans_list is the   *)
(* set "listed": transactions are appended in transid order under the      *)
(* lock, so the set ordered by transid is the list.                        *)
(***************************************************************************)
EXTENDS Integers, FiniteSets

CONSTANTS
    Tasks,      \* tasks that start, end and commit transactions
    KThreads,   \* {} or the singleton of the transaction kthread
    MaxTrans,   \* bound: transactions ever created
    Ops,        \* the operations the tasks call
    Logging,    \* whether fsync goes through the tree log
    Faults,     \* whether writes can fail and tasks can abort
    None        \* no task

ASSUME ConstantsAssumption ==
    /\ MaxTrans \in Nat \ {0}
    /\ Tasks \cap KThreads = {}
    /\ None \notin Tasks \cup KThreads
    /\ Ops \subseteq {"START", "ATTACH", "BARRIER", "JOIN", "JOIN_NOSTART",
                      "WAIT"}
    /\ Logging \in BOOLEAN
    /\ Faults \in BOOLEAN

ASSUME FiniteProcs == IsFiniteSet(Tasks) /\ IsFiniteSet(KThreads)

Procs    == Tasks \cup KThreads
TransIds == 1..MaxTrans

(***************************************************************************)
(* A definition whose name starts with Mut is a broken form of the         *)
(* definition that follows it; each property is shown to reject one.       *)
(***************************************************************************)
(* enum btrfs_trans_state *)
RUNNING         == 0
COMMIT_PREP     == 1
COMMIT_START    == 2
COMMIT_DOING    == 3
UNBLOCKED       == 4
MutSuperCommitted == 7
SUPER_COMMITTED == 5
COMPLETED       == 6

VARIABLES
    running,        \* fs_info->running_transaction, 0 for NULL
    generation,     \* fs_info->generation
    listed,         \* fs_info->trans_list
    tx,             \* the struct btrfs_transaction of each transid
    fsError,        \* BTRFS_FS_ERROR(fs_info)
    lastCommitted,  \* fs_info->last_trans_committed
    superForCommit, \* fs_info->super_for_commit: its generation, and the
                    \* transaction whose tree log it points to (0: no log)
    disk,           \* the super block on the device
    written,        \* transactions whose tree blocks are all on the device
    treeLogMutex,   \* owner of fs_info->tree_log_mutex
    ordered,        \* transaction the pending ordered extent was charged to
    proc            \* what each task is doing

list    == <<running, generation, listed>>
durable == <<lastCommitted, superForCommit, disk, written, treeLogMutex,
             ordered>>
shared  == <<list, tx, fsError, durable>>
vars    == <<shared, proc>>

(***************************************************************************)
(* A task: its control point, the type of its handle and whether the       *)
(* handle counts as an external writer, trans->in_fsync, what follows when *)
(* the call returns, the error the call collected, and its pointers:       *)
(* tx - the handle's transaction, ref, wtx and pin - transactions it took  *)
(* a reference on, doom - the transaction it is tearing down.  goal is the *)
(* transid the call is about.                                              *)
(***************************************************************************)
Fresh(pc, type, goal) ==
    [pc |-> pc, type |-> type, ext |-> FALSE, fsync |-> FALSE,
     then |-> "idle", cont |-> "none", err |-> FALSE,
     tx |-> 0, ref |-> 0, wtx |-> 0, pin |-> 0, doom |-> 0, goal |-> goal]

IdleProc == Fresh("idle", "none", 0)

(* A struct btrfs_transaction with n writers, e of them external. *)
Tx(n, e, refs) == [state |-> RUNNING, writers |-> n, ext |-> e, use |-> refs,
                   aborted |-> FALSE, pending |-> 0]

Init ==
    /\ running = 0 /\ generation = 0 /\ listed = {}
    /\ tx = [i \in TransIds |-> Tx(0, 0, 0)]
    /\ fsError = FALSE /\ lastCommitted = 0
    /\ superForCommit = [gen |-> 0, log |-> 0]
    /\ disk = [gen |-> 0, log |-> 0]
    /\ written = {} /\ treeLogMutex = None /\ ordered = 0
    /\ proc = [p \in Procs |-> IdleProc]

At(p, pc)   == proc[p].pc = pc
Goto(p, pc) == proc' = [proc EXCEPT ![p].pc = pc]
Oldest(i)   == i \in listed /\ \A j \in listed : i <= j
One(b)      == IF b THEN 1 ELSE 0

(* refcount_inc(&transaction->use_count) and btrfs_put_transaction() *)
MutPin(i) == tx
Pin(i) == [tx EXCEPT ![i].use = @ + 1]
Put(i) == [tx EXCEPT ![i].use = @ - 1]

EXTWRITERS == {"START", "ATTACH"}
NoStart    == {"ATTACH", "JOIN_NOSTART"}

MutBlockedTypes(s) == IF s <= COMMIT_PREP THEN {} ELSE {"START", "ATTACH"}

(* The types of the model.  TRANS_JOIN_NOLOCK, which this table admits up   *)
(* to COMMIT_DOING, is not one of them: free space endio workers join with  *)
(* it (inode.c:3073, 3092) while the commit writes the free space caches,   *)
(* and may still hold a handle when it goes on (block-group.c:3497).        *)
BlockedTypes(s) ==
    CASE s <= COMMIT_PREP  -> {}
      [] s = COMMIT_START  -> {"START", "ATTACH"}
      [] OTHER             -> {"START", "ATTACH", "JOIN", "JOIN_NOSTART"}

IsBlocked(i) ==
    /\ tx[i].state \in COMMIT_START..(UNBLOCKED - 1)
    /\ ~tx[i].aborted

(* extwriter_counter_dec() *)
MutDropExtOfAny(p) == 1
MutDropExtForgotten(p) == 0
DropExt(p) == One(proc[p].type \in EXTWRITERS)

(* The wait of a committer on writer_wait: only its own handle is left. *)
Alone(p) == tx[proc[p].tx].writers = 1

(* The call of task p is over; start_transaction goes round "again" when   *)
(* it had to commit the transaction it joined.                             *)
Returned(p) ==
    IF proc[p].then = "again"
    THEN Fresh("waitcur", proc[p].type, 0)
    ELSE IdleProc
Return(p) == proc' = [proc EXCEPT ![p] = Returned(p)]

-----------------------------------------------------------------------------
(***************************************************************************)
(* start_transaction() and join_transaction()                              *)
(***************************************************************************)
StartRequest(p, op) ==
    /\ At(p, "idle") /\ p \in Tasks /\ op \in Ops \ {"WAIT"}
    /\ proc' = [proc EXCEPT ![p].pc = "start",
                  ![p].type = IF op = "BARRIER" THEN "ATTACH" ELSE op,
                  ![p].cont = IF op = "BARRIER" THEN "barrier" ELSE "none",
                  ![p].goal = IF op = "BARRIER" THEN generation ELSE 0]
    /\ UNCHANGED shared

StartEntry(p) ==
    /\ At(p, "start")
    /\ IF fsError THEN Return(p)
       ELSE Goto(p, IF proc[p].type = "START" THEN "waitcur" ELSE "join")
    /\ UNCHANGED shared

AfterWaitCurrent(p) == IF proc[p].type \in NoStart THEN "enoent" ELSE "join"

WaitCurrentTrans(p) ==
    /\ At(p, "waitcur")
    /\ IF running # 0 /\ IsBlocked(running)
       THEN /\ tx' = Pin(running)
            /\ proc' = [proc EXCEPT ![p].pc = "blocked", ![p].ref = running]
       ELSE Goto(p, AfterWaitCurrent(p)) /\ UNCHANGED tx
    /\ UNCHANGED <<list, fsError, durable>>

CurrentTransUnblocked(p) ==
    LET i == proc[p].ref IN
    /\ At(p, "blocked")
    /\ tx[i].state >= UNBLOCKED \/ tx[i].aborted
    /\ tx' = Put(i)
    /\ proc' = [proc EXCEPT ![p].pc = AfterWaitCurrent(p), ![p].ref = 0]
    /\ UNCHANGED <<list, fsError, durable>>

(* Only the kthread compares its handle with the transid it meant. *)
MutKeptGoal(p) == 0
KeptGoal(p) == IF p \in KThreads THEN proc[p].goal ELSE 0

(* A handle on the running transaction, taken under trans_lock. *)
JoinRunning(p) ==
    LET t == proc[p].type IN
    /\ running # 0
    /\ IF tx[running].aborted
       THEN Return(p) /\ UNCHANGED tx
       ELSE IF t \in BlockedTypes(tx[running].state)
       THEN Goto(p, "waitcur") /\ UNCHANGED tx
       ELSE /\ tx' = [tx EXCEPT ![running].use = @ + 1,
                                ![running].writers = @ + 1,
                                ![running].ext = @ + One(t \in EXTWRITERS)]
            /\ proc' = [proc EXCEPT ![p].pc = "joined", ![p].tx = running,
                                    ![p].ext = t \in EXTWRITERS,
                                    ![p].cont = "none", ![p].goal = KeptGoal(p)]

JoinTransaction(p) ==
    /\ At(p, "join")
    /\ IF fsError THEN Return(p) /\ UNCHANGED tx
       ELSE \/ JoinRunning(p)
            \/ /\ running = 0 /\ UNCHANGED tx
               /\ Goto(p, IF proc[p].type \in NoStart THEN "enoent"
                                                      ELSE "alloc")
    /\ UNCHANGED <<list, fsError, durable>>

(* The lock was dropped to allocate; everything is checked again.  Past    *)
(* the bound MaxTrans the allocation fails (-ENOMEM).                      *)
NewTransaction(p) ==
    LET new == generation + 1 IN
    /\ At(p, "alloc")
    /\ \/ /\ ~fsError /\ JoinRunning(p)
          /\ UNCHANGED <<running, generation, listed>>
       \/ /\ fsError \/ (running = 0 /\ generation = MaxTrans)
          /\ Return(p)
          /\ UNCHANGED <<list, tx>>
       \/ /\ ~fsError /\ running = 0 /\ generation < MaxTrans
          /\ generation' = new
          /\ running' = new
          /\ listed' = listed \cup {new}
          /\ tx' = [tx EXCEPT ![new] =
                          Tx(1, One(proc[p].type \in EXTWRITERS), 2)]
          /\ proc' = [proc EXCEPT ![p].pc = "joined", ![p].tx = new,
                                  ![p].ext = proc[p].type \in EXTWRITERS,
                                  ![p].cont = "none", ![p].goal = KeptGoal(p)]
    /\ UNCHANGED <<fsError, durable>>

(* h->transaction is read from running_transaction without the lock; a     *)
(* TRANS_START that caught a transaction whose commit began helps it end.  *)
Joined(p) ==
    /\ At(p, "joined")
    /\ LET late == /\ tx[running].state >= COMMIT_START
                   /\ proc[p].type = "START"
       IN proc' = [proc EXCEPT ![p].tx = running,
                     ![p].pc   = IF late THEN "commit" ELSE "held",
                     ![p].then = IF late THEN "again" ELSE @]
    /\ UNCHANGED shared

(* btrfs_attach_transaction_barrier() waits when there was nothing to join *)
NothingToJoin(p) ==
    /\ At(p, "enoent")
    /\ IF proc[p].cont = "barrier" THEN Goto(p, "find") ELSE Return(p)
    /\ UNCHANGED shared

-----------------------------------------------------------------------------
(***************************************************************************)
(* What a task does with its handle                                        *)
(***************************************************************************)
EndRequest(p) ==
    /\ At(p, "held") /\ p \in Tasks
    /\ proc' = [proc EXCEPT ![p].pc = "endw", ![p].cont = "ret"]
    /\ UNCHANGED shared

CommitRequest(p, inFsync) ==
    /\ At(p, "held") /\ p \in Tasks
    /\ proc[p].type \in {"START", "ATTACH", "JOIN"}
    /\ inFsync => proc[p].type = "START"
    /\ proc' = [proc EXCEPT ![p].pc = "commit", ![p].fsync = inFsync]
    /\ UNCHANGED shared

(* btrfs_commit_transaction_async(): pin the transaction, end the handle,  *)
(* wait until a commit (by the kthread) has started.                       *)
CommitAsyncRequest(p) ==
    /\ At(p, "held") /\ p \in Tasks /\ KThreads # {}
    /\ proc[p].type = "ATTACH"
    /\ tx' = Pin(proc[p].tx)
    /\ proc' = [proc EXCEPT ![p].pc = "endw", ![p].cont = "async",
                            ![p].ref = proc[p].tx]
    /\ UNCHANGED <<list, fsError, durable>>

AsyncCommitStarted(p) ==
    LET i == proc[p].ref IN
    /\ At(p, "asyncwait")
    /\ tx[i].state >= COMMIT_START \/ tx[i].aborted
    /\ tx' = Put(i)
    /\ proc' = [proc EXCEPT ![p] = IdleProc]
    /\ UNCHANGED <<list, fsError, durable>>

(* log_all_new_extents: the commit must wait for a logged ordered extent. *)
ChargeOrdered(p) ==
    /\ At(p, "held") /\ Logging /\ proc[p].type = "START" /\ ordered = 0
    /\ ordered' = proc[p].tx
    /\ tx' = [tx EXCEPT ![proc[p].tx].pending = @ + 1]
    /\ UNCHANGED <<list, fsError, lastCommitted,
                   superForCommit, disk, written, treeLogMutex, proc>>

(* btrfs_remove_ordered_extent: whichever transaction is running is told. *)
OrderedComplete ==
    /\ ordered # 0
    /\ ordered' = 0
    /\ tx' = IF running = 0 THEN tx
             ELSE [tx EXCEPT ![running].pending = @ - 1]
    /\ UNCHANGED <<list, fsError, lastCommitted,
                   superForCommit, disk, written, treeLogMutex, proc>>

(* __btrfs_abort_transaction marks the transaction, then the filesystem. *)
AbortRequest(p) ==
    /\ At(p, "held") /\ p \in Tasks /\ Faults
    /\ proc' = [proc EXCEPT ![p].pc = "abort", ![p].cont = "held"]
    /\ UNCHANGED shared

AbortTransaction(p) ==
    /\ At(p, "abort")
    /\ tx' = [tx EXCEPT ![proc[p].tx].aborted = TRUE]
    /\ Goto(p, "fserror")
    /\ UNCHANGED <<list, fsError, durable>>

HandleFsError(p) ==
    /\ At(p, "fserror")
    /\ fsError' = TRUE
    /\ treeLogMutex' = IF treeLogMutex = p THEN None ELSE treeLogMutex
    /\ Goto(p, CASE proc[p].cont = "clean" -> "cleanlock"
                 [] proc[p].cont = "ret"   -> "endw"
                 [] OTHER                  -> "held")
    /\ UNCHANGED <<list, tx, lastCommitted,
                   superForCommit, disk, written, ordered>>

-----------------------------------------------------------------------------
(***************************************************************************)
(* btrfs_sync_log(): the super block is written for a tree log             *)
(***************************************************************************)
SyncLogRequest(p) ==
    /\ At(p, "held") /\ p \in Tasks /\ Logging /\ proc[p].type = "START"
    /\ Goto(p, "loglock")
    /\ UNCHANGED shared

(* An error of the previous commit may have left its generation in         *)
(* super_for_commit with blocks that were never written.                   *)
MutLogMayCommit == TRUE
LogMayCommit == ~fsError

SyncLogLock(p) ==
    /\ At(p, "loglock") /\ treeLogMutex = None
    /\ treeLogMutex' = p
    /\ IF LogMayCommit
       THEN /\ superForCommit' = [superForCommit EXCEPT !.log = proc[p].tx]
            /\ Goto(p, "logsuper")
       ELSE /\ proc' = [proc EXCEPT ![p].pc = "abort", ![p].cont = "held"]
            /\ UNCHANGED superForCommit
    /\ UNCHANGED <<list, tx, fsError, lastCommitted,
                   disk, written, ordered>>

SyncLogSuper(p) ==
    /\ At(p, "logsuper")
    /\ treeLogMutex' = None
    /\ \/ disk' = superForCommit /\ Goto(p, "held") /\ UNCHANGED fsError
       \/ /\ Faults /\ fsError' = TRUE
          /\ disk' \in {disk, superForCommit}
          /\ proc' = [proc EXCEPT ![p].pc = "abort", ![p].cont = "held"]
    /\ UNCHANGED <<list, tx, lastCommitted,
                   superForCommit, written, ordered>>

-----------------------------------------------------------------------------
(***************************************************************************)
(* __btrfs_end_transaction()                                               *)
(***************************************************************************)
EndTransaction(p) ==
    LET i == proc[p].tx IN
    /\ At(p, "endw")
    /\ tx' = [tx EXCEPT ![i].writers = @ - 1,
                        ![i].ext = @ - DropExt(p)]
    /\ proc' = [proc EXCEPT ![p].pc = "endput", ![p].ext = FALSE]
    /\ UNCHANGED <<list, fsError, durable>>

(* The error that ending the handle reports: BTRFS_FS_ERROR at that time. *)
MutEndError == FALSE
EndError == fsError

EndPut(p) ==
    /\ At(p, "endput")
    /\ tx' = Put(proc[p].tx)
    /\ CASE proc[p].cont = "waiter" ->
              proc' = [proc EXCEPT ![p].pc = "wait", ![p].tx = 0,
                                   ![p].err = EndError]
         [] proc[p].cont = "async" ->
              proc' = [proc EXCEPT ![p].pc = "asyncwait", ![p].tx = 0]
         [] OTHER -> Return(p)
    /\ UNCHANGED <<list, fsError, durable>>

-----------------------------------------------------------------------------
(***************************************************************************)
(* btrfs_wait_for_commit() and wait_for_commit()                           *)
(***************************************************************************)
(* BTRFS_IOC_WAIT_SYNC on a transid, or on the newest commit (0). *)
WaitRequest(p, transid) ==
    /\ At(p, "idle") /\ p \in Tasks /\ "WAIT" \in Ops
    /\ proc' = [proc EXCEPT ![p].pc = "find", ![p].goal = transid,
                            ![p].cont = IF transid = 0 THEN "newest"
                                                       ELSE "transid"]
    /\ UNCHANGED shared

ByTransid(p) == proc[p].cont \in {"transid", "scan"}

MutStarted == {j \in listed : tx[j].state > UNBLOCKED}
Started == {j \in listed : tx[j].state >= COMMIT_START}

(* The commit a btrfs_wait_for_commit() caller waits for, if any: the      *)
(* transid it names, or the newest that is committing.                     *)
CommitToWaitFor(p) ==
    IF ByTransid(p) THEN {proc[p].goal} \cap listed
    ELSE {i \in Started : /\ \A j \in Started : j <= i
                          /\ tx[i].state # COMPLETED}

(* What the caller of btrfs_wait_for_commit() does next; ok: it returned 0 *)
WaitOver(p, ok) ==
    proc' = [proc EXCEPT ![p] =
        IF proc[p].cont = "barrier" /\ ok
        THEN Fresh("barrierdone", "none", proc[p].goal)
        ELSE Fresh(IF proc[p].cont = "scan" THEN "scan" ELSE "idle",
                   "none", 0)]

FindCommit(p) ==
    LET k == proc[p].pin
        unneeded == ByTransid(p) /\ proc[p].goal <= lastCommitted
    IN
    /\ At(p, "find")
    /\ \/ /\ unneeded \/ CommitToWaitFor(p) = {}
          /\ WaitOver(p, TRUE)
          /\ tx' = IF k = 0 THEN tx ELSE Put(k)
       \/ /\ ~unneeded
          /\ \E i \in CommitToWaitFor(p) :
                /\ tx' = Pin(i)
                /\ proc' = [proc EXCEPT ![p].pc = "wait", ![p].ref = i]
    /\ UNCHANGED <<list, fsError, durable>>

WantState(p) == IF proc[p].fsync THEN SUPER_COMMITTED ELSE COMPLETED

(* wait_event() in wait_for_commit(), on the commit itself and then on the *)
(* earlier ones, which it pins one at a time.                              *)
CommitReached(p) ==
    LET w == proc[p].wtx
        i == IF w = 0 THEN proc[p].ref ELSE w
    IN
    /\ At(p, "wait")
    /\ tx[i].state >= WantState(p)
    /\ tx' = IF w = 0 THEN tx ELSE Put(w)
    /\ proc' = [proc EXCEPT ![p].wtx = 0,
          ![p].pc = IF WantState(p) < COMPLETED THEN "waited" ELSE "waitnext"]
    /\ UNCHANGED <<list, fsError, durable>>

WaitForEarlier(p) ==
    /\ At(p, "waitnext")
    /\ \/ \E i \in listed :
             /\ Oldest(i) /\ i <= proc[p].ref
             /\ tx' = Pin(i)
             /\ proc' = [proc EXCEPT ![p].pc = "wait", ![p].wtx = i]
       \/ /\ \A i \in listed : i > proc[p].ref
          /\ Goto(p, "waited") /\ UNCHANGED tx
    /\ UNCHANGED <<list, fsError, durable>>

Waited(p) ==
    LET i == proc[p].ref
        k == proc[p].pin
    IN
    /\ At(p, "waited")
    /\ tx' = IF k = 0 THEN Put(i)
             ELSE IF k = i THEN [tx EXCEPT ![i].use = @ - 2]
             ELSE [Put(i) EXCEPT ![k].use = @ - 1]
    /\ CASE proc[p].cont = "prev" ->
              proc' = [proc EXCEPT ![p].ref = 0,
                ![p].pc   = IF tx[i].aborted THEN "abort" ELSE "prevdone",
                ![p].cont = IF tx[i].aborted THEN "clean" ELSE "none"]
         [] proc[p].cont = "waiter" ->
              IF tx[i].aborted \/ proc[p].err
              THEN Return(p)
              ELSE proc' = [proc EXCEPT ![p].pc = "committed",
                              ![p].ref = 0, ![p].goal = i,
                              ![p].cont = "none"]
         [] OTHER -> WaitOver(p, ~tx[i].aborted)
    /\ UNCHANGED <<list, fsError, durable>>

(* The caller sees btrfs_commit_transaction() return 0, or the barrier     *)
(* return -ENOENT.                                                         *)
Acknowledge(p) ==
    /\ proc[p].pc \in {"committed", "barrierdone"}
    /\ Return(p)
    /\ UNCHANGED shared

-----------------------------------------------------------------------------
(***************************************************************************)
(* btrfs_commit_transaction()                                              *)
(***************************************************************************)
(* Stop early if aborted; the first pass over the delayed refs may fail,   *)
(* which aborts the transaction.                                           *)
CommitEntry(p) ==
    /\ At(p, "commit")
    /\ IF tx[proc[p].tx].aborted
       THEN proc' = [proc EXCEPT ![p].pc = "endw", ![p].cont = "ret"]
       ELSE \/ Goto(p, "prep")
            \/ /\ Faults
               /\ proc' = [proc EXCEPT ![p].pc = "abort", ![p].cont = "ret"]
    /\ UNCHANGED shared

(* A failing phase of the commit enters cleanup_transaction(). *)
Fail(p) == proc' = [proc EXCEPT ![p].pc = "abort", ![p].cont = "clean"]
GotoOrFail(p, pc) == Goto(p, pc) \/ (Faults /\ Fail(p))

CommitHasStarted(i) == tx[i].state >= COMMIT_PREP

(* One caller wins the race from RUNNING to COMMIT_PREP, the others wait   *)
(* for its commit.  The winner first waits for the previous transaction.   *)
CommitPrep(p) ==
    LET i     == proc[p].tx
        late  == CommitHasStarted(i)
        older == {j \in listed : j < i}
        prev(k) == k \in older /\ \A j \in older : j <= k
    IN
    /\ At(p, "prep")
    /\ \/ /\ late
          /\ tx' = Pin(i)
          /\ proc' = [proc EXCEPT ![p].pc = "endw", ![p].cont = "waiter",
                                  ![p].ref = i]
       \/ \E k \in older :
             /\ ~late /\ prev(k) /\ tx[k].state < WantState(p)
             /\ tx' = [Pin(k) EXCEPT ![i].state = COMMIT_PREP]
             /\ proc' = [proc EXCEPT ![p].pc = "wait", ![p].cont = "prev",
                                     ![p].ref = k]
       \/ /\ ~late /\ older = {} /\ fsError
          /\ tx' = [tx EXCEPT ![i].state = COMMIT_PREP]
          /\ Fail(p)
       \/ /\ ~late
          /\ IF older = {} THEN ~fsError
             ELSE \A k \in older : prev(k) => tx[k].state >= WantState(p)
          /\ tx' = [tx EXCEPT ![i].state = COMMIT_START]
          /\ Goto(p, "dropext")
    /\ UNCHANGED <<list, fsError, durable>>

PrevCommitted(p) ==
    /\ At(p, "prevdone")
    /\ tx' = [tx EXCEPT ![proc[p].tx].state = COMMIT_START]
    /\ Goto(p, "dropext")
    /\ UNCHANGED <<list, fsError, durable>>

DropExtwriter(p) ==
    /\ At(p, "dropext")
    /\ tx' = [tx EXCEPT ![proc[p].tx].ext = @ - DropExt(p)]
    /\ \/ proc' = [proc EXCEPT ![p].pc = "extwait", ![p].ext = FALSE]
       \/ /\ Faults
          /\ proc' = [proc EXCEPT ![p].pc = "abort", ![p].cont = "clean",
                                  ![p].ext = FALSE]
    /\ UNCHANGED <<list, fsError, durable>>

NoExtwriters(p) ==
    /\ At(p, "extwait") /\ tx[proc[p].tx].ext = 0
    /\ GotoOrFail(p, "ordwait")
    /\ UNCHANGED shared

MutOrderedDone(i) == TRUE
OrderedDone(i) == tx[i].pending = 0

NoPendingOrdered(p) ==
    /\ At(p, "ordwait") /\ OrderedDone(proc[p].tx)
    /\ tx' = [tx EXCEPT ![proc[p].tx].state = COMMIT_DOING]
    /\ Goto(p, "wrwait")
    /\ UNCHANGED <<list, fsError, durable>>

NoOtherWriters(p) ==
    /\ At(p, "wrwait") /\ Alone(p)
    /\ IF tx[proc[p].tx].aborted THEN Fail(p) ELSE Goto(p, "doing")
    /\ UNCHANGED shared

(* memcpy(super_for_commit, super_copy), whose log root was just cleared *)
MutSuperOf(i) == [gen |-> i, log |-> superForCommit.log]
SuperOf(i) == [gen |-> i, log |-> 0]

(* Trees are updated and switched; super_for_commit becomes this           *)
(* transaction's, without a log.                                           *)
CommitDoing(p) ==
    /\ At(p, "doing")
    /\ \/ /\ ~tx[proc[p].tx].aborted
          /\ superForCommit' = SuperOf(proc[p].tx)
          /\ Goto(p, "unblock")
       \/ /\ Faults \/ tx[proc[p].tx].aborted
          /\ Fail(p) /\ UNCHANGED superForCommit
    /\ UNCHANGED <<list, tx, fsError, lastCommitted,
                   disk, written, treeLogMutex, ordered>>

CommitUnblock(p) ==
    /\ At(p, "unblock") /\ treeLogMutex = None
    /\ treeLogMutex' = p
    /\ tx' = [tx EXCEPT ![proc[p].tx].state = UNBLOCKED]
    /\ running' = 0
    /\ Goto(p, "write")
    /\ UNCHANGED <<generation, listed, fsError, lastCommitted,
                   superForCommit, disk, written, ordered>>

(* btree_write_cache_pages() reports an error, whatever became of the      *)
(* blocks it submitted, once the filesystem has one: "If something went    *)
(* wrong, don't allow any metadata write bio to be submitted".             *)
MutMetadataWritable == TRUE
MetadataWritable == ~fsError

(* btrfs_write_and_wait_transaction *)
WriteBlocks(p) ==
    /\ At(p, "write")
    /\ \/ /\ MetadataWritable
          /\ written' = written \cup {proc[p].tx}
          /\ Goto(p, "super")
          /\ UNCHANGED <<fsError, treeLogMutex>>
       \/ /\ Faults
          /\ fsError' = TRUE /\ treeLogMutex' = None
          /\ Fail(p) /\ UNCHANGED written
    /\ UNCHANGED <<list, tx, lastCommitted,
                   superForCommit, disk, ordered>>

(* write_all_supers; a failing write may still have reached the device. *)
WriteSuper(p) ==
    /\ At(p, "super")
    /\ treeLogMutex' = None
    /\ \/ /\ disk' = superForCommit
          /\ tx' = [tx EXCEPT ![proc[p].tx].state = SUPER_COMMITTED]
          /\ Goto(p, "finish")
          /\ UNCHANGED fsError
       \/ /\ Faults /\ fsError' = TRUE
          /\ disk' \in {disk, superForCommit}
          /\ Fail(p) /\ UNCHANGED tx
    /\ UNCHANGED <<list, lastCommitted,
                   superForCommit, written, ordered>>

CommitFinish(p) ==
    /\ At(p, "finish")
    /\ lastCommitted' = proc[p].tx
    /\ tx' = [tx EXCEPT ![proc[p].tx].state = COMPLETED]
    /\ Goto(p, "unlist")
    /\ UNCHANGED <<list, fsError,
                   superForCommit, disk, written, treeLogMutex, ordered>>

CommitUnlist(p) ==
    /\ At(p, "unlist")
    /\ listed' = listed \ {proc[p].tx}
    /\ Goto(p, "putbase")
    /\ UNCHANGED <<running, generation, tx, fsError, durable>>

CommitPut(p) ==
    /\ At(p, "putbase")
    /\ tx' = [tx EXCEPT ![proc[p].tx].use = @ - 2]
    /\ proc' = [proc EXCEPT ![p].pc = "committed", ![p].goal = proc[p].tx,
                            ![p].tx = 0, ![p].ext = FALSE]
    /\ UNCHANGED <<list, fsError, durable>>

-----------------------------------------------------------------------------
(***************************************************************************)
(* cleanup_transaction() and, for the kthread, btrfs_cleanup_transaction() *)
(***************************************************************************)
CleanupLock(p) ==
    LET i == proc[p].tx IN
    /\ At(p, "cleanlock")
    /\ IF i = running
       THEN /\ tx' = [tx EXCEPT ![i].state = COMMIT_DOING]
            /\ Goto(p, "cleanwait")
       ELSE Goto(p, "cleandel") /\ UNCHANGED tx
    /\ UNCHANGED <<list, fsError, durable>>

CleanupWait(p) ==
    /\ At(p, "cleanwait") /\ Alone(p)
    /\ Goto(p, "cleandel")
    /\ UNCHANGED shared

CleanupUnlist(p) ==
    /\ At(p, "cleandel")
    /\ listed' = listed \ {proc[p].tx}
    /\ proc' = [proc EXCEPT ![p].pc = "clean1", ![p].doom = proc[p].tx]
    /\ UNCHANGED <<running, generation, tx, fsError, durable>>

(* btrfs_cleanup_one_transaction walks the state to COMPLETED. *)
CleanupState(p, pc, s, next) ==
    /\ At(p, pc)
    /\ tx' = [tx EXCEPT ![proc[p].doom].state = s]
    /\ Goto(p, next)
    /\ UNCHANGED <<list, fsError, durable>>

CleanupOne(p) ==
    \/ CleanupState(p, "clean1", COMMIT_START, "clean2")
    \/ CleanupState(p, "clean2", UNBLOCKED, "clean3")
    \/ CleanupState(p, "clean3", COMPLETED, "cleandone")

CleanupDone(p) ==
    LET i == proc[p].doom
        own == proc[p].tx = i
    IN
    /\ At(p, "cleandone")
    /\ running' = IF running = i THEN 0 ELSE running
    /\ listed' = listed \ {i}
    /\ tx' = [tx EXCEPT ![i].use = @ - (IF own THEN 2 ELSE 1)]
    /\ IF own THEN Return(p)
       ELSE proc' = [proc EXCEPT ![p] = Fresh("scan", "none", 0)]
    /\ UNCHANGED <<generation, fsError, durable>>

(***************************************************************************)
(* transaction_kthread(): commit what is running when the interval is over *)
(* or a commit was asked for; after an error tear every transaction down.  *)
(***************************************************************************)
KthreadAttach(p) ==
    /\ p \in KThreads /\ At(p, "idle") /\ running # 0 /\ ~fsError
    /\ proc' = [proc EXCEPT ![p].pc = "start", ![p].type = "ATTACH",
                            ![p].goal = running]
    /\ UNCHANGED shared

KthreadAttached(p) ==
    /\ p \in KThreads /\ At(p, "held")
    /\ proc' = [proc EXCEPT
          ![p].pc = IF proc[p].tx = proc[p].goal THEN "commit" ELSE "endw",
          ![p].cont = "ret"]
    /\ UNCHANGED shared

KthreadError(p) ==
    /\ p \in KThreads /\ At(p, "idle") /\ fsError
    /\ Goto(p, "scan")
    /\ UNCHANGED shared

MutHasCommitter(i) == tx[i].state >= COMMIT_DOING
HasCommitter(i) == tx[i].state >= COMMIT_PREP

KthreadScan(p) ==
    /\ At(p, "scan")
    /\ \/ /\ listed = {}
          /\ Goto(p, "idle") /\ UNCHANGED tx
       \/ \E i \in listed :
             /\ Oldest(i) /\ HasCommitter(i)
             /\ tx' = Pin(i)
             /\ proc' = [proc EXCEPT ![p].pc = "find", ![p].cont = "scan",
                                     ![p].goal = i, ![p].pin = i]
       \/ \E i \in listed :
             /\ Oldest(i) /\ ~HasCommitter(i)
             /\ proc' = [proc EXCEPT ![p].doom = i,
                           ![p].pc = IF i = running THEN "drain" ELSE "clean1"]
             /\ tx' = IF i = running
                      THEN [tx EXCEPT ![i].state = COMMIT_DOING] ELSE tx
    /\ UNCHANGED <<list, fsError, durable>>

KthreadDrain(p) ==
    /\ At(p, "drain") /\ tx[proc[p].doom].writers = 0
    /\ Goto(p, "clean1")
    /\ UNCHANGED shared

-----------------------------------------------------------------------------
Requests(p) ==
    \/ \E op \in Ops \ {"WAIT"} : StartRequest(p, op)
    \/ \E i \in 0..generation : WaitRequest(p, i)
    \/ SyncLogRequest(p) \/ ChargeOrdered(p) \/ AbortRequest(p)

Release(p) ==
    \/ EndRequest(p) \/ (\E b \in BOOLEAN : CommitRequest(p, b))
    \/ CommitAsyncRequest(p)

LogLocks(p) == SyncLogLock(p) \/ CommitUnblock(p)

Proceed(p) ==
    \/ StartEntry(p) \/ WaitCurrentTrans(p) \/ CurrentTransUnblocked(p)
    \/ JoinTransaction(p) \/ NewTransaction(p) \/ Joined(p)
    \/ NothingToJoin(p) \/ AsyncCommitStarted(p)
    \/ AbortTransaction(p) \/ HandleFsError(p)
    \/ SyncLogSuper(p) \/ EndTransaction(p) \/ EndPut(p)
    \/ FindCommit(p) \/ CommitReached(p) \/ WaitForEarlier(p) \/ Waited(p)
    \/ Acknowledge(p)
    \/ CommitEntry(p) \/ CommitPrep(p) \/ PrevCommitted(p)
    \/ DropExtwriter(p) \/ NoExtwriters(p) \/ NoPendingOrdered(p)
    \/ NoOtherWriters(p) \/ CommitDoing(p)
    \/ WriteBlocks(p) \/ WriteSuper(p) \/ CommitFinish(p)
    \/ CommitUnlist(p) \/ CommitPut(p)
    \/ CleanupLock(p) \/ CleanupWait(p) \/ CleanupUnlist(p)
    \/ CleanupOne(p) \/ CleanupDone(p)
    \/ KthreadAttach(p) \/ KthreadAttached(p) \/ KthreadError(p)
    \/ KthreadScan(p) \/ KthreadDrain(p)

Step(p) == Requests(p) \/ Release(p) \/ LogLocks(p) \/ Proceed(p)

Next == (\E p \in Procs : Step(p)) \/ OrderedComplete

Spec == Init /\ [][Next]_vars

(* A task runs when it can; the I/O of an ordered extent completes; the    *)
(* holder of a handle eventually gives it up; mutexes are handed over.     *)
Fairness ==
    /\ \A p \in Procs : WF_vars(Proceed(p))
    /\ \A p \in Procs : SF_vars(LogLocks(p)) /\ SF_vars(Release(p))
    /\ WF_vars(OrderedComplete)

FairSpec == Spec /\ Fairness
-----------------------------------------------------------------------------
(***************************************************************************)
(* Properties                                                              *)
(***************************************************************************)
Points == {"idle", "start", "waitcur", "blocked", "join", "alloc", "joined",
           "enoent", "held", "endw", "endput", "asyncwait", "abort",
           "fserror", "loglock", "logsuper", "find", "wait", "waitnext",
           "waited", "committed", "barrierdone", "commit", "prep",
           "prevdone", "dropext", "extwait", "ordwait", "wrwait", "doing",
           "unblock", "write", "super", "finish", "unlist", "putbase",
           "cleanlock", "cleanwait", "cleandel", "clean1", "clean2",
           "clean3", "cleandone", "scan", "drain"}

HandleTypes   == {"none", "START", "ATTACH", "JOIN", "JOIN_NOSTART"}
Continuations == {"none", "barrier", "ret", "async", "held", "clean",
                  "newest", "transid", "scan", "prev", "waiter"}

ProcState == [pc : Points,
              type : HandleTypes,
              ext : BOOLEAN, fsync : BOOLEAN,
              then : {"idle", "again"},
              cont : Continuations,
              err : BOOLEAN,
              tx : 0..MaxTrans, ref : 0..MaxTrans, wtx : 0..MaxTrans,
              pin : 0..MaxTrans, doom : 0..MaxTrans, goal : 0..MaxTrans]

TxState == [state : RUNNING..COMPLETED, writers : Int, ext : Int, use : Int,
            aborted : BOOLEAN, pending : Int]

Super == [gen : 0..MaxTrans, log : 0..MaxTrans]

(* Type invariant: pointers are NULL or one of the transactions, and the   *)
(* counters are the C integers.                                            *)
TypeOK ==
    /\ generation \in 0..MaxTrans
    /\ running \in 0..MaxTrans
    /\ listed \subseteq TransIds
    /\ tx \in [TransIds -> TxState]
    /\ fsError \in BOOLEAN
    /\ lastCommitted \in 0..MaxTrans
    /\ superForCommit \in Super
    /\ disk \in Super
    /\ written \subseteq 0..MaxTrans
    /\ treeLogMutex \in Procs \cup {None}
    /\ ordered \in 0..MaxTrans
    /\ proc \in [Procs -> ProcState]

Writers(i) == {p \in Procs : proc[p].tx = i /\ ~At(p, "endput")}
Pinning(i) == {p \in Procs : proc[p].tx = i}

(* The two waits of the committer are about counters; the counters must be *)
(* the open handles: num_writers all of them, num_extwriters those of type *)
(* TRANS_START and TRANS_ATTACH, for as long as the transaction is on      *)
(* trans_list (join_transaction, __btrfs_end_transaction).  JOIN_NOLOCK     *)
(* handles, which would count in num_writers alone, are left out.          *)
WritersAreHandles ==
    \A i \in listed :
        /\ tx[i].writers = Cardinality(Writers(i))
        /\ tx[i].ext = Cardinality({p \in Writers(i) : proc[p].ext})

HasBaseReference(i) ==
    \/ i \in listed
    \/ \E p \in Procs : proc[p].doom = i \/ (At(p, "putbase") /\ proc[p].tx = i)

(* use_count is exactly the number of pointers to the transaction, over    *)
(* every path that takes or drops one (join, end, wait, async commit,      *)
(* commit, both cleanups), so nobody holds a pointer to freed memory and   *)
(* nothing leaks; running_transaction is always one of the pinned ones.    *)
RefcountExact ==
    /\ \A i \in 1..generation :
          tx[i].use = Cardinality(Pinning(i))
                      + Cardinality({p \in Procs : proc[p].ref = i})
                      + Cardinality({p \in Procs : proc[p].wtx = i})
                      + Cardinality({p \in Procs : proc[p].pin = i})
                      + One(HasBaseReference(i))
    /\ running # 0 => HasBaseReference(running)

(* switch_commit_roots: "no one can be using this transaction to modify    *)
(* any tree and no one can start another transaction to modify any tree".  *)
(* It is claimed of handles of the types of the model: no START, ATTACH,   *)
(* JOIN or JOIN_NOSTART handle is open or can be opened.  A free space     *)
(* endio worker may have a JOIN_NOLOCK handle, and is why                  *)
(* btrfs_write_dirty_block_groups() waits for num_writers once more.       *)
CommitIsAlone ==
    \A p \in Procs :
        proc[p].pc \in {"doing", "unblock"} =>
            /\ running = proc[p].tx
            /\ \A q \in Procs \ {p} :
                  proc[q].tx = 0 \/ At(q, "endput") \/ proc[q].tx # running

(* cleanup_transaction: BUG_ON(list_empty(&cur_trans->list)), that is, the  *)
(* kthread's teardown never takes from trans_list a transaction that has a *)
(* committer, nor a committer one that is being torn down.                 *)
CommitterKeepsList ==
    \A p \in Procs :
        proc[p].pc \in {"prevdone", "dropext", "extwait", "ordwait", "wrwait",
                       "doing", "unblock", "write", "super", "finish",
                       "unlist", "cleanlock", "cleanwait", "cleandel"} =>
            /\ proc[p].tx \in listed
            /\ \A q \in Procs : proc[q].doom # proc[p].tx

(* Crash consistency: at every moment the super block on the device points *)
(* only to blocks that are on the device, whoever wrote it (a commit or a  *)
(* tree log sync) and whichever earlier transaction failed.                *)
BlocksBeforeSuper == 1..disk.gen \subseteq written

(* The log a crash would replay belongs to the transaction right after the *)
(* generation of the super block: btrfs_sync_log neither precedes the      *)
(* previous commit's super block nor survives its own (tree-log.c:3089).   *)
LogFollowsSuper == disk.log \in {0, disk.gen + 1}

(* btrfs_commit_transaction() returned 0, to the winner or to a waiter:    *)
(* the transaction is on disk.                                             *)
CommitReturnIsDurable ==
    \A p \in Procs : At(p, "committed") => proc[p].goal <= disk.gen

(* btrfs_remove_ordered_extent tells the running transaction, which must   *)
(* be the one that was charged: ASSERT(trans || BTRFS_FS_ERROR(fs_info)).  *)
OrderedIsCharged ==
    ordered # 0 => \/ running = ordered /\ tx[ordered].pending = 1
                   \/ fsError

(* Transactions are the epochs of CommitOrder: opened one at a time,       *)
(* stable in order and all at once, never after they were lost.            *)
Abstract == INSTANCE CommitOrder WITH
    open   <- running,
    last   <- generation,
    stable <- disk.gen,
    lost   <- {i \in TransIds : tx[i].aborted},
    dead   <- fsError

CommitsInOrder == Abstract!Spec

(* Every call returns, whoever else commits, aborts or waits. *)
CallsReturn ==
    \A p \in Procs : (proc[p].pc \notin {"idle", "held"})
                         ~> (proc[p].pc \in {"idle", "held"})

(* The kthread sees to it that a transaction does not stay open for ever.  *)
RunningIsCommitted ==
    \A i \in TransIds : (running = i) ~> (running # i)

(* btrfs_sync_file on -ENOENT from the barrier: "everything we care about  *)
(* made it to disk and we are done" (file.c:2008).                         *)
BarrierMeansOnDisk ==
    \A p \in Procs : At(p, "barrierdone") => proc[p].goal <= disk.gen
=============================================================================
