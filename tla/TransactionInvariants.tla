----------------------- MODULE TransactionInvariants -----------------------
(***************************************************************************)
(* The inductive invariants behind the safety properties of Transaction.   *)
(*                                                                         *)
(* What a task may do to a transaction depends on its part in the life of  *)
(* that transaction, not on the exact control point: Role names the part   *)
(* and Target the transaction.  Several invariants say what a role implies *)
(* for the transaction, and that no transaction has two owners, i.e. tasks *)
(* that commit it or tear it down.                                         *)
(***************************************************************************)
EXTENDS Transaction

-----------------------------------------------------------------------------
(***************************************************************************)
(* Roles                                                                   *)
(***************************************************************************)
HandlePoints == {"joined", "held", "endw", "loglock", "logsuper", "commit",
                 "prep"}
WaitPoints   == {"wait", "waitnext", "waited"}
ErrorPoints  == {"abort", "fserror"}
WalkPoints   == {"clean1", "clean2", "clean3", "cleandone"}
JoinPoints   == {"start", "waitcur", "blocked", "join", "alloc"}

Role(r) ==
    CASE r.pc \in HandlePoints           -> "handle"
      [] r.pc \in ErrorPoints            -> IF r.cont = "clean" THEN "fail"
                                                                ELSE "handle"
      [] r.pc = "endput"                 -> "put"
      [] r.pc \in WaitPoints             -> IF r.cont = "prev" THEN "prep"
                                                               ELSE "out"
      [] r.pc = "prevdone"               -> "prep"
      [] r.pc \in {"dropext", "extwait"} -> "start"
      [] r.pc = "ordwait"                -> "quiet"
      [] r.pc = "wrwait"                 -> "doing"
      [] r.pc \in {"doing", "unblock"}   -> "alone"
      [] r.pc \in {"write", "super"}     -> "writing"
      [] r.pc \in {"finish", "unlist"}   -> "done"
      [] r.pc = "putbase"                -> "gone"
      [] r.pc = "cleanlock"              -> "fail"
      [] r.pc = "cleanwait"              -> "failwait"
      [] r.pc = "cleandel"               -> "dead"
      [] r.pc \in WalkPoints             -> IF r.tx = 0 THEN "kwalk"
                                                        ELSE "walk"
      [] r.pc = "drain"                  -> "kdrain"
      [] OTHER                           -> "out"

Target(r) == IF r.tx = 0 THEN r.doom ELSE r.tx

Committers == {"prep", "start", "quiet", "doing", "alone", "writing", "done",
               "gone", "fail", "failwait", "dead", "walk"}
Reapers    == {"kdrain", "kwalk"}
Owners     == Committers \cup Reapers
Holders    == Committers \cup {"handle", "put"}
Writing    == Committers \cup {"handle"}
Roles      == Owners \cup {"handle", "put", "out"}

(* Nobody but the owner can use the transaction any more. *)
Sealers == {"alone", "dead", "walk", "kwalk"}

(* The fields of a task at each of its points. *)
Shape(r) ==
    /\ r.tx # 0 <=> Role(r) \in Holders
    /\ r.doom # 0 <=> r.pc \in WalkPoints \cup {"drain"}
    /\ r.doom # 0 => r.tx \in {0, r.doom}
    /\ r.pc \in JoinPoints =>
          r.type \in {"START", "ATTACH", "JOIN", "JOIN_NOSTART"}
    /\ r.pc \in JoinPoints \cup {"enoent"} => r.cont \in {"none", "barrier"}
    /\ r.pc \in {"endw", "endput"} => r.cont \in {"ret", "async", "waiter"}
    /\ r.pc = "find" => r.cont # "prev"
    /\ r.pc \in {"idle", "scan"} => r.cont = "none" /\ r.then = "idle"
    /\ r.then = "again" => r.type = "START"
    /\ Role(r) = "handle" \/ Role(r) = "prep" \/ r.pc = "dropext" =>
          (r.ext <=> r.type \in EXTWRITERS)

Shapes == \A p \in Procs : Shape(proc[p])

-----------------------------------------------------------------------------
(***************************************************************************)
(* Who owns a transaction, and in which state it is then                   *)
(***************************************************************************)
RoleOf(p)   == Role(proc[p])
TargetOf(p) == Target(proc[p])

Bounded ==
    /\ running \in {0, generation}
    /\ listed \subseteq 1..generation
    /\ \A p \in Procs : TargetOf(p) <= generation

HandlesAreRunning ==
    \A p \in Procs : RoleOf(p) = "handle" => TargetOf(p) = running

OneOwner ==
    \A p, q \in Procs :
        RoleOf(p) \in Owners /\ RoleOf(q) \in Owners
            /\ TargetOf(p) = TargetOf(q) => p = q

(* The state s of a transaction, and where transaction i is, when its      *)
(* owner has the role; run and all are running and listed.                 *)
OwnedState(role, s) ==
    /\ s >= COMMIT_PREP
    /\ role = "prep" => s = COMMIT_PREP
    /\ role \in {"start", "quiet"} => s = COMMIT_START
    /\ role \in {"doing", "alone", "failwait", "kdrain"} => s = COMMIT_DOING
    /\ role = "writing" => s = UNBLOCKED
    /\ role = "done" => s >= SUPER_COMMITTED
    /\ role = "fail" => s <= UNBLOCKED

OwnedPlace(role, s, i, run, all) ==
    /\ role \in {"prep", "start", "quiet", "doing", "alone", "failwait",
                 "kdrain", "kwalk"} => i = run
    /\ role \in {"writing", "done", "gone"} => i # run
    /\ role = "fail" => i = run \/ s = UNBLOCKED
    /\ i \in all <=> role \notin {"gone", "walk"}

Owned ==
    \A p \in Procs : RoleOf(p) \in Owners =>
        LET i == TargetOf(p) IN
        /\ OwnedState(RoleOf(p), tx[i].state)
        /\ OwnedPlace(RoleOf(p), tx[i].state, i, running, listed)

OthersReleased(p) ==
    \A q \in Procs \ {p} : TargetOf(q) = TargetOf(p) => RoleOf(q) = "put"

Sealed == \A p \in Procs : RoleOf(p) \in Sealers => OthersReleased(p)

(* Only the running transaction on trans_list can be before UNBLOCKED. *)
EarlierUnblocked ==
    \A i \in listed : i # running => tx[i].state >= UNBLOCKED

(* The running transaction leaves trans_list only to be torn down. *)
RunningIsListed ==
    running # 0 => \/ running \in listed
                   \/ \E p \in Procs : /\ RoleOf(p) = "walk"
                                       /\ TargetOf(p) = running

RoleInv ==
    /\ Bounded /\ HandlesAreRunning /\ OneOwner /\ Owned /\ Sealed
    /\ EarlierUnblocked /\ RunningIsListed

(* A teardown runs only after fs_info->fs_error was set. *)
AfterError(r) == \/ r.pc \in WalkPoints
                 \/ r.pc \in {"cleanlock", "cleanwait", "cleandel", "scan",
                              "drain"}
                 \/ r.cont = "scan"
TeardownAfterError == \A p \in Procs : AfterError(proc[p]) => fsError

CoreInv ==
    TypeOK /\ Shapes /\ RoleInv /\ TeardownAfterError /\ WritersAreHandles

-----------------------------------------------------------------------------
(***************************************************************************)
(* References: which pointers a task has at which point                    *)
(***************************************************************************)
RefShape(r) ==
    /\ r.ref # 0 <=> \/ r.pc \in WaitPoints \cup {"blocked", "asyncwait"}
                     \/ /\ r.pc \in {"endw", "endput"}
                        /\ r.cont \in {"async", "waiter"}
    /\ r.wtx # 0 => r.pc = "wait"
    /\ r.pin # 0 <=> r.cont = "scan" /\ r.pc \in WaitPoints \cup {"find"}
    /\ r.cont = "scan" => r.pc \in WaitPoints \cup {"find"}
    /\ r.cont = "prev" => r.pc \in WaitPoints
    /\ r.cont = "waiter" => r.pc \in WaitPoints \cup {"endw", "endput"}

RefBounded(r) ==
    r.ref <= generation /\ r.wtx <= generation /\ r.pin <= generation

PointerInv == \A p \in Procs : RefShape(proc[p]) /\ RefBounded(proc[p])

-----------------------------------------------------------------------------
(***************************************************************************)
(* Commits in order                                                        *)
(***************************************************************************)
(* Transaction i is past the wait for the previous one. *)
Ready(i) == \/ tx[i].state >= COMMIT_START
            \/ \E p \in Procs : /\ proc[p].tx = i
                                /\ At(p, "prevdone") \/ RoleOf(p) = "fail"

(* Whoever is past that wait finds the super block of every earlier        *)
(* transaction still listed on the device, or its teardown over.           *)
EarlierSettled ==
    \A k \in 1..generation : Ready(k) =>
        \A i \in listed : i < k => tx[i].state >= SUPER_COMMITTED

Reached(r) == r.pc \in {"waitnext", "waited"} \/ (r.pc = "wait" /\ r.wtx # 0)

WaitsForPrevious(p) ==
    /\ Reached(proc[p]) => tx[proc[p].ref].state >= SUPER_COMMITTED
    /\ proc[p].pc \in WaitPoints /\ RoleOf(p) = "prep" =>
          \A i \in listed : i < proc[p].tx => i <= proc[p].ref

(* A teardown meets a transaction whose super block was not written. *)
NotSettled(p) ==
    proc[p].pc \in {"cleandel", "clean1", "clean2", "clean3"} =>
        tx[TargetOf(p)].state \in COMMIT_START..UNBLOCKED

OrderInv ==
    EarlierSettled /\ \A p \in Procs : WaitsForPrevious(p) /\ NotSettled(p)

-----------------------------------------------------------------------------
(***************************************************************************)
(* The super block                                                         *)
(***************************************************************************)
SuperIsLocked ==
    \A p \in Procs :
        proc[p].pc \in {"write", "super", "logsuper"} => treeLogMutex = p

SuperIsPrepared ==
    /\ \A p \in Procs :
          /\ proc[p].pc \in {"unblock", "write", "super"} =>
                superForCommit = SuperOf(proc[p].tx)
          /\ At(p, "logsuper") =>
                superForCommit = [gen |-> disk.gen, log |-> proc[p].tx]
    /\ \/ fsError
       \/ superForCommit.gen = disk.gen
       \/ \E p \in Procs : proc[p].pc \in {"unblock", "write", "super"}

DiskIsNext ==
    /\ disk.gen <= generation
    /\ running # 0 => disk.gen < running
    /\ \A p \in Procs :
          /\ At(p, "write") => disk.gen < proc[p].tx
          /\ At(p, "logsuper") => proc[p].tx = disk.gen + 1
          /\ At(p, "super") => /\ disk.gen = proc[p].tx - 1
                               /\ proc[p].tx \in written
          /\ proc[p].pc \in {"finish", "unlist", "putbase"} =>
                proc[p].tx <= disk.gen

(* Without an error, a transaction is open, on the device, or written. *)
NothingForgotten ==
    \/ fsError
    \/ \A i \in 1..generation :
          \/ i = running \/ i <= disk.gen
          \/ \E p \in Procs : /\ proc[p].tx = i
                              /\ proc[p].pc \in {"write", "super"}

DiskInv == /\ SuperIsLocked /\ SuperIsPrepared /\ DiskIsNext
           /\ NothingForgotten /\ BlocksBeforeSuper /\ LogFollowsSuper

-----------------------------------------------------------------------------
(***************************************************************************)
(* Those who wait for a commit                                             *)
(***************************************************************************)
TornDown(i) == \E p \in Procs : RoleOf(p) \in Reapers /\ TargetOf(p) = i

(* The kthread tore i down: it looks settled and not aborted. *)
Lost(i) == tx[i].state >= SUPER_COMMITTED /\ ~tx[i].aborted /\ i > disk.gen

(* A waiter of a transaction that is lost will know it. *)
WaiterKnows(p) ==
    proc[p].cont = "waiter" =>
        /\ tx[proc[p].ref].state >= COMMIT_PREP
        /\ TornDown(proc[p].ref) \/ Lost(proc[p].ref) =>
              proc[p].err \/ proc[p].pc \in {"endw", "endput"}

FailedIsAborted(p) ==
    \/ At(p, "fserror") /\ proc[p].cont = "clean"
    \/ proc[p].pc \in {"cleanlock", "cleanwait", "cleandel"}
    \/ RoleOf(p) = "walk"
    => tx[proc[p].tx].aborted

WaiterInv ==
    /\ \A p \in Procs : WaiterKnows(p) /\ FailedIsAborted(p)
    /\ \A i \in 1..generation : Lost(i) => fsError
    /\ CommitReturnIsDurable

-----------------------------------------------------------------------------
(***************************************************************************)
(* Ordered extents                                                         *)
(***************************************************************************)
Quieted == {"quiet", "doing", "alone"}

ExtwritersGone ==
    \A p, q \in Procs :
        /\ RoleOf(p) \in Quieted
        /\ RoleOf(q) = "handle" /\ TargetOf(q) = TargetOf(p)
        => ~proc[q].ext

ChargeIsBooked ==
    \/ fsError
    \/ /\ ordered # 0 => ordered = running
       /\ \A i \in TransIds : tx[i].pending = One(ordered = i)
       /\ \A p \in Procs : RoleOf(p) \in {"doing", "alone"} => ordered = 0

OrderedInv == ExtwritersGone /\ ChargeIsBooked

-----------------------------------------------------------------------------
(***************************************************************************)
(* The attach barrier, as long as nothing fails                            *)
(***************************************************************************)
Unbroken ==
    /\ ~fsError
    /\ \A i \in TransIds : ~tx[i].aborted
    /\ \A p \in Procs : proc[p].pc \notin ErrorPoints

(* The running transaction is not unblocked: btrfs_commit_transaction      *)
(* takes it out of running_transaction when it sets TRANS_STATE_UNBLOCKED. *)
RunningIsOpen == running # 0 => tx[running].state < UNBLOCKED

(* The open transaction is newer than what the barrier is about. *)
Passed(p) == running = 0 \/ running > proc[p].goal

(* What btrfs_attach_transaction_barrier, btrfs_wait_for_commit(0) and     *)
(* btrfs_sync_file after them know of the transactions up to proc[p].goal, *)
(* the newest when the barrier was called.                                 *)
BarrierKnows(p) ==
    /\ proc[p].cont = "barrier" =>
          /\ proc[p].goal <= generation
          /\ proc[p].pc \in {"start", "waitcur", "blocked", "join"} =>
                proc[p].type = "ATTACH"
          /\ proc[p].pc \in {"start", "waitcur", "blocked", "join", "enoent",
                             "find"} \cup WaitPoints
          /\ At(p, "waitcur") =>
                Passed(p) \/ tx[running].state >= COMMIT_START
          /\ At(p, "blocked") => proc[p].goal <= proc[p].ref
          /\ proc[p].pc \in {"enoent", "find"} => Passed(p)
          /\ proc[p].pc \in WaitPoints =>
                proc[p].goal <= proc[p].ref \/ proc[p].goal <= disk.gen
    /\ At(p, "barrierdone") => proc[p].goal <= disk.gen

BarrierInv == Unbroken /\ RunningIsOpen /\ \A p \in Procs : BarrierKnows(p)
=============================================================================
