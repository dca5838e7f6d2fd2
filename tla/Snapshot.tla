------------------------------ MODULE Snapshot ------------------------------
(***************************************************************************)
(* Snapshots of a subvolume against NOCOW writes, expanding truncates and  *)
(* swap files on it (ioctl.c, inode.c, file.c of btrfs_mfs_v4.3).  They    *)
(* are kept apart by root->snapshot_lock, a DREW lock, which is taken here *)
(* as GroupLock promises; root->snapshot_force_cow; and nr_swapfiles.      *)
(* A file is one NODATACOW extent of the subvolume.                        *)
(***************************************************************************)
EXTENDS Integers, FiniteSets

CONSTANTS
    Snapshotters,  \* tasks in BTRFS_IOC_SNAP_CREATE
    Tasks,         \* tasks on the write side of the lock
    Files,
    Operations,    \* what tasks do: a subset of {"nocow", "expand", "swap"}
    Deletable      \* whether somebody tries to delete the subvolume

ASSUME SnapshotAssumption ==
    /\ IsFiniteSet(Snapshotters) /\ IsFiniteSet(Tasks) /\ IsFiniteSet(Files)
    /\ Files # {}
    /\ Operations \subseteq {"nocow", "expand", "swap"}
    /\ Deletable \in BOOLEAN

VARIABLES
    inA, inB,   \* snapshotters and tasks that hold snapshot_lock
    snap,       \* where each snapshotter is in btrfs_mksnapshot
    todo,       \* files it still has to flush or wait for
    due,        \* files with data older than the call that is not in the tree
    task,       \* where each task is, and the inode it has locked
    file,       \* state of the extent of each file
    forceCow,   \* root->snapshot_force_cow
    swapfiles,  \* root->nr_swapfiles
    dead        \* BTRFS_ROOT_SUBVOL_DEAD

vars == <<inA, inB, snap, todo, due, task, file, forceCow, swapfiles, dead>>

SnapshotLock == INSTANCE GroupLock WITH A <- Snapshotters, B <- Tasks

(* stage: clean, dirty (delalloc), "check", "tocow", "rocow", "tonocow" in  *)
(* writeback with its pages locked ("tocow" falls back to COW because the   *)
(* extent is shared or a snapshot forces it, "rocow" because its block      *)
(* group is read-only), "cow" and "nocow" with an ordered extent.           *)
(* reserved: not EXTENT_NORESERVE; shared: a snapshot has the same extent;  *)
(* owed: a truncate is in the tree and data older than it is not.           *)
CleanFile == [stage |-> "clean", reserved |-> TRUE, shared |-> FALSE,
              owed |-> FALSE, swap |-> FALSE]
NoTask == [at |-> "idle", file |-> CHOOSE f \in Files : TRUE]

SnapInit ==
    /\ SnapshotLock!Init
    /\ snap = [s \in Snapshotters |-> "idle"]
    /\ todo = [s \in Snapshotters |-> {}]
    /\ due = [s \in Snapshotters |-> {}]
    /\ task = [t \in Tasks |-> NoTask]
    /\ file = [f \in Files |-> CleanFile]
    /\ forceCow = 0 /\ swapfiles = 0 /\ dead = FALSE

Delalloc == {f \in Files :
               file[f].stage \in {"dirty", "check", "tocow", "rocow", "tonocow"}}
Ordered == {f \in Files : file[f].stage \in {"cow", "nocow"}}
Pending == Delalloc \cup Ordered
Settled(f) == file[f].stage \in {"clean", "dirty"}

SetStage(f, stage) == file' = [file EXCEPT ![f].stage = stage]
SnapTo(s, step) == snap' = [snap EXCEPT ![s] = step]
TaskTo(t, step) == task' = [task EXCEPT ![t].at = step]
InodeLocked(f) ==
    \E t \in Tasks : task[t].file = f /\ task[t].at \notin {"idle", "leaked"}

-----------------------------------------------------------------------------
(* Buffered writes with reserved space, and writeback of dirty data.       *)

Dirty(f, reserved) ==
    file' = [file EXCEPT ![f].stage = "dirty", ![f].reserved = reserved]

WriteReserved(f) ==
    /\ Settled(f) /\ ~InodeLocked(f) /\ ~file[f].swap
    /\ Dirty(f, TRUE)
    /\ UNCHANGED <<inA, inB, snap, todo, due, task, forceCow, swapfiles, dead>>

(* run_delalloc_nocow() looks at the extent, then at snapshot_force_cow,   *)
(* then at the block group, which scrub and relocation make read-only and  *)
(* writable at any time, and creates the ordered extent some time later.   *)
StartWriteback(f) ==
    /\ file[f].stage = "dirty"
    /\ SetStage(f, IF file[f].shared THEN "tocow" ELSE "check")

MustCow == forceCow > 0

CheckForceCow(f) ==
    /\ file[f].stage = "check"
    /\ SetStage(f, IF MustCow THEN "tocow" ELSE "tonocow")

(* Data without a reservation is added to bytes_may_use, room or not.      *)
FallbackToCow(f) ==
    /\ file[f].stage \in {"tocow", "rocow"}
    /\ file' = [file EXCEPT ![f].stage = "cow", ![f].reserved = TRUE]

(* btrfs_inc_nocow_writers() fails if the group is read-only.              *)
AddOrderedExtent(f) ==
    \/ FallbackToCow(f)
    \/ /\ file[f].stage = "tonocow"
       /\ \E stage \in {"nocow", "rocow"} : SetStage(f, stage)

Writeback(f) ==
    /\ StartWriteback(f) \/ CheckForceCow(f) \/ AddOrderedExtent(f)
    /\ UNCHANGED <<inA, inB, snap, todo, due, task, forceCow, swapfiles, dead>>

(* The data is in the tree, or lost with an error. *)
Settle(f, shared) ==
    /\ file' = [file EXCEPT ![f].stage = "clean", ![f].reserved = TRUE,
                            ![f].shared = shared, ![f].owed = FALSE]
    /\ due' = [s \in Snapshotters |-> due[s] \ {f}]
    /\ UNCHANGED <<inA, inB, snap, todo, task, forceCow, swapfiles, dead>>

(* A COW write that succeeded has replaced the extent. *)
FinishOrdered(f) ==
    /\ f \in Ordered
    /\ \E replaced \in BOOLEAN :
         /\ replaced => file[f].stage = "cow"
         /\ Settle(f, file[f].shared /\ ~replaced)

WritebackError(f) ==
    /\ file[f].stage \in {"check", "tocow", "rocow", "tonocow"}
    /\ Settle(f, file[f].shared)

-----------------------------------------------------------------------------
(* The write side: NOCOW writes, expanding truncates, swap files.          *)

(* The lock lets no writer in while a reader is counted. *)
NoSnapshotter == \A s \in Snapshotters : snap[s] = "idle"

WriteLocked(t) == NoSnapshotter /\ SnapshotLock!EnterB(t)
MutExpandLock(t) == t \notin inB /\ inB' = inB \cup {t} /\ inA' = inA
ExpandLock(t) == WriteLocked(t)

(* btrfs_swap_activate() has written the file out first. *)
TaskLock(t, op, f) ==
    /\ op \in Operations
    /\ task[t].at = "idle" /\ ~InodeLocked(f) /\ ~file[f].swap
    /\ op = "swap" => file[f].stage = "clean"
    /\ IF op = "expand" THEN ExpandLock(t) ELSE WriteLocked(t)
    /\ task' = [task EXCEPT ![t] = [at |-> op, file |-> f]]
    /\ UNCHANGED <<snap, todo, due, file, forceCow, swapfiles, dead>>

TaskUnlock(t) ==
    /\ task[t].at = "unlock"
    /\ SnapshotLock!LeaveB(t)
    /\ TaskTo(t, "idle")
    /\ UNCHANGED <<snap, todo, due, file, forceCow, swapfiles, dead>>

(* btrfs_check_nocow_lock(): once ordered extents are gone, look whether   *)
(* the extent can be overwritten: it is not shared and its block group is  *)
(* not read-only.  If not, the write fails.                                *)
NocowCheck(t) ==
    LET f == task[t].file IN
    /\ task[t].at = "nocow" /\ Settled(f)
    /\ \E readOnly \in BOOLEAN :
         TaskTo(t, IF file[f].shared \/ readOnly THEN "unlock" ELSE "write")
    /\ UNCHANGED <<inA, inB, snap, todo, due, file, forceCow, swapfiles, dead>>

(* The data becomes dirty without a reservation, or the write fails. *)
NocowWrite(t) ==
    LET f == task[t].file IN
    /\ task[t].at = "write" /\ Settled(f)
    /\ Dirty(f, FALSE) \/ UNCHANGED file
    /\ TaskTo(t, "unlock")
    /\ UNCHANGED <<inA, inB, snap, todo, due, forceCow, swapfiles, dead>>

(* The new size is put into the tree, or one of the steps fails. *)
Expand(t) ==
    LET f == task[t].file IN
    /\ task[t].at = "expand"
    /\ \/ file' = [file EXCEPT ![f].owed = @ \/ f \in Pending]
       \/ UNCHANGED file
    /\ TaskTo(t, "unlock")
    /\ UNCHANGED <<inA, inB, snap, todo, due, forceCow, swapfiles, dead>>

(* btrfs_swap_activate() returns with the lock held if the subvolume is    *)
(* being deleted, else it counts the swap file and walks its extents.      *)
SwapCount(t) ==
    /\ task[t].at = "swap"
    /\ IF dead
       THEN TaskTo(t, "leaked") /\ UNCHANGED swapfiles
       ELSE TaskTo(t, "walk") /\ swapfiles' = swapfiles + 1
    /\ UNCHANGED <<inA, inB, snap, todo, due, file, forceCow, dead>>

SwapWalk(t) ==
    LET f == task[t].file IN
    /\ task[t].at = "walk"
    /\ TaskTo(t, "unlock")
    /\ \/ /\ ~file[f].shared
          /\ file' = [file EXCEPT ![f].swap = TRUE]
          /\ UNCHANGED swapfiles
       \/ swapfiles' = swapfiles - 1 /\ UNCHANGED file
    /\ UNCHANGED <<inA, inB, snap, todo, due, forceCow, dead>>

SwapDeactivate(f) ==
    /\ file[f].swap
    /\ file' = [file EXCEPT ![f].swap = FALSE]
    /\ swapfiles' = swapfiles - 1
    /\ UNCHANGED <<inA, inB, snap, todo, due, task, forceCow, dead>>

(* btrfs_delete_subvolume() marks the root and unmarks it if it fails. *)
DeleteSubvolume ==
    /\ Deletable /\ ~dead /\ swapfiles = 0
    /\ dead' = TRUE
    /\ UNCHANGED <<inA, inB, snap, todo, due, task, file, forceCow, swapfiles>>

DeleteFailed ==
    /\ dead
    /\ dead' = FALSE
    /\ UNCHANGED <<inA, inB, snap, todo, due, task, file, forceCow, swapfiles>>

-----------------------------------------------------------------------------
(* btrfs_mksnapshot(): the read side.                                      *)

SnapCall(s) ==
    /\ snap[s] = "idle"
    /\ SnapTo(s, "lock")
    /\ due' = [due EXCEPT ![s] = Pending]
    /\ UNCHANGED <<inA, inB, todo, task, file, forceCow, swapfiles, dead>>

SnapLock(s) ==
    /\ snap[s] = "lock"
    /\ SnapshotLock!EnterA(s)
    /\ SnapTo(s, "flush")
    /\ UNCHANGED <<todo, due, task, file, forceCow, swapfiles, dead>>

Alone(step) == \A s \in Snapshotters : snap[s] # step

(* The inodes on the list when the walk starts. *)
MutToFlush == Ordered
ToFlush == Delalloc

StartDelalloc(s) ==
    /\ snap[s] = "flush" /\ Alone("flushing")
    /\ SnapTo(s, "flushing")
    /\ todo' = [todo EXCEPT ![s] = ToFlush]
    /\ UNCHANGED <<inA, inB, due, task, file, forceCow, swapfiles, dead>>

(* Writeback has passed over the file; what gets dirty later is skipped. *)
Flushed(s, f) ==
    /\ snap[s] = "flushing" /\ f \in todo[s] \ Delalloc
    /\ todo' = [todo EXCEPT ![s] = @ \ {f}]
    /\ UNCHANGED <<inA, inB, snap, due, task, file, forceCow, swapfiles, dead>>

MutAfterFailedFlush == "uncow"
MutReturnsLocked == "idle"
AfterFailedFlush == "unlock"

FlushFailed(s) ==
    /\ snap[s] \in {"flush", "flushing"}
    /\ SnapTo(s, AfterFailedFlush)
    /\ UNCHANGED <<inA, inB, todo, due, task, file, forceCow, swapfiles, dead>>

ForceCow(s) ==
    /\ snap[s] = "flushing" /\ todo[s] = {}
    /\ forceCow' = forceCow + 1
    /\ SnapTo(s, "wait")
    /\ UNCHANGED <<inA, inB, todo, due, task, file, swapfiles, dead>>

MutToWaitFor == {}
ToWaitFor == Ordered

WaitOrdered(s) ==
    /\ snap[s] = "wait" /\ Alone("waiting")
    /\ SnapTo(s, "waiting")
    /\ todo' = [todo EXCEPT ![s] = ToWaitFor]
    /\ UNCHANGED <<inA, inB, due, task, file, forceCow, swapfiles, dead>>

OrderedWaited(s, f) ==
    /\ snap[s] = "waiting" /\ f \in todo[s] \ Ordered
    /\ todo' = [todo EXCEPT ![s] = @ \ {f}]
    /\ UNCHANGED <<inA, inB, snap, due, task, file, forceCow, swapfiles, dead>>

MutSwapPrevents == FALSE
SwapPrevents == swapfiles # 0

CreateSnapshot(s) ==
    /\ snap[s] = "waiting" /\ todo[s] = {}
    /\ SnapTo(s, IF SwapPrevents THEN "uncow" ELSE "create")
    /\ UNCHANGED <<inA, inB, todo, due, task, file, forceCow, swapfiles, dead>>

(* The commit copies the root: from now on the extents are shared. *)
Capture(s) ==
    /\ snap[s] = "create"
    /\ SnapTo(s, "captured")
    /\ file' = [f \in Files |-> [file[f] EXCEPT !.shared = TRUE]]
    /\ UNCHANGED <<inA, inB, todo, due, task, forceCow, swapfiles, dead>>

CreateFailed(s) ==
    /\ snap[s] = "create"
    /\ SnapTo(s, "uncow")
    /\ UNCHANGED <<inA, inB, todo, due, task, file, forceCow, swapfiles, dead>>

UnforceCow(s) ==
    /\ snap[s] \in {"captured", "uncow"}
    /\ forceCow' = forceCow - 1
    /\ SnapTo(s, "unlock")
    /\ UNCHANGED <<inA, inB, todo, due, task, file, swapfiles, dead>>

SnapUnlock(s) ==
    /\ snap[s] = "unlock"
    /\ SnapshotLock!LeaveA(s)
    /\ SnapTo(s, "idle")
    /\ todo' = [todo EXCEPT ![s] = {}]
    /\ due' = [due EXCEPT ![s] = {}]
    /\ UNCHANGED <<task, file, forceCow, swapfiles, dead>>

-----------------------------------------------------------------------------
TaskStep(t) ==
    TaskUnlock(t) \/ NocowCheck(t) \/ NocowWrite(t) \/ Expand(t)
    \/ SwapCount(t) \/ SwapWalk(t)

SnapStep(s) ==
    \/ SnapLock(s) \/ StartDelalloc(s) \/ ForceCow(s) \/ WaitOrdered(s)
    \/ CreateSnapshot(s) \/ Capture(s) \/ UnforceCow(s) \/ SnapUnlock(s)
    \/ \E f \in Files : Flushed(s, f) \/ OrderedWaited(s, f)

SnapNext ==
    \/ \E f \in Files : \/ WriteReserved(f) \/ Writeback(f) \/ FinishOrdered(f)
                        \/ WritebackError(f) \/ SwapDeactivate(f)
    \/ \E t \in Tasks : \/ TaskStep(t)
                        \/ \E op \in Operations, f \in Files : TaskLock(t, op, f)
    \/ \E s \in Snapshotters : \/ SnapStep(s) \/ SnapCall(s)
                               \/ FlushFailed(s) \/ CreateFailed(s)
    \/ DeleteSubvolume \/ DeleteFailed

SnapSpec == SnapInit /\ [][SnapNext]_vars

(* Dirty data is written back, I/O ends, tasks run.  A snapshotter passes  *)
(* over a file although it may get dirty again at once, and gets the two   *)
(* mutexes although others take them again and again.                      *)
SnapFairness ==
    /\ \A f \in Files : WF_vars(Writeback(f)) /\ WF_vars(FinishOrdered(f))
    /\ \A t \in Tasks : WF_vars(TaskStep(t))
    /\ \A s \in Snapshotters : SF_vars(SnapStep(s))

FairSnapSpec == SnapSpec /\ SnapFairness
-----------------------------------------------------------------------------
Stages == {"clean", "dirty", "check", "tocow", "rocow", "tonocow", "cow", "nocow"}
SnapSteps == {"idle", "lock", "flush", "flushing", "wait", "waiting", "create",
              "captured", "uncow", "unlock"}
TaskSteps == {"idle", "nocow", "write", "expand", "swap", "walk", "unlock", "leaked"}

(* Type invariant; snapshot_force_cow and nr_swapfiles never go negative,  *)
(* whichever of the error paths are taken.                                 *)
SnapTypeOK ==
    /\ inA \subseteq Snapshotters /\ inB \subseteq Tasks
    /\ snap \in [Snapshotters -> SnapSteps]
    /\ todo \in [Snapshotters -> SUBSET Files]
    /\ due \in [Snapshotters -> SUBSET Files]
    /\ task \in [Tasks -> [at : TaskSteps, file : Files]]
    /\ file \in [Files -> [stage : Stages, reserved : BOOLEAN, shared : BOOLEAN,
                           owed : BOOLEAN, swap : BOOLEAN]]
    /\ forceCow \in Nat /\ swapfiles \in Nat /\ dead \in BOOLEAN

(* "Force new buffered writes to reserve space even when NOCOW is possible *)
(* ... to avoid later writeback to fallback to COW mode and unexpectedly   *)
(* fail with ENOSPC" (ioctl.c:1022): snapshots never make data that was    *)
(* written without a reservation fall back to COW, neither while they      *)
(* force it nor by sharing the extent afterwards.  Only a read-only block  *)
(* group may (stage "rocow"): there fallback_to_cow() overcommits the      *)
(* space (inode.c:1766).                                                   *)
CowIsReserved ==
    \A f \in Files : file[f].stage = "tocow" => file[f].reserved

Captures(s) == snap[s] = "create" /\ snap'[s] = "captured"

(* A snapshot holds everything that was written before the call            *)
(* ("All previous writes have started writeback", ioctl.c:1034).           *)
SnapshotHasEarlierWrites ==
    [][\A s \in Snapshotters : Captures(s) => due[s] = {}]_vars

(* "if the snapshot captures this expanding truncation, it must capture    *)
(* all writes that happened before this truncation" (inode.c:5022).        *)
SnapshotHasTruncatedWrites ==
    [][\A s \in Snapshotters :
         Captures(s) => \A f \in Files : ~file[f].owed]_vars

(* "We do not want to race with snapshot creation" (inode.c:11396): swap   *)
(* writes in place, so no snapshot shares the extents of an active swap    *)
(* file.                                                                   *)
SwapNotShared == \A f \in Files : file[f].swap => ~file[f].shared

(* "the current reader will be woken up when the last active writer        *)
(* finishes its jobs" (locking.c:375): a snapshot gets the lock and ends,  *)
(* also while the subvolume is marked dead and unmarked, unless a swap     *)
(* file activated meanwhile left with the write side of the lock.          *)
SnapshotReturns ==
    [](\A t \in Tasks : task[t].at # "leaked")
        => \A s \in Snapshotters : snap[s] = "lock" ~> snap[s] = "idle"
=============================================================================
