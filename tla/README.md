# A TLA+ model of the btrfs MFS filesystem

This directory is a verification project for `btrfs_mfs_v4.3`, a Linux btrfs
changed into a *multi-filesystem* (MFS): one NVMe device is cut into
`BTRFS_SUPER_INFO_COUNT` = 64 partitions (`fs.h:30`), each with a btrfs of its
own, all mounted together behind one mount point.  A file created in a
directory of one filesystem is placed on any of the 64; the directory keeps a
*shadow* of it.

Paths below are relative to `btrfs_mfs_v4.3/` unless they name another
directory.  `btrfs_mfs_v4.2/` and `dfspace_ddalloc2_dupdate_percoreOrdered/`
are earlier variants of the same code; `lockfree_ring_buffer/`,
`pcpu_rbtree/`, `MergeSorting/`, `calclock/` and `commons/` are small separate
utilities.  The repository's own README only tells how to run the benchmarks,
so every definition here is read from the code.

## 1. Inventory

| Component | State it keeps | Operations | Hard behaviour |
|---|---|---|---|
| transactions (`transaction.c`) | `running_transaction`, `generation`, `trans_list`, per transaction: state, `num_writers`, `num_extwriters`, `use_count`, `aborted`, `pending_ordered`; `last_trans_committed`, `super_for_commit` | start, join, attach, barrier, end, commit, async commit, wait, abort, cleanup | any number of tasks; commits that overlap; errors at every phase; crash |
| transaction kthread (`disk-io.c:1527`) | the transid it saw | commit periodically; after an error tear transactions down | races with committers and waiters |
| tree log (`tree-log.c`) | log trees, `log_transid`, `tree_log_mutex` | `btrfs_sync_log`, logging an inode, replay | writes the same super block as the commit; batching; crash |
| ordered extents (`ordered-data.c`) | per-inode tree of pending I/O, `pending_ordered` | add, finish, wait, remove | completion callbacks against fsync and commit |
| MFS namespace (`inode.c`, `delayed-inode.c`) | `global_create_count`, shadow/remote inode pairs, `index_cnt` of two directories, their delayed index items | create, lookup, unlink, mkdir, readdir | one operation on two filesystems, without a common lock |
| MFS mount (`super.c`) | `global_fs_info_list[64]`, 64 super blocks | mount, second mount, unmount | failure in the middle of the loop; stale list |
| DREW lock (`locking.c`) | `readers`, `writers`, two wait queues | try/lock/unlock for both sides | store-then-check on both sides, lost wake-ups |
| snapshots of a subvolume (`ioctl.c:1012`) against its writers (`file.c`, `inode.c`) | `snapshot_lock`, `snapshot_force_cow`, `nr_swapfiles`, the lists of delalloc inodes and ordered extents | make a snapshot, NOCOW write, expanding truncate, activate a swap file, writeback | one lock, one counter and two lists together keep a snapshot consistent; checks made long before they are used |
| space reservation (`space-info.c`, `block-rsv.c`, `delalloc-space.c`) | `bytes_may_use` and others, ticket lists, block reserves | reserve, migrate, refill, release, flush | tickets granted out of order, waiters, exhaustion |
| delayed references (`delayed-ref.c`) | heads and refs per extent | add, merge, run | order of merge and run |
| delayed inode items (`delayed-inode.c`) | delayed nodes and their items | insert, delete, commit, worker | life time of a node shared by worker and commit |
| worker threads (`async-thread.c`) | ordered work list, thresholds | queue, run, finish in order | ordered completion of unordered work |
| tree modification log (`tree-mod-log.c`) | log of changes with sequence numbers | log, rewind, drop | readers of old versions |
| extent maps, extent io trees | interval maps | add, merge, split, set/clear bits | interval arithmetic |
| block groups, free space, discard | lists, counters, bitmaps | allocate, discard, cache | background work against unmount |
| B-trees, devices, raid56, scrub, send, qgroups, relocation, compression, sysfs | | large data and I/O | | not modelled, see 12 |
| ring buffer, per-CPU rbtree, per-CPU lists and merge sort (separate directories) | lock-free list, per-CPU trees | produce, consume, merge | memory order, capacity |

How they interact: everything that changes metadata runs between
`btrfs_start_transaction` and `btrfs_end_transaction`, so the transaction
component is called by all others and its commit calls most of them.  fsync
either writes the tree log or commits.  The tree log and the commit share
`super_for_commit` and the device's super block under `tree_log_mutex`; an
ordered extent logged by fsync is charged to the running transaction, whose
commit waits for it.  An MFS create runs a transaction on the local filesystem
for the shadow and one on the remote filesystem for the file, one after the
other.

What makes each correct: see section 3 for the transactions; for the
namespace, that a directory index is used once, that what is linked is listed
and the other way round, and that placement visits every filesystem in turn; for
the mount, that the list holds exactly the live filesystems, whatever failed;
for the DREW lock, exclusion of the two sides and no lost wake-up; for snapshots, that they hold all that was written before them
and nothing that comes later; for reservations, that what is granted never exceeds the space
and that every ticket is answered; for delayed references, that merging never
changes the net count; for the ordered work queue, that completions follow the
order of submission, each once.

The hazards, each with its line, are listed in `PROJECT.json`.

## 2. Modules

| Module | Models | Section | Runs | Proofs |
|---|---|---|---|---|
| `Transaction` | the life of a transaction, its failures, log syncs, the kthread | 3 | `trans_calls`, `trans_log`, `trans_abort`, `trans_live` | `TransactionInvariants`, `TransactionCoreProofs`, `TransactionOrderProofs`, `TransactionDurableProofs` |
| `CommitOrder` | what transactions promise: epochs made stable in order | 3 | refined in `trans_log` | refinement proved |
| `DrewLock` | the double-reader-writer-exclusion lock | 4 | `drew` | `SnapshotLockProofs` |
| `GroupLock` | what that lock promises | 4 | refined in `drew` | refinement proved |
| `Snapshot` | snapshots against writers of the subvolume, on `GroupLock` | 5 | `snap` | `SnapshotLockProofs` |
| `MfsNamespace` | create, lookup, unlink over the partitions, with the delayed index items of directories | 6 | `mfs_create`, `mfs_unlink` | `MfsNamespaceProofs` |
| `MfsMount` | mount and unmount of all partitions | 7 | `mfs_mount` | `MfsMountOverlap`, `MfsMountProofs` |
| `SpaceTickets` | reservation tickets of a space_info | 8 | `space_safe`, `space_live` | `SpaceTicketsProofs` |
| `OrderedQueue` | the work queues | 9 | `workers` | `OrderedQueueProofs` |
| `OrderedService` | what a work queue promises | 9 | refined in `workers` | refinement proved |

The `MC*` modules instantiate them for TLC.  The components meet at these
points: `Snapshot` instantiates `GroupLock` and so builds on what is proved of
the lock; the flushes of `SpaceTickets` end in transaction commits and behave
towards a caller as `Transaction` shows (a commit that fails leaves the
filesystem aborted and frees nothing; the barrier may return without having
committed); a create of `MfsNamespace` uses the list that `MfsMount` keeps
(`ListIsMounted`) and takes its two transactions as atomic steps.

What would come next, in this order: the batching of log commits
(`log_transid`, `log_commit[]`) around `SyncLogLock` and `SyncLogSuper`; delayed
references; the life time of delayed nodes; the pure algorithms (rewinding the tree
modification log, merging and splitting extent maps, the ring buffer, the merge
of per-CPU lists) against a reference definition; `JOIN_NOLOCK` handles, nested
handles and `close_ctree` in Transaction.

## 3. Module Transaction

### State

| TLA+ | code |
|---|---|
| `running`, `generation`, `listed` | `fs_info->running_transaction` (a transid, 0 for NULL), `generation`, `trans_list` |
| `tx[i].state/writers/ext/use/aborted/pending` | `struct btrfs_transaction`: `state`, `num_writers`, `num_extwriters`, `use_count`, `aborted`, `pending_ordered` |
| `fsError` | `BTRFS_FS_ERROR(fs_info)` |
| `superForCommit`, `disk` | generation and log root of `super_for_commit` and of the super block on the device |
| `written` | transactions all of whose tree blocks are on the device |
| `treeLogMutex` | owner of `tree_log_mutex` |
| `ordered` | the transaction that one logged ordered extent was charged to |
| `proc[p]` | a task: control point `pc`, handle (`type`, `tx`, `fsync`), pointers with a reference (`ref`, `wtx`, `pin`), the transaction it tears down (`doom`), what follows (`cont`, `then`) |

`listed` is a set: transactions are appended in transid order under the lock,
so the set ordered by transid is the list.

### Steps

A step is one critical section of `trans_lock`, or one unlocked access that
another task can tell apart.  The actions follow the code's functions:

* `start_transaction`: `StartRequest`, `StartEntry`, `WaitCurrentTrans`,
  `CurrentTransUnblocked`, `JoinTransaction`, `NewTransaction`, `Joined`,
  `NothingToJoin`.  `join_transaction` drops the lock to allocate and looks
  again (`NewTransaction`); `Joined` is the unlocked read of
  `running_transaction` afterwards.
* `__btrfs_end_transaction`: `EndRequest`, `EndTransaction`, `EndPut`.
* `btrfs_wait_for_commit`, `wait_for_commit`: `WaitRequest`, `FindCommit`,
  `CommitReached`, `WaitForEarlier`, `Waited`, `Acknowledge`.
* `btrfs_commit_transaction`: `CommitRequest`, `CommitEntry`, `CommitPrep`,
  `PrevCommitted`, `DropExtwriter`, `NoExtwriters`, `NoPendingOrdered`,
  `NoOtherWriters`, `CommitDoing`, `CommitUnblock`, `WriteBlocks`,
  `WriteSuper`, `CommitFinish`, `CommitUnlist`, `CommitPut`.
* `btrfs_commit_transaction_async`: `CommitAsyncRequest`, `AsyncCommitStarted`.
* errors: `AbortRequest`, `AbortTransaction`, `HandleFsError`, and
  `cleanup_transaction` as `CleanupLock`, `CleanupWait`, `CleanupUnlist`,
  `CleanupOne`, `CleanupDone`.
* the kthread: `KthreadAttach`, `KthreadAttached`, `KthreadError`,
  `KthreadScan`, `KthreadDrain`.
* the tree log: `SyncLogRequest`, `SyncLogLock`, `SyncLogSuper`; ordered
  extents: `ChargeOrdered`, `OrderedComplete`.

A write can fail before or after it reached the device (`WriteSuper`,
`SyncLogSuper`): both outcomes of `disk'` are allowed.  A crash needs no action
of its own: what it would find is `disk` and `written`, and the crash properties
hold of these in every state.

What is abstracted: the contents of trees (a transaction's blocks are one
element of `written`); the timing of the kthread and `BTRFS_FS_COMMIT_TRANS`
(it may look at any time); the lookup of an ordered extent's transaction and the
decrement of its counter are one step; `btrfs_wait_for_commit`'s unlocked check
of `last_trans_committed` is one step with its search of the list; the file
system has one device.  Past `MaxTrans` the allocation of a transaction fails,
as the code's `-ENOMEM` does.  Once the filesystem has an error no transaction's
blocks count as written (`MetadataWritable`): `btree_write_cache_pages` reports
an error then, whatever became of the blocks it submitted (`extent_io.c:1975`).

### Properties

| Property | What it says |
|---|---|
| `TypeOK` | types; states stay in the enum |
| `WritersAreHandles` | `num_writers` and `num_extwriters` are exactly the open handles (of external type) of every transaction on the list |
| `CommitIsAlone` | between the wait for writers and `UNBLOCKED` no other task has a `START`, `ATTACH`, `JOIN` or `JOIN_NOSTART` handle on the committed transaction; of `JOIN_NOLOCK` handles nothing is claimed |
| `RefcountExact` | `use_count` is the number of pointers held, over every path that takes or drops one |
| `CommitterKeepsList` | the kthread's teardown and a committer never have the same transaction (the `BUG_ON` in `cleanup_transaction`) |
| `BlocksBeforeSuper` | the super block on the device never points to blocks that are not there |
| `LogFollowsSuper` | the log that a crash would replay belongs to the transaction after the super block's |
| `CommitReturnIsDurable` | a commit that returned 0, to winner or waiter, is on disk |
| `BarrierMeansOnDisk` | when the attach barrier found nothing to join, what existed at the call is on disk |
| `OrderedIsCharged` | the ordered extent is discharged to the transaction that was charged |
| `CommitsInOrder` | the transactions implement `CommitOrder` |
| `CallsReturn` | every call returns |
| `RunningIsCommitted` | the kthread sees to it that no transaction stays open for ever |

`CommitOrder` is the promise of the component: epochs opened one at a time,
closed, and made stable in order, all at once, never after they were lost.  The
mapping reads an epoch's number from `running` and `generation`, stability from
the super block on the device, loss from `aborted`.

### Runs

All constants are small sets of model values; `Symmetry` permutes the tasks and
is used only in runs without liveness.

| Run | Instance | Shows |
|---|---|---|
| `trans_calls` | 2 tasks and the kthread, 2 transactions, all entry points, no faults | counters, exclusion, barrier: three processes let one commit, one hold a handle and one try to join |
| `trans_log` | 2 tasks, 3 transactions, log syncs, faults | crash consistency and the refinement: three transactions let one fail, the next overlap it, and a third log on top |
| `trans_abort` | 2 tasks and the kthread, 3 transactions, starts only, faults | references, cleanup races, no false success, no super block over missing blocks: a third transaction overlaps one that failed behind a torn down one |
| `trans_live` | 1 task and the kthread, 2 transactions, log syncs, barriers, faults | every call returns, and the running transaction is committed or torn down |

Why these bounds are enough for the questions: at most two commits overlap (a
commit starts when the previous one is at least `SUPER_COMMITTED`), so two
transactions show every overlap and a third what it leaves behind; a pair race
needs two tasks, exclusion with a bystander three, and the teardown of the
kthread adds itself.  `trans_abort` has only `TRANS_START` handles to leave room
for the third transaction.  In `trans_live` the kthread is the second process: it
commits and tears down while the task calls.  The bounds are `MaxTrans`, the number of tasks, one
ordered extent at a time.  TLC checks deadlock in every run: tasks can always
start another call.

### Fairness

`FairSpec` assumes weak fairness of `Proceed(p)` for every task (a runnable
task runs; its wait ends once its condition holds, since every change of a
waited-for condition is followed by a wake-up), weak fairness of
`OrderedComplete` (I/O completes), and strong fairness of
`LogLocks(p)` (a waiter for `tree_log_mutex` gets it in the end: kernel
mutexes hand over to the first waiter) and `Release(p)` (the holder of a handle
does not log for ever but ends or commits).  Starting calls and failures are not
fair.

## 4. Modules DrewLock and GroupLock

The double-reader-writer-exclusion lock (`locking.c:315-393`) keeps snapshots
(read side, `btrfs_mksnapshot`) and NOCOW writes or expanding truncates (write
side) of a subvolume apart.

| TLA+ | code |
|---|---|
| `readers`, `writers` | the two atomic counters of `struct btrfs_drew_lock` |
| `sleeping` | tasks on `pending_readers` (readers) or `pending_writers` (writers) |
| `at[p]` | the next atomic operation of task `p` in the lock's functions |
| `Blocking` | the writers that call `btrfs_drew_write_lock`; the others try once |

A step is one atomic operation on a counter or a wait queue, executed in program
order.  That is what the code's barriers provide: a task that stores to one
counter and then loads the other (`locking.c:343-347`, `371-382`), or stores and
then looks at a wait queue (`cond_wake_up`, `atomic_dec_and_test`), has a full
barrier between the two.  `wait_event` is modelled in full (`WaitTest`, `Queue`,
`WaitRetest`, `Awake`), so a wake-up may fall between any two of its steps;
finding the queue empty and waking nobody is the same as waking all of an empty
queue, hence `cond_wake_up` is one step (`WakeSide`).

* `LockTypeOK`: the counters never go below zero; each failing path gives back
  exactly what it counted.
* `IsGroupLock`: the lock implements `GroupLock`, whose state is the set of
  holders of each side; a task may enter only while the other set is empty.
* `WaitersGetLock`: a reader gets the lock however writers come and try; once
  readers stay away, a blocking writer gets it (with readers coming for ever it
  need not: "more priority to reader").

Run `drew` has two readers, two blocking writers and a trying one: a reader
racing two writers of which one yields while the other holds, and a second
reader that comes late.  Fairness is weak fairness, for each task, of
`Advance(p) \/ Unlock(p)`: a task inside the lock's code is scheduled, and a
holder gives the lock back (a snapshot waits for writeback, which completes; a
NOCOW write is finite).  Asking for the lock is not fair.

## 5. Module Snapshot

`btrfs_mksnapshot` against everything that takes the write side of
`snapshot_lock`, on one subvolume.  It composes with `GroupLock`
(`SnapshotLock == INSTANCE GroupLock WITH A <- Snapshotters, B <- Tasks`), which `DrewLock` is
proved to implement: what is learned about the lock is used here and the
counters and wait queues are not repeated.  Two things `GroupLock` does not say
are added: a writer does not enter while a reader is counted, waiting ones
included (`NoSnapshotter`), and readers may enter together.

| TLA+ | code |
|---|---|
| `inA`, `inB` | who holds the read and the write side of `root->snapshot_lock` |
| `snap[s]`, `todo[s]` | place of a snapshotter in `btrfs_mksnapshot`; the inodes of `start_delalloc_inodes` or the ordered extents of `btrfs_wait_ordered_extents` it still waits for |
| `task[t]` | place and file of a NOCOW write, an expanding truncate or `btrfs_swap_activate`; the inode of a task that is not idle is locked |
| `file[f].stage` | where the data of the file is: clean, dirty, in `run_delalloc_nocow` before and after the look at `snapshot_force_cow` and at the block group, or in a COW or NOCOW ordered extent |
| `file[f].reserved`, `shared`, `swap` | the data is not `EXTENT_NORESERVE`; a snapshot has the same extent; it is an active swap file |
| `forceCow`, `swapfiles`, `dead` | `snapshot_force_cow`, `nr_swapfiles`, `BTRFS_ROOT_SUBVOL_DEAD` |
| `due[s]`, `file[f].owed` | history: data older than the call of `s`, or than a truncate, that is not in the tree yet |

Actions: buffered writes (`WriteReserved`; `TaskLock`, `NocowCheck`,
`NocowWrite`, `TaskUnlock` when no space can be reserved), writeback
(`StartWriteback`, `CheckForceCow`, `AddOrderedExtent`, `FallbackToCow`,
`WritebackError`),
ordered completion (`FinishOrdered`), `Expand`, `SwapCount`, `SwapWalk`,
`SwapDeactivate`, `DeleteSubvolume`, `DeleteFailed`, and for the snapshot
`SnapCall`, `SnapLock`, `StartDelalloc`, `Flushed`, `FlushFailed`, `ForceCow`,
`WaitOrdered`, `OrderedWaited`, `CreateSnapshot`, `Capture` (the commit's
`create_pending_snapshot`), `CreateFailed`, `UnforceCow`, `SnapUnlock`.  Each
error return of these functions is a disjunct.

Scrub and relocation make the block group of an extent read-only at any time, so
each look at it (`btrfs_inc_nocow_writers`, `inode.c:2107`;
`btrfs_extent_readonly`, 7888) may find it so: a nondeterministic choice.
`fallback_to_cow` then adds the bytes of unreserved data to `bytes_may_use`,
whether there is room or not (1766-1796), and clears `EXTENT_NORESERVE`
(`FallbackToCow`).

What is abstracted: a file is one extent; the reference check, the generation
check and the csum check of `can_nocow_file_extent` are one fact, `shared`;
failing to look up or allocate are the error disjuncts; after a COW write has
replaced an extent it is not shared, and the last snapshot is never deleted.
`btrfs_swap_activate` writes the file out before it takes the lock, under the
inode lock: the guard of `TaskLock`.  Left out are direct I/O, page faults,
`btrfs_truncate_block`, holes, reflinks and defragmentation (`should_nocow`).

| Property | What it says |
|---|---|
| `SnapTypeOK` | types; the two counters never go negative on any error path |
| `CowIsReserved` | a snapshot never makes data that was accepted without a reservation fall back to COW (`ioctl.c:1022`): with stage `tocow`, forced by a snapshot or because the extent is shared, the data is reserved.  A read-only block group may (`rocow`) |
| `SnapshotHasEarlierWrites` | at capture nothing that is older than the call is missing from the tree |
| `SnapshotHasTruncatedWrites` | at capture no expanding truncate is in the tree before data older than it (`inode.c:5022`) |
| `SwapNotShared` | no snapshot shares an extent with an active swap file |
| `SnapshotReturns` | a snapshot gets the lock and ends, unless a swap activation left with the lock (section 10) |

Data "in the tree" includes data lost with a reported error: the filesystem can
do no more for it.

Run `snap` has two snapshotters, two tasks and one file with every operation and
a deletion that may fail: a snapshot that finds the counter raised and the lists
in the hands of another one, a swap file activated while another task's write
is under way, an expanding truncate between a write and its writeback.  Nothing
is counted without bound, so no further bound is needed.  An instance with one
snapshotter, two tasks and two files (574,378 states; a file in writeback while
the other is flushed) satisfies the same properties and is not kept as a run.

Fairness (`FairSnapSpec`): weak fairness of writeback and of ordered completion
of each file (the flusher and the device make progress) and of each task inside
an operation.  Strong fairness of the steps of a snapshotter: it takes
`delalloc_mutex` and `ordered_extent_mutex`, which other snapshotters take again
and again and which are handed to the first waiter, and it passes over an inode
once its writeback has been seen through, though the inode may get dirty again
at once (`WB_SYNC_NONE` makes one pass).  Calls and errors are not fair.

## 6. Module MfsNamespace

What happens to two directories of two filesystems when files are created and
removed (`inode.c`).  The directories that users see live on partition 0.
`btrfs_create_mfs` counts up `global_create_count` and takes the count modulo
the number of partitions.  Partition 0 means an ordinary create.  Any other
one: link a *shadow* inode into the directory of the caller, then a second
inode of the same name into the root directory of the remote filesystem.

| TLA+ | code |
|---|---|
| `created`, `task[t].n` | `global_create_count`; what `atomic_read` returned to a create |
| `placed` | history: what the creates read, in the order in which they read it |
| `counter[d]` | `index_cnt` of the inode of a directory, `NotLoaded` for `(u64)-1`; numbers wrap at `Width` |
| `items[d]` | the dir index items of the directory that are in the tree |
| `node[d]` | its delayed node: `ins_root`, `del_root`, `index_cnt`; it may outlive the inode of the directory |
| `names[r]` | the dir items of a remote root directory |
| `file[f].linked`, `ref`, `cached` | the path has a (shadow) inode; the index in its inode ref; `dir_index` of the inode in memory |
| `file[f].dentry` | the dentry cache: absent, plain, or with `associated_dentry` |
| `aborted[d]` | a link, an unlink or a flush ran into a number or a name that is taken, which aborts the transaction of the directory's filesystem |
| `task[t].pc` | where a create is: the two accesses to the count, the path of the remote dentry, the shadow, the two steps on the counter, the remote link |

Who is locked out matters here.  The VFS locks the directory of the caller
(`DirFree`).  The remote root directory is locked by nobody:
`kern_path_create(AT_FDCWD, name)` locks the *current directory* of the caller
until `done_path_create` (`CwdFree`).  Hence `SetIndex` and `CountRemote`, the
load and the store of `dir->index_cnt++` in `btrfs_set_inode_index_mfs`, are two
steps, and the compiler may or may not load the counter again in between.
`Unlink`, `CreateCall` and the links are one step each: they run under the lock
of the caller's directory and in one transaction.

Index items are delayed (`delayed-inode.c`).  A link queues the insertion
(`QueueItem`, which also moves the node's `index_cnt` past the number) and
fails if the number is queued already (`Pending`); whether the tree has it
(`InTree`) is only found by the flush.  `Unlink` drops an insertion that is
queued under the number it takes from `dir_index`; else it queues the deletion
of that number, which for a shadow is one that no item has, or not its own.
`InsertDelayed` and `DeleteDelayed` are one item of a flush.  A flush does the
insertions first, then the deletions, in the order of the numbers and with the
node's mutex given up in between; several workers and the commit may be at it,
one behind the other, so the model allows either step at any time.  `EvictDir`
forgets the counter in the inode and may leave the delayed node, with what is
queued in it, behind; `Loaded` then takes the counter from the node, or from the
tree (`FirstFree`), which does not know of what is queued.

External is the VFS: its locks, the dentry and inode caches (`DropDentry`,
`EvictInode`, `EvictDir`, `Remount`), which the code relies on through
`index_cnt` and `dir_index`.

| Property | What it says |
|---|---|
| `NamespaceTypeOK` | types; in particular the counters stay in range when they wrap |
| `IndexFree` | in a caller's directory a number is never handed out twice, though two functions count, unlink deletes under other numbers and the counter is read again from a node or a tree with deletions to come; so no insertion, flush or deletion finds its number taken, and what is queued is above all that is in the tree, as `delayed-inode.c:667-674` takes for granted.  Nor in a remote root directory within one mount *if all tasks have the same current directory*, whose lock is all there is.  Not claimed of `tainted` directories |
| `LinkedIsListed` | a linked file is found by reading its directory, now and after any flush: its item is in the tree and not about to be deleted, or queued (`Listed`).  Not claimed of `tainted` directories |
| `SpreadIsBounded` | the rotation over the partitions lags by no more than the creates of the other tasks |
| `ListedIsLinked` | what is listed is linked (violated, section 10) |

The history variables `tainted` and `remounted` mark what the properties must
leave out because the code fails there (section 10): directories whose counter
was wrapped because a shadow could not be linked; those whose counter was read
again behind a number that the unlink of a shadow has deleted or will delete
(`Phantoms`); and remote roots whose counter was read from the tree behind items
that were still queued.

Run `mfs_create`: two tasks with one current directory, two partitions, one path
in each of two directories, both of the same name; three placed files; three
events (a link that fails for want of space or memory, an unlink, an eviction of
a directory, a remount).  1.2 million states.  Two tasks and two partitions are
what a pair of creates in different directories with one remote root needs;
three creates let a third one meet what the first two left, on either partition;
an unlink, an eviction and one event more is what it takes to give a number out
again that a deletion waits for; same names in two directories meet in the
remote root.  `Width` is 16 so that numbers wrap only where the code increments
-1.  The bounds are `MaxCreates`, `MaxEvents` and `Width`; a run ends when they
are used up, so deadlock is not checked.  No fairness is assumed.

## 7. Module MfsMount

`btrfs_mount_root` opens the filesystems of all partitions, from the last to the
first, into `global_fs_info_list`, an array without a lock; unmounting partition
0 takes the others down (`super.c`).

| TLA+ | code |
|---|---|
| `list` | `global_fs_info_list` |
| `info[i]` | an fs_info: allocated or freed, `sb` (set by `init_mount_fs_info` in `open_ctree_partition`), whether `fs_devices` is set |
| `super[s]` | a super block: its state in the VFS, `s_root`, `s_fs_info`; `"locked"` while `s_umount` is held |
| `task[t]` | the place in the loop of a mount, or in the loops of `btrfs_kill_super` and `btrfs_umount_multiple` |

One iteration is the steps `Alloc`, `OpenDevices`, `Sget` and `Fill`, each with
its failure (`AllocFails`, `OpenFails`, `SetupBdiFails`, `OpenCtreeFails`).
`Oops` ends a task that follows a null or freed pointer.  Only partition 0 is
handed to the VFS, which unlocks it; the other super blocks keep their
`s_umount`.  So a mount that finds
one waits in `sget` for a lock that nobody gives back.  The branch for a super
block that is mounted frees the entry of the array, whichever fs_info that is;
it runs for partition 0 only, and `InfoOutlivesSuper` fails if the entry can be
another task's.

| Property | What it says |
|---|---|
| `MountTypeOK` | types; an entry of the array is of its partition |
| `InfoOutlivesSuper` | with two tasks, no fs_info is freed while its super block is in use, whatever fails |
| `ListIsMounted` | while partition 0 is mounted, every entry of the array is the fs_info of a mounted super block of its partition; the dead entries that unmounts leave are replaced before they are followed |
| `NothingLeft` | neither an unmount nor a failure at partition 0 leaves a super block of another partition |

The last two are stated of `Orderly` histories: no mount overlapped with
another one or with a mounted device, and only the opening of partition 0
failed.  Section 10 lists what happens otherwise.

Run `mfs_mount`: two tasks, two partitions, four mounts and two failures.  Two
partitions are the least where `sget` can find a mounted super block (two tasks
wait to open the last partition while the super block that locked it is taken
down, and one of them takes the mounted super block of partition 0); with four
mounts two of them meet what two earlier ones left.  Bounds: `MaxMounts`, `MaxFaults`.  A task that waits in
`sget`, or has followed a bad pointer, may leave nothing to do: deadlock is not
checked.  No fairness is assumed.

## 8. Module SpaceTickets

Reservations of one space_info, for metadata or for data (`space-info.c`).

| TLA+ | code |
|---|---|
| `space` | `struct btrfs_space_info`: `total_bytes`, `bytes_pinned`, `bytes_may_use`, `full`, `flush`, `reclaim_size`, `tickets`, `priority_tickets` |
| `ticket[t]` | `struct reserve_ticket` on the stack of task `t`, and the bytes it asked for |
| `worker` | `btrfs_async_reclaim_metadata_space` or `btrfs_async_reclaim_data_space`: flush state, `commit_cycles` |
| `progress` | `tickets_id` differs from the worker's `last_tickets_id` |
| `global` | `global_block_rsv.reserved` |
| `dirty` | what delayed items, delayed references and delalloc hold of `bytes_may_use` |

A step is one critical section of `space_info->lock`, except that
`maybe_fail_all_tickets` takes a step per ticket while others are kept out
(`Unlocked`).  `Granted` is `btrfs_try_granting_tickets` as a function: the
longest prefix of the priority queue, then of the normal one, that fits, with
overcommit.  It is part of every action whose code calls it.  Reservations take
all the flush modes their kind of space allows; `ReserveTicket` queues the
worker; `WaitReserveTicket`, `Killed`, `PriorityGranted`, `PriorityNext`,
`PriorityFlush`, `PriorityEnds` are what a waiting or self-flushing task does;
the other actions are the worker's, each look under the lock an action of its
own.  A flush may fail, free the bytes, or turn them into pinned extents that a
commit unpins, after it has filled the global reserve (`Refill`).

What is abstracted: bytes are small numbers; what is flushed is one amount, not
one per kind; of the free space outside block groups half, or an eighth with
`FLUSH_ALL`, counts as available, as in the code with one device; reserved,
used and read-only bytes are part of `total`; the tenth of the global reserve
that may not be stolen rounds to 0.  The bytes of the tickets of a queue are
counted one by one, as the cardinality of a set (`Bytes`), which is what the
proofs need.

| Property | What it says |
|---|---|
| `SpaceTypeOK` | types; no counter goes below zero, the global reserve does not exceed its size, a ticket is on one queue once |
| `MayUseExact` | `bytes_may_use` is exactly what tasks hold, delayed work and the global reserve; `reclaim_size` what queued tickets ask for |
| `TicketsAttended` | a waiting task is queued, and then the worker is queued or running; a ticket is answered once, off the queues and not granted and failed both (the assertions of `handle_reserve_ticket`) |
| `HeadDoesNotFit` | space that would do for the first ticket is never left unused, but after a kill or a steal (section 10) |
| `ReserveReturns` | a reservation returns, also when nobody gives anything back and the filesystem aborts; but for one (section 10) |

Run `space_safe`: two tasks, sizes 1 and 4 against a total of 2 that may grow to
6 by a chunk of 4, a global reserve of 1, three reservations: a large ticket in
front of a small one, either of which may be killed, fail, steal, or be granted
by a chunk, a commit, a release or a failing predecessor.  `space_live`: two
tasks, two requests of 4 bytes, with abort and without kills.  The bound is
`MaxRequests`; when it is used up and nothing is dirty the system stops, so
deadlock is not checked.

Fairness: weak fairness of the worker (queued work is executed) and of each
task's `Handle` (a woken or flushing task goes on).  Neither reservations nor
releases nor other flushers are fair: the answer must not depend on them.

## 9. Modules OrderedQueue and OrderedService

The work queues of `async-thread.c`.  An item has a function, which any worker
runs, and may have an *ordered* function, which must run in the order of
submission.  No thread is in charge of that: each helper that has finished an
item runs `run_ordered_work`, which serves the list from its head as long as
items are done, and frees them.  So helpers run and free each other's items.

| TLA+ | code |
|---|---|
| `stage[w]` | the memory of an item: free, on the ordered list but not queued yet, queued, taken by a worker |
| `list` | `wq->ordered_list` |
| `done`, `claimed` | `WORK_DONE_BIT`, `WORK_ORDER_DONE_BIT` |
| `helper[p]` | the worker that executes item `p`: place in `btrfs_work_helper` and `run_ordered_work`, the item in its hands, `free_self` |
| `job[w]`, `submitted`, `finished`, `served` | the number of the ordered call that queued the item, and history for the refinement |

A step ends where `list_lock` is released, a bit is set, or a function returns.
An item whose memory was freed may be allocated and queued again while the
helper that executed it is still in `run_ordered_work`; the kernel's workqueue,
which is external, does not execute an address while a helper started for it
runs (`Execute`).  Left out are the thresholds that adapt the number of workers;
`LimitActive` is any number in the proofs.

| Property | What it says |
|---|---|
| `QueueTypeOK` | types; an item is on the list at most once |
| `NoUseAfterFree` | no helper will touch freed memory, no two free the same item, nothing freed is listed |
| `ServesInOrder` | the queue implements `OrderedService`: one ordered function at a time, in order, each once and after its own function |
| `FlushFinishesAll` | when no helper runs and none is to be started, which is what `btrfs_flush_workqueue` waits for, nothing is left to serve or free |
| `EveryItemFreed` | every item is freed |

Run `workers`: three items, two workers, three ordered jobs and any number of
unordered ones; deadlock is checked.  Three items give a helper that serves
another's item, whose own item is served by a third, while freed memory is
queued again.  The bound is `MaxJobs`.  Fairness: weak fairness of
`btrfs_queue_work` going on and of each helper (work functions return), strong
fairness of `Execute` (the pool takes items in the order they come).

## 10. Where the code disagrees with its comments

One disagreement has a run, the one in the code that is new in MFS:

1. `mfs_unlink`: `btrfs_inode.h:194` says that `dir_index` caches "the directory
   index number to speed the dir/file remove".  For a shadow it does not:
   `btrfs_set_inode_index_mfs` overwrites it with the *next* number of the
   directory (`inode.c:6420`, argument at 6804) after the shadow was linked under
   its own.  `__btrfs_unlink_inode` (4111-4114, 4131) then queues the deletion of
   a number that no item has, and the item of the removed file stays in the
   directory.

The following were met while modelling.  The model reproduces each of them; the
properties above say precisely what they leave untouched.

2. Barrier: on `-ENOENT` from `btrfs_attach_transaction_barrier`
   `btrfs_sync_file` concludes that everything "made it to disk"
   (`file.c:2009`).  Without faults it did (`BarrierIsOnDisk`).  With an abort the
   blocking transaction may be taken off the list before the barrier looks, which
   then returns `-ENOENT`, and fsync returns 0.  In the same way a transaction
   that was torn down because an older one failed reaches `COMPLETED` without
   being marked aborted, and `btrfs_wait_for_commit` reports it as committed (962).
3. Two overlapping commits may assign `last_trans_committed` in the wrong order
   (`transaction.c:2547`), after which `check_dev_super` at thaw reports an
   unexpected generation (`super.c:2423`).
4. `btrfs_swap_activate` returns `-EPERM` for a subvolume that is being deleted
   without giving the lock back (`inode.c:11420-11427`); the next snapshot waits
   for ever, also when the deletion fails (4613-4618).
5. Writeback looks at `snapshot_force_cow` (`inode.c:1939`) and creates the
   ordered extent later (2164); for data dirtied after the flush the snapshot can
   raise the counter and list the ordered extents in between, and a write goes in
   place to an extent that the snapshot has captured, against `ioctl.c:1034`.
   Data written before the call is not affected (`SnapshotHasEarlierWrites`).
6. Namespace: `btrfs_set_inode_index_mfs` checks whether the counter of the local
   directory is loaded but loads that of the remote one (`inode.c:6409-6413`), so
   that -1 is handed out and incremented to 0 (`tainted`).  The deletion that the
   unlink of a shadow queues for a number of no item (finding 1) waits in the
   delayed node: a directory that is evicted meanwhile reads its counter again
   from the node or the tree, as the very number (`delayed-inode.c:1685-1691`);
   the next file is linked under it, and the flush inserts its item and then
   deletes it (1108-1126), so that a linked file is not listed any more
   (`tainted`).  In such a directory queued numbers may also lie on both sides of
   one in the tree, of which a batch checks only its first (647-811); the model
   inserts one by one and does not show that leaf.  A remote root whose
   counter is read for the first time through `btrfs_set_inode_index_mfs` gets it
   from the tree alone, behind what is queued (`tainted`).  After a remount the
   remote counter is not loaded when the local one is, and -1 is used for the
   remote directory (`remounted`).  With different current directories two
   creates may get one number (`IndexFree` needs the premise).  A create in the
   caller's own current directory locks it twice, in the VFS and in
   `kern_path_create`, and waits for itself (`NamespaceAssumption` excludes it).  Two files of
   one name in different directories cannot both be remote on one partition: the
   second link fails and aborts the remote filesystem's transaction.
   `kern_path_create` returning an error is recorded and then dereferenced
   (7246-7248), `associated_path` keeps the address of a local variable (7288),
   the result of linking the shadow is overwritten (7272, 7279), and
   `btrfs_unlink` reads `local_inode` uninitialised (4217-4220).
7. Mount: on a failure before `sget` a null fs_info is freed (`super.c:1519`,
   1620) and the super blocks of the partitions done so far stay locked for ever;
   a second mount of a mounted device replaces entry 63 of the array and then
   waits for ever in `sget`, so that creates use a filesystem that is not mounted;
   with three tasks an fs_info can be freed under its super block; the fs_infos
   of partitions 1 to 63 are never freed (2228-2250).
8. Space: a killed ticket at the head (`space-info.c:1475`) and a stolen one
   (1014-1015) leave the next ticket untried although it may fit, against the
   reasoning at 1028-1033 and 1418-1422; it may then fail with `-ENOSPC` though
   there is space; so does a block group that gets writable again
   (`block-group.c:2969-2972`), which is outside the model.  `FLUSH_DATA` reservations pass tickets that wait (1645-1649).
   `priority_reclaim_data_space` loops for ever on an aborted filesystem
   (1439-1447), and would on any other error of a forced chunk allocation that
   does not go away; `ReserveReturns` assumes that there is none but `-ENOSPC`
   (760-772).
9. Work queues: the hook that should "limit the calling frequency" of
   `workqueue_set_max_active` (`async-thread.c:178-185`) skips one call in
   `thresh/4` instead of making one.

Three comments of `transaction.c` are looser than they read: the winner of a commit
does not wait for the previous transaction "to completely finish" (line 64) when
it is an fsync, only for `SUPER_COMMITTED` (2254), and the check that is to
"prevent writing a new superblock that reflects a corrupt state" after an abort
(2276-2281) is made only when no earlier transaction is listed, so that it is
skipped while an older, finished one still is: it is the check at
`extent_io.c:1975` that keeps the promise; and the barrier, which "will
wait for all the inactive transactions until they fully complete" (841), stops
at the newest one when that is `COMPLETED` but still listed (950).

## 11. Proofs

**Transaction.**  Every invariant of Transaction and its refinement of
`CommitOrder` are theorems, for any finite sets of tasks and kthreads
(`FiniteProcs`), any `MaxTrans`, any choice of operations, with and without log
syncs and faults; only `BarrierIsOnDisk` assumes `~Faults`, as the property does
(section 10).  Except `TypeOK` none of these formulas is inductive.  The
invariants are in `TransactionInvariants`, TLC has checked them on the instances
of the runs, and they are proved in layers, each of which uses those below:

* Types (`TypeCorrect`).  The two records stay opaque: for each field a lemma
  says that setting it keeps the type, and one lemma per action combines them.
* `CoreInv` (`CoreInvariant`).  `Role` and `Target` reduce the control points to
  a dozen parts that a task can have in the life of one transaction.  A handle is on
  the running transaction; a transaction has at most one owner, the task that
  commits it or tears it down, and the owner's role bounds its state; a *sealed*
  one has no other user with a handle of the modelled types (section 12); every
  other listed transaction is unblocked;
  `num_writers` and `num_extwriters` are cardinalities.  Each action is one of
  seven kinds of step (`Stays`, `Joins`, `Opens`, `Leaves`, `Takes`, `MovesOn`,
  `Drops`), and each kind keeps `RoleInv`.  From it: `WritersCorrect`,
  `CommitAlone`, `KeepsList`.
* `PointerInv` and `OrderInv` (`BaseInvariant`, `TransactionOrderProofs`): which
  pointers are set at which point; a transaction that is past the wait for its
  predecessor finds all earlier listed ones `SUPER_COMMITTED`.  That it waits for one
  predecessor only and finds all of them settled is the induction over commits.  Most
  actions change nothing of what these layers read (`Calm`); the others are
  listed (`Special`) and treated one by one.
* `DiskInv` (`DiskInvariant`, `TransactionDurableProofs`): who has
  `tree_log_mutex`, what `super_for_commit` holds then, that the super block on
  the device is of the transaction just before the one about to be written, and
  that without an error nothing is forgotten.  From it: `SuperAfterBlocks`,
  `LogIsNext`.
* `WaiterInv` (`WaiterInvariant`): a transaction that looks settled is on the
  device, or aborted, or was torn down and its waiters will see the error.
  From it: `CommitReturn`, and `CommitsAreEpochs`, where each step is shown to be
  a step or a stutter of `CommitOrder`; the step that needs most is the abort,
  which has to lose an epoch that is not yet stable.
* `BarrierInv` (`BarrierIsOnDisk`): what the barrier knows of the transactions up
  to its goal at each of its points, as long as nothing fails.
* `OrderedInv` and the references (also in `TransactionOrderProofs`):
  `OrderedCharged` needs that a transaction past the wait for its external
  writers has none; for `RefcountCorrect` the pointers to a transaction are
  counted as cardinalities, one set for each kind of pointer.

Recursion and choice in the model are used without induction: that a finite set
of transactions has a largest element is proved from the interval it lies in.

**MfsMount.**  `MfsMountProofs` proves `MountTypeCorrect` for every run, and
`MountedList` and `NothingIsLeft`, for any tasks, partitions, mounts and
failures.  `IInv` says of an orderly history that at most one task is in
`btrfs_mount_root` or `btrfs_kill_super`.  A task in a mount (`Mounting`) has
completed the partitions above its own, all under its own number, and nothing
else is alive; one in a teardown (`Killing`) finds every entry of the array
settled to the mount it takes down, matches the first entry it looks at, has
deactivated the partitions above `part`, and after the loop only its own super
block is left.  When no task is in either (`Rest`), every live super block
belongs to a complete mount (`Whole`), whose super block of partition 0 is the
only one that the VFS has unlocked.  A mount may only begin in an orderly history
when nothing is mounted, so by `Whole` when nothing is alive: that is why dead
entries of the array are replaced before anybody follows them.

`InfoOutlives` is about two tasks that mount and unmount at the same time,
which fail anywhere, with any number of partitions and of mounts; its invariant
is `Overlap` in `MfsMountOverlap`.  `Base` relates the fs_infos, the super
blocks and the places of the two tasks; in it `Kept` is the property.  The
super blocks of partitions 1 to 63 stay locked, so only one task at a time gets
past the last partition (`OneBeyond`), and a task that waits in `sget` for
another one's super block has not.  `Order(t, u)` says how far a mount by `t`
and an unmount by `u` can have come together as long as neither task is stuck:
the super blocks that the unmount has yet to take down are all there (`Chain`),
and the mount has not come down to their partitions (`Above`); it says the same
of the unmounts that will begin (`Led`), and that what the mount has opened is
there (`Rising`).  Once a task is stuck (`Gone`) only `Base` is claimed, and
suffices.  Assumed is `MountAssumption`.

**MfsNamespace.**  `MfsNamespaceProofs` proves all four invariants of
`mfs_create`, for any finite set of tasks, any directories, paths, current
directories, partitions and bounds.  Besides types and locks `IInv` has three
parts:

* `CountInv`: the count of creates is the number of those that have read it and
  of those that have not; the k-th to read it finds at least k, and at most one
  more for each other task, because it counted itself before.  `SpreadIsEven`
  follows by counting: the creates that read 1 .. v are among the first v and
  include all but the last |Tasks| - 1 of these.
* `LocalInv(d)`, of a directory of partition 0 that is not in `tainted`: every
  number in use, in the tree or queued (`All`), is below the counter, and below
  `index_cnt` of the delayed node if that is set, which it is while anything is
  queued; so what `Loaded` gives after an eviction is past them as well
  (`InUse`, `Past`, `LoadedAbove`).  Numbers are used once, queued ones are above
  those in the tree (`Ordered`).  The numbers that unlink has deleted, will delete or
  would delete in place of a shadow's are below the counter while it is in memory
  (`Passed`), and a step that reads it back behind one of them taints the directory.  A
  linked file has its item, no deletion waits for its number, and no other file
  has that number in `dir_index` (`Known`).  That is why deleting under the wrong
  number is harmless, at once or later (`LinkedFilesAreListed`).  A create counts
  a directory up twice at most, so the counter stays below 2 + 2 `created`
  (`Below`) and never reaches the -1 that means "not loaded"; this is where
  `Width > 2 * MaxCreates + 4` is used.  `CacheInv` adds that a file has a number
  in memory while it has a dentry.
* `RemotesInv`, of the first mount, one current directory and the remote roots
  that are not tainted: one task at a time
  is past `kern_path_create` (`CwdInv`), and the number it holds is above all in
  use; -1 itself can be handed out as the first number of a remote root, after
  which the counter is 0 (`Fresh`), and giving a number back after a failure
  restores the counter exactly, also across that wrap (`MinusOne`).

Assumed is `NamespaceAssumption`: the bounds, that no directory of a caller is
the root of another partition, and that no current directory is one of them.

**DrewLock.**  `SnapshotLockProofs` proves, for any finite sets of tasks,
`LockTypeCorrect` and `DrewLockIsGroupLock == LockSpec => IsGroupLock`.  Neither
formula is inductive:
`LockInv` adds that each counter equals the number of tasks between their
increment and their decrement (`CountersCount`, by cardinalities; it makes the
counters natural numbers), that only writers are at the writers' steps, and the
exclusion of holders.  A reader enters when `writers = 0`, so no writer is
counted, so none holds; a writer enters when it finds `readers = 0` after having
counted itself, and symmetrically.  Assumed is only `SidesAssumption`: the two
sides are finite and disjoint (a task is on one side at a time).

**Snapshot.**  The same module proves the three invariants and the two action
properties of Snapshot, for any finite sets of snapshotters, tasks and files and any choice of
operations.  None of them is inductive.  `IInv` consists of

* `Counts`: `snapshot_force_cow` is the number of snapshotters between its
  increment and decrement, `nr_swapfiles` the number of active swap files and of
  tasks that walk one, as cardinalities;
* `Holders`: who is at which place holds which side of the lock, and one side is
  empty;
* `SwapInv`: `SwapNotShared`, and no swap file is active while a snapshot is
  about to be captured (the check of `nr_swapfiles` and the lock together);
* `NocowInv`: `CowIsReserved`; unreserved data lies on an unshared extent as long
  as it is dirty or in writeback, and a task that has checked its extent finds it unshared still, since
  it holds the lock;
* `OldInv`: the heart of it.  `Old(s)` is the data older than the call or than a
  truncate, and unreserved data.  It is always dirty or ordered; what of it is
  dirty is on the list that is being flushed; once the counter is raised none of
  it is dirty; then all of it is on the list that is being waited for; at the
  capture it is empty.  New members of `Old(s)` come only from tasks that hold
  the write side, and then no snapshotter is past the lock.

`InodeInv` (a task has its inode to itself) is proved alongside, since a swap
file counted twice would break `Counts`.  The proof has a lemma for each way
the record of a file changes, one for steps that only move data towards the
disk (`DataStep`), one for steps of a snapshotter (`SnapMove`, `SnapStay`) and
one for steps of a task (`TaskMove`); the actions are instances of these.
Assumed is only `SnapshotAssumption`.

**OrderedQueue.**  `OrderedQueueProofs` proves the three invariants of
OrderedQueue and that it implements OrderedService, for any finite set of items,
any number of workers and of jobs.  `IInv` adds to types and `NoUseAfterFree`:

* `ListInv`: the list holds the jobs `served + 1 .. submitted` in this order, and
  of these the finished ones are the done items; everything served is finished;
* `ItemInv`: a claimed item is done, and an item that no worker has taken is
  neither done nor, if it is ordered, off the list;
* `HelperInv`: what a helper knows where it is, above all that the item whose
  ordered function it runs is the claimed head of the list, and that an item it
  is about to free, its own or another's, is off the list.

The argument: `NoUseAfterFree` says that the items which helpers still use are
pairwise disjoint and taken.  A helper gets a new item only by claiming the head
of the list; the head is done, so its own helper is past its function and will
not touch it unless it is that helper's own; and it was unclaimed, so no other
helper has it.  From `ListInv` the claimed head is job `served + 1`, which is the
refinement.  `FlushIsComplete` needs more (`FlushInv`): a taken item is in use by
a helper or done and listed; a claimed head is being served; and if the head is
done and unclaimed, some helper is still going to look.  Assumed are only
`ItemsAssumption` and `JobsAssumption`.

**SpaceTickets.**  `SpaceTicketsProofs` proves `SpaceTypeCorrect`,
`ReservationsAdd`, `WaitersAttended` and `HeadsDoNotFit`, for any finite set of
tasks and any sizes, totals, chunks and bounds.  `IInv` has three parts:

* `Books(space, ticket, task, global, dirty)`: types; the queues hold tickets
  that are not answered, each once; a task is on the queue of the place where it
  waits; `MayUseExact`.  It is stated over any values, not over the variables,
  because `btrfs_try_granting_tickets` works on a `space_info` that the step has
  changed already.
* `WorkerInv`: the worker is off just when `flush` is clear, and then nobody is
  on the normal queue; while it fails tickets of an aborted filesystem `made` is
  clear, and it fails those of metadata only after a cycle.
* `HeadInv`: a priority ticket at the head does not fit, and without one neither
  does a normal ticket, unless the head was killed or paid from the global
  reserve (`untried`).  It says nothing of the normal queue while
  `maybe_fail_all_tickets` empties it in an aborted filesystem, where it does
  not try the next ticket.

The sum over a queue is a cardinality, so that it is split (`BytesSplit`) and
changed in one task (`BytesChange`) without an induction over the queue.
`Granted` takes the longest prefix of each queue that fits; that there is one,
that its bytes are added to `bytes_may_use` and taken from `reclaim_size`, and
that the next ticket does not fit gives `GrantsKeep`: granting keeps `Books`
and leaves no head that fits.  `OneTask` and `SpaceMove` say what a step may do
before it grants.  Where nothing is granted the head must not fit for another
reason: a reservation is queued behind others or because it did not fit itself,
and what does not fit in its own mode does not fit with `FLUSH_ALL`, which
overcommits least (`FitsAll`).  Assumed is only `SpaceAssumption`.

Only model-checked is everything under fairness: liveness and ENABLED are out of
the reach of the prover.

## 12. Not modelled

Of the modelled components: nested handles; `TRANS_JOIN_NOLOCK` handles, with
which the endio workers of free space inodes join a transaction up to
`COMMIT_DOING` (`transaction.c:118-141`, `inode.c:3073`, 3092) while its commit
writes the free space caches.  Such a handle may exist inside the critical section
of the commit (`block-group.c:3497-3511`), so `CommitIsAlone`, the theorem
`CommitAlone` and what `CoreInv` says of a sealed transaction are claims about the
other types only, and the counts of `WritersAreHandles` are without them.  Also
`sb_start_intwrite` and freezing, reservations made by `start_transaction`,
pending snapshots, throttling, super blocks on several devices; rename, link,
mkdir and readdir across filesystems; of delayed nodes all but the index items of
directories (inode items, reservations, batches, reference counts, when workers
are started); the inside of `open_ctree`; block
reserves other than the global one; the thresholds of the work queues.  The notes
in `PROJECT.json` say it per component.

Not at all: the batching of log commits and log replay, delayed references,
extent maps, the tree modification log, block groups and
discard are within reach of the method and follow the order in section 2.
B-tree algorithms, on-disk formats, device mapping, RAID, scrub, relocation,
send, quota groups, compression and sysfs, which make up most of the lines, are
algorithms over large data or pure I/O: a small instance says little about
them, and a faithful model would be as long as the code.  The separate
utilities (ring buffer, per-CPU tree and lists) are not linked with the
filesystem.  `btrfs_mfs_v4.2/` and `dfspace_*` repeat most of the modelled files
in an earlier state; nothing here is claimed about them.
