------------------------------ MODULE DrewLock ------------------------------
(***************************************************************************)
(* The double-reader-writer-exclusion lock of btrfs_mfs_v4.3/locking.c.    *)
(* Each side announces itself in an atomic counter and then looks at the   *)
(* other side's counter; who has to wait sleeps on a wait queue.  A step   *)
(* is one atomic operation on a counter or a wait queue: the code has a    *)
(* memory barrier wherever a task stores to one and then loads the other.  *)
(***************************************************************************)
EXTENDS Integers, FiniteSets

CONSTANTS
    Readers,   \* tasks that call btrfs_drew_read_lock
    Writers,   \* tasks that take the write side
    Blocking   \* the writers that call btrfs_drew_write_lock; the others
               \* call btrfs_drew_try_write_lock

ASSUME SidesAssumption ==
    /\ Readers \cap Writers = {}
    /\ Blocking \subseteq Writers
    /\ IsFiniteSet(Readers) /\ IsFiniteSet(Writers)

Users == Readers \cup Writers

VARIABLES
    readers, writers,  \* the two counters
    sleeping,          \* tasks on pending_readers or pending_writers
    at                 \* what each task is doing

lockVars == <<readers, writers, sleeping, at>>

LockInit ==
    /\ readers = 0 /\ writers = 0
    /\ sleeping = {}
    /\ at = [p \in Users |-> "out"]

IsAt(p, s) == at[p] = s
MoveTo(p, s) == at' = [at EXCEPT ![p] = s]

-----------------------------------------------------------------------------
(* wait_event(): test the condition; if it is false, queue, test it again, *)
(* and sleep until woken, which takes the task off the queue.              *)
Ready(p) == IF p \in Readers THEN writers = 0 ELSE readers = 0

(* A reader that waited has the lock, a writer starts anew. *)
AfterWait(p) == IF p \in Readers THEN "held" ELSE "try"

WaitTest(p) ==
    /\ IsAt(p, "wait")
    /\ MoveTo(p, IF Ready(p) THEN AfterWait(p) ELSE "queue")
    /\ UNCHANGED <<readers, writers, sleeping>>

Queue(p) ==
    /\ IsAt(p, "queue")
    /\ sleeping' = sleeping \cup {p}
    /\ MoveTo(p, "retest")
    /\ UNCHANGED <<readers, writers>>

WaitRetest(p) ==
    /\ IsAt(p, "retest")
    /\ IF Ready(p)
       THEN sleeping' = sleeping \ {p} /\ MoveTo(p, AfterWait(p))
       ELSE UNCHANGED sleeping /\ MoveTo(p, "asleep")
    /\ UNCHANGED <<readers, writers>>

Awake(p) ==
    /\ IsAt(p, "asleep") /\ p \notin sleeping
    /\ MoveTo(p, "queue")
    /\ UNCHANGED <<readers, writers, sleeping>>

(* wake_up(): everyone on the queue; cond_wake_up() wakes no one when it   *)
(* finds the queue empty, which is the same.                               *)
WakeSide(p, side) ==
    /\ sleeping' = sleeping \ side
    /\ MoveTo(p, "out")
    /\ UNCHANGED <<readers, writers>>

-----------------------------------------------------------------------------
ReadLock(p) ==
    /\ p \in Readers /\ IsAt(p, "out")
    /\ readers' = readers + 1
    /\ MoveTo(p, "wait")
    /\ UNCHANGED <<writers, sleeping>>

LastReader == readers = 1

ReadUnlock(p) ==
    /\ p \in Readers /\ IsAt(p, "held")
    /\ readers' = readers - 1
    /\ MoveTo(p, IF LastReader THEN "wake" ELSE "out")
    /\ UNCHANGED <<writers, sleeping>>

ReadWake(p) == p \in Readers /\ IsAt(p, "wake") /\ WakeSide(p, Writers)

-----------------------------------------------------------------------------
WriteLock(p) ==
    /\ p \in Writers /\ IsAt(p, "out")
    /\ MoveTo(p, "try")
    /\ UNCHANGED <<readers, writers, sleeping>>

(* btrfs_drew_try_write_lock() returned false. *)
MutTryFailed(p) == "yield"
TryFailed(p) == IF p \in Blocking THEN "wait" ELSE "out"

WriteTry(p) ==
    /\ IsAt(p, "try")
    /\ MoveTo(p, IF readers # 0 THEN TryFailed(p) ELSE "count")
    /\ UNCHANGED <<readers, writers, sleeping>>

WriteCount(p) ==
    /\ IsAt(p, "count")
    /\ writers' = writers + 1
    /\ MoveTo(p, "recheck")
    /\ UNCHANGED <<readers, sleeping>>

MutReaderCame == FALSE
ReaderCame == readers # 0

WriteRecheck(p) ==
    /\ IsAt(p, "recheck")
    /\ MoveTo(p, IF ReaderCame THEN "yield" ELSE "held")
    /\ UNCHANGED <<readers, writers, sleeping>>

(* btrfs_drew_write_unlock(), by the holder or by a failing try. *)
WriteUnlock(p) ==
    /\ p \in Writers /\ IsAt(p, "held")
    /\ writers' = writers - 1
    /\ MoveTo(p, "wake")
    /\ UNCHANGED <<readers, sleeping>>

WriteYield(p) ==
    /\ IsAt(p, "yield")
    /\ writers' = writers - 1
    /\ MoveTo(p, "failed")
    /\ UNCHANGED <<readers, sleeping>>

WriteWake(p) == p \in Writers /\ IsAt(p, "wake") /\ WakeSide(p, Readers)

MutYielded(p) == MoveTo(p, TryFailed(p)) /\ UNCHANGED sleeping
Yielded(p) == MoveTo(p, TryFailed(p)) /\ sleeping' = sleeping \ Readers

WriteFailed(p) ==
    /\ IsAt(p, "failed")
    /\ Yielded(p)
    /\ UNCHANGED <<readers, writers>>

-----------------------------------------------------------------------------
Lock(p) == ReadLock(p) \/ WriteLock(p)
Unlock(p) == ReadUnlock(p) \/ WriteUnlock(p)

Advance(p) ==
    \/ WaitTest(p) \/ Queue(p) \/ WaitRetest(p) \/ Awake(p)
    \/ ReadWake(p) \/ WriteTry(p) \/ WriteCount(p) \/ WriteRecheck(p)
    \/ WriteYield(p) \/ WriteWake(p) \/ WriteFailed(p)

LockNext == \E p \in Users : Lock(p) \/ Unlock(p) \/ Advance(p)

LockSpec == LockInit /\ [][LockNext]_lockVars

(* A task in the lock's code runs, a holder gives the lock back. *)
LockFairness == \A p \in Users : WF_lockVars(Advance(p) \/ Unlock(p))

FairLockSpec == LockSpec /\ LockFairness
-----------------------------------------------------------------------------
Steps == {"out", "wait", "queue", "retest", "asleep", "held", "wake", "try",
          "count", "recheck", "yield", "failed"}

(* Type invariant. *)
LockTypeOK ==
    /\ readers \in Nat /\ writers \in Nat
    /\ sleeping \subseteq Users
    /\ at \in [Users -> Steps]

(* The tasks that are in each counter. *)
CountedReaders ==
    {p \in Readers : at[p] \in {"wait", "queue", "retest", "asleep", "held"}}
CountedWriters == {p \in Writers : at[p] \in {"recheck", "yield", "held"}}

HoldingReaders == {p \in Readers : at[p] = "held"}
HoldingWriters == {p \in Writers : at[p] = "held"}

(* "A-B exclusion but not AA or BB" (locking.c:319): any number of tasks   *)
(* of one side hold the lock together, never two of different sides.       *)
Group == INSTANCE GroupLock WITH
    A <- Readers, B <- Writers,
    inA <- HoldingReaders, inB <- HoldingWriters
IsGroupLock == Group!Spec

(* "If there are pending readers no new writers would be allowed" and "the *)
(* current reader will be woken up when the last active writer finishes":  *)
(* every reader gets the lock, however writers come and try.  And a writer *)
(* that waits is not forgotten on the queue: it gets the lock once readers *)
(* stay away.                                                              *)
WaitersGetLock ==
    /\ \A r \in Readers : IsAt(r, "wait") ~> IsAt(r, "held")
    /\ \A w \in Blocking :
           <>[](readers = 0) => (IsAt(w, "wait") ~> IsAt(w, "held"))
=============================================================================
