----------------------- MODULE TransactionOrderProofs -----------------------
(***************************************************************************)
(* Transactions are committed in order: PointerInv says which pointers a   *)
(* task has, OrderInv that whoever is past the wait for the previous       *)
(* transaction finds every earlier one settled.                            *)
(*                                                                         *)
(* Most steps disturb none of the layers above CoreInv: Calm says what     *)
(* they leave alone and Special lists the others.  A layer is kept by the  *)
(* steps in its frame, and each special step is shown to be in it.         *)
(*                                                                         *)
(* On this rest the other counters of a transaction: pending_ordered,      *)
(* which must not be given to a transaction whose commit has stopped       *)
(* waiting for it, and use_count, which is the number of references that   *)
(* tasks, the list and fs_info hold.                                       *)
(***************************************************************************)
EXTENDS TransactionCoreProofs

-----------------------------------------------------------------------------
(***************************************************************************)
(* The pointers of a task                                                  *)
(***************************************************************************)
LEMMA FreshPointers ==
  ASSUME TypeOK, NEW pc, NEW type, NEW goal,
         pc \notin WaitPoints \cup {"blocked", "asyncwait", "endw", "endput"}
  PROVE  RefShape(Fresh(pc, type, goal)) /\ RefBounded(Fresh(pc, type, goal))
  BY DEF Fresh, RefShape, RefBounded, TypeOK

LEMMA ReturnedPointers ==
  ASSUME TypeOK, NEW p
  PROVE  RefShape(Returned(p)) /\ RefBounded(Returned(p))
  <1>1. CASE proc[p].then = "again"
    <2>1. Returned(p) = Fresh("waitcur", proc[p].type, 0)
      BY <1>1 DEF Returned
    <2>2. QED BY <2>1, FreshPointers DEF WaitPoints
  <1>2. CASE proc[p].then # "again"
    <2>1. Returned(p) = Fresh("idle", "none", 0)
      BY <1>2 DEF Returned, IdleProc
    <2>2. QED BY <2>1, FreshPointers DEF WaitPoints
  <1>3. QED BY <1>1, <1>2

(* The pointers of p stay and the point of p does not need others. *)
SamePointers(p) ==
  /\ proc'[p].ref = proc[p].ref /\ proc'[p].wtx = proc[p].wtx
  /\ proc'[p].pin = proc[p].pin

Pointers(p) == RefShape(proc'[p]) /\ RefBounded(proc'[p])

PointerPoints == {"wait", "waitnext", "waited", "blocked", "asyncwait", "endw",
                  "endput", "find"}

PlainStep(p) ==
  /\ SamePointers(p)
  /\ proc[p].pc \notin PointerPoints /\ proc'[p].pc \notin PointerPoints
  /\ \/ proc'[p].cont = proc[p].cont
     \/ proc'[p].cont \notin {"scan", "prev", "waiter"}

LEMMA PlainPointers ==
  ASSUME NEW p, RefShape(proc[p]), RefBounded(proc[p]), PlainStep(p)
  PROVE  Pointers(p)
  BY DEF PlainStep, Pointers, RefShape, RefBounded, SamePointers, WaitPoints,
         PointerPoints

LEMMA PointerFacts ==
  ASSUME CoreInv, PointerInv, NEW p \in Procs
  PROVE  /\ RefShape(proc[p]) /\ RefBounded(proc[p])
         /\ proc \in [Procs -> ProcState] /\ proc[p] \in ProcState
         /\ running \in 0..generation /\ generation \in Nat
         /\ \A i \in listed : i \in 1..generation
         /\ proc[p].tx # 0 => proc[p].tx \in 1..generation
  <1>1. RefShape(proc[p]) /\ RefBounded(proc[p])
    BY DEF PointerInv
  <1>2. proc \in [Procs -> ProcState] /\ proc[p] \in ProcState
    BY TaskFacts
  <1>3. /\ running \in 0..generation /\ generation \in Nat
        /\ \A i \in listed : i \in 1..generation
    BY DEF CoreInv, TypeOK, RoleInv, Bounded
  <1>4. ASSUME proc[p].tx # 0
        PROVE  proc[p].tx \in 1..generation
    <2>1. TargetOf(p) = proc[p].tx
      BY <1>4, TaskFacts, TargetOfRole DEF TargetOf
    <2>2. TargetOf(p) <= generation /\ TargetOf(p) \in 0..MaxTrans
      BY TargetType DEF CoreInv, RoleInv, Bounded
    <2>3. QED BY <1>3, <1>4, <2>1, <2>2
  <1>5. QED BY <1>1, <1>2, <1>3, <1>4

LEMMA PlainSteps ==
  ASSUME CoreInv, PointerInv, NEW p \in Procs,
         \/ (\E op \in Ops \ {"WAIT"} : StartRequest(p, op))
         \/ (\E b \in BOOLEAN : CommitRequest(p, b))
         \/ SyncLogRequest(p) \/ ChargeOrdered(p) \/ AbortRequest(p)
         \/ Joined(p) \/ SyncLogLock(p) \/ SyncLogSuper(p)
         \/ CommitUnblock(p) \/ AbortTransaction(p) \/ PrevCommitted(p)
         \/ DropExtwriter(p) \/ NoExtwriters(p) \/ NoPendingOrdered(p)
         \/ NoOtherWriters(p) \/ CommitDoing(p) \/ WriteBlocks(p)
         \/ WriteSuper(p) \/ CommitFinish(p) \/ CommitUnlist(p)
         \/ CommitPut(p) \/ CleanupLock(p) \/ CleanupWait(p)
         \/ CleanupUnlist(p) \/ CleanupOne(p) \/ KthreadAttach(p)
         \/ KthreadError(p) \/ KthreadDrain(p)
  PROVE  Pointers(p)
  <1> SUFFICES PlainStep(p)
    BY PointerFacts, PlainPointers
  <1>1. ASSUME NEW op \in Ops \ {"WAIT"}, StartRequest(p, op)
        PROVE  PlainStep(p)
    BY <1>1, TaskFacts
       DEF PlainStep, SamePointers, PointerPoints, ProcState, At, StartRequest
  <1>2. ASSUME NEW b \in BOOLEAN, CommitRequest(p, b)
        PROVE  PlainStep(p)
    BY <1>2, TaskFacts
       DEF PlainStep, SamePointers, PointerPoints, ProcState, At, CommitRequest
  <1>3. CASE SyncLogRequest(p)
    BY <1>3, TaskFacts
       DEF PlainStep, SamePointers, PointerPoints, ProcState, At,
           SyncLogRequest,
           Goto
  <1>4. CASE ChargeOrdered(p)
    BY <1>4, TaskFacts
       DEF PlainStep, SamePointers, PointerPoints, ProcState, At, ChargeOrdered
  <1>5. CASE AbortRequest(p)
    BY <1>5, TaskFacts
       DEF PlainStep, SamePointers, PointerPoints, ProcState, At, AbortRequest
  <1>6. CASE Joined(p)
    BY <1>6, TaskFacts
       DEF PlainStep, SamePointers, PointerPoints, ProcState, At, Joined
  <1>7. CASE SyncLogLock(p)
    BY <1>7, TaskFacts
       DEF PlainStep, SamePointers, PointerPoints, ProcState, At, SyncLogLock,
           Goto
  <1>8. CASE SyncLogSuper(p)
    BY <1>8, TaskFacts
       DEF PlainStep, SamePointers, PointerPoints, ProcState, At, SyncLogSuper,
           Goto
  <1>9. CASE CommitUnblock(p)
    BY <1>9, TaskFacts
       DEF PlainStep, SamePointers, PointerPoints, ProcState, At,
           CommitUnblock,
           Goto
  <1>10. CASE AbortTransaction(p)
    BY <1>10, TaskFacts
       DEF PlainStep, SamePointers, PointerPoints, ProcState, At,
           AbortTransaction,
           Goto
  <1>11. CASE PrevCommitted(p)
    BY <1>11, TaskFacts
       DEF PlainStep, SamePointers, PointerPoints, ProcState, At,
           PrevCommitted,
           Goto
  <1>12. CASE DropExtwriter(p)
    BY <1>12, TaskFacts
       DEF PlainStep, SamePointers, PointerPoints, ProcState, At, DropExtwriter
  <1>13. CASE NoExtwriters(p)
    BY <1>13, TaskFacts
       DEF PlainStep, SamePointers, PointerPoints, ProcState, At, NoExtwriters,
           GotoOrFail, Goto, Fail
  <1>14. CASE NoPendingOrdered(p)
    BY <1>14, TaskFacts
       DEF PlainStep, SamePointers, PointerPoints, ProcState, At,
           NoPendingOrdered,
           Goto
  <1>15. CASE NoOtherWriters(p)
    BY <1>15, TaskFacts
       DEF PlainStep, SamePointers, PointerPoints, ProcState, At,
           NoOtherWriters,
           Goto, Fail
  <1>16. CASE CommitDoing(p)
    BY <1>16, TaskFacts
       DEF PlainStep, SamePointers, PointerPoints, ProcState, At, CommitDoing,
           Goto, Fail
  <1>17. CASE WriteBlocks(p)
    BY <1>17, TaskFacts
       DEF PlainStep, SamePointers, PointerPoints, ProcState, At, WriteBlocks,
           Goto, Fail
  <1>18. CASE WriteSuper(p)
    BY <1>18, TaskFacts
       DEF PlainStep, SamePointers, PointerPoints, ProcState, At, WriteSuper,
           Goto, Fail
  <1>19. CASE CommitFinish(p)
    BY <1>19, TaskFacts
       DEF PlainStep, SamePointers, PointerPoints, ProcState, At, CommitFinish,
           Goto
  <1>20. CASE CommitUnlist(p)
    BY <1>20, TaskFacts
       DEF PlainStep, SamePointers, PointerPoints, ProcState, At, CommitUnlist,
           Goto
  <1>21. CASE CommitPut(p)
    BY <1>21, TaskFacts
       DEF PlainStep, SamePointers, PointerPoints, ProcState, At, CommitPut
  <1>22. CASE CleanupLock(p)
    BY <1>22, TaskFacts
       DEF PlainStep, SamePointers, PointerPoints, ProcState, At, CleanupLock,
           Goto
  <1>23. CASE CleanupWait(p)
    BY <1>23, TaskFacts
       DEF PlainStep, SamePointers, PointerPoints, ProcState, At, CleanupWait,
           Goto
  <1>24. CASE CleanupUnlist(p)
    BY <1>24, TaskFacts
       DEF PlainStep, SamePointers, PointerPoints, ProcState, At, CleanupUnlist
  <1>25. CASE CleanupOne(p)
    BY <1>25, TaskFacts
       DEF PlainStep, SamePointers, PointerPoints, ProcState, At, CleanupOne,
           CleanupState, Goto
  <1>26. CASE KthreadAttach(p)
    BY <1>26, TaskFacts
       DEF PlainStep, SamePointers, PointerPoints, ProcState, At, KthreadAttach
  <1>27. CASE KthreadError(p)
    BY <1>27, TaskFacts
       DEF PlainStep, SamePointers, PointerPoints, ProcState, At, KthreadError,
           Goto
  <1>28. CASE KthreadDrain(p)
    BY <1>28, TaskFacts
       DEF PlainStep, SamePointers, PointerPoints, ProcState, At, KthreadDrain,
           Goto
  <1>29. QED
    BY <1>1, <1>2, <1>3, <1>4, <1>5, <1>6, <1>7, <1>8, <1>9, <1>10, <1>11,
       <1>12, <1>13, <1>14, <1>15, <1>16, <1>17, <1>18, <1>19, <1>20, <1>21,
       <1>22, <1>23, <1>24, <1>25, <1>26, <1>27, <1>28

LEMMA PointerStep ==
  ASSUME CoreInv, PointerInv, NEW p \in Procs, Step(p)
  PROVE  Pointers(p)
  <1>a. PlainStep(p) => Pointers(p)
    BY PointerFacts, PlainPointers
  <1>b. Return(p) => Pointers(p)
    BY TaskFacts, ReturnedPointers DEF Return, Pointers, CoreInv
  <1>c. ASSUME NEW ok \in BOOLEAN, WaitOver(p, ok)
        PROVE  Pointers(p)
    <2>1. PICK pc \in {"barrierdone", "scan", "idle"}, goal \in 0..MaxTrans :
             proc'[p] = Fresh(pc, "none", goal)
      BY <1>c, TaskFacts, ConstantsAssumption DEF WaitOver, ProcState
    <2>2. QED BY <2>1, FreshPointers DEF Pointers, CoreInv, WaitPoints
  <1>1. CASE StartEntry(p)
    <2>1. CASE ~Return(p)
      BY <1>1, <2>1, <1>a, TaskFacts
         DEF PlainStep, SamePointers, PointerPoints, ProcState, At, StartEntry,
             Goto
    <2>2. QED BY <1>b, <2>1
  <1>2. CASE WaitCurrentTrans(p)
    <2>1. CASE running # 0 /\ IsBlocked(running)
      BY <1>2, <2>1, TaskFacts, PointerFacts
         DEF Pointers, RefShape, RefBounded, ProcState, At, WaitCurrentTrans,
             WaitPoints
    <2>2. CASE ~(running # 0 /\ IsBlocked(running))
      BY <1>2, <2>2, <1>a, TaskFacts
         DEF PlainStep, SamePointers, PointerPoints, ProcState, At,
             WaitCurrentTrans, AfterWaitCurrent, Goto
    <2>3. QED BY <2>1, <2>2
  <1>3. CASE CurrentTransUnblocked(p)
    BY <1>3, TaskFacts, PointerFacts
       DEF Pointers, RefShape, RefBounded, ProcState, At, WaitPoints,
           CurrentTransUnblocked, AfterWaitCurrent
  <1>4. CASE JoinTransaction(p) \/ NewTransaction(p)
    <2>1. CASE ~Return(p)
      BY <1>4, <2>1, <1>a, TaskFacts
         DEF PlainStep, SamePointers, PointerPoints, ProcState, At, Goto,
             JoinTransaction, NewTransaction, JoinRunning
    <2>2. QED BY <1>b, <2>1
  <1>5. CASE NothingToJoin(p)
    <2>1. CASE ~Return(p)
      <3>1. proc[p].cont = "barrier"
        BY <1>5, <2>1 DEF NothingToJoin
      <3>2. QED
        BY <1>5, <2>1, <3>1, TaskFacts, PointerFacts
           DEF Pointers, RefShape, RefBounded, ProcState, At, WaitPoints,
               NothingToJoin, Goto
    <2>2. QED BY <1>b, <2>1
  <1>6. CASE AsyncCommitStarted(p)
    <2>1. proc'[p] = Fresh("idle", "none", 0)
      BY <1>6, TaskFacts DEF AsyncCommitStarted, IdleProc
    <2>2. QED BY <2>1, FreshPointers DEF Pointers, CoreInv, WaitPoints
  <1>7. CASE EndRequest(p) \/ CommitEntry(p) \/ KthreadAttached(p)
    <2>1. /\ proc[p].pc \in {"held", "commit"} /\ SamePointers(p)
          /\ \/ proc'[p].pc \in {"prep", "commit", "abort"}
             \/ proc'[p].pc = "endw"
          /\ proc'[p].cont = proc[p].cont \/ proc'[p].cont = "ret"
          /\ proc'[p].pc = "endw" => proc'[p].cont = "ret"
      BY <1>7, TaskFacts
         DEF SamePointers, ProcState, At, EndRequest, CommitEntry, Goto,
             KthreadAttached
    <2>2. QED
      BY <2>1, PointerFacts
         DEF Pointers, RefShape, RefBounded, SamePointers, WaitPoints
  <1>8. CASE CommitAsyncRequest(p)
    <2>1. proc[p].tx # 0
      BY <1>8, TaskFacts, HandleShape
         DEF CommitAsyncRequest, At, HandlePoints
    <2>2. QED
      BY <1>8, <2>1, TaskFacts, PointerFacts
         DEF Pointers, RefShape, RefBounded, ProcState, At, WaitPoints,
             CommitAsyncRequest
  <1>9. CASE HandleFsError(p)
    BY <1>9, TaskFacts, PointerFacts
       DEF Pointers, RefShape, RefBounded, ProcState, At, WaitPoints,
           HandleFsError, Goto
  <1>10. CASE EndTransaction(p)
    BY <1>10, TaskFacts, PointerFacts
       DEF Pointers, RefShape, RefBounded, ProcState, At, WaitPoints,
           EndTransaction
  <1>11. CASE EndPut(p)
    <2>1. CASE ~Return(p)
      BY <1>11, <2>1, TaskFacts, PointerFacts
         DEF Pointers, RefShape, RefBounded, ProcState, At, WaitPoints, EndPut
    <2>2. QED BY <1>b, <2>1
  <1>12. ASSUME NEW i \in 0..generation, WaitRequest(p, i)
         PROVE  Pointers(p)
    BY <1>12, TaskFacts, PointerFacts
       DEF Pointers, RefShape, RefBounded, ProcState, At, WaitPoints,
           WaitRequest
  <1>13. CASE FindCommit(p)
    <2>1. CASE WaitOver(p, TRUE)
      BY <1>c, <2>1
    <2>2. CASE ~WaitOver(p, TRUE)
      <3>1. PICK i \in CommitToWaitFor(p) :
               proc' = [proc EXCEPT ![p].pc = "wait", ![p].ref = i]
        BY <1>13, <2>2 DEF FindCommit
      <3>2. i \in 1..generation
        BY <3>1, PointerFacts DEF CommitToWaitFor, Started
      <3>3. QED
        BY <1>13, <3>1, <3>2, TaskFacts, PointerFacts
           DEF Pointers, RefShape, RefBounded, ProcState, At, WaitPoints,
               FindCommit
    <2>3. QED BY <2>1, <2>2
  <1>14. CASE CommitReached(p)
    BY <1>14, TaskFacts, PointerFacts
       DEF Pointers, RefShape, RefBounded, ProcState, At, WaitPoints,
           CommitReached
  <1>15. CASE WaitForEarlier(p)
    BY <1>15, TaskFacts, PointerFacts
       DEF Pointers, RefShape, RefBounded, ProcState, At, WaitPoints,
           WaitForEarlier, Goto
  <1>16. CASE Waited(p)
    <2>1. CASE proc[p].cont = "prev"
      <3>1. PICK pc \in {"abort", "prevdone"}, cont \in {"clean", "none"} :
               proc' = [proc EXCEPT ![p].ref = 0, ![p].pc = pc,
                                    ![p].cont = cont]
        BY <1>16, <2>1 DEF Waited
      <3>2. At(p, "waited")
        BY <1>16 DEF Waited
      <3>3. QED
        BY <2>1, <3>1, <3>2, TaskFacts, PointerFacts
           DEF Pointers, RefShape, RefBounded, ProcState, At, WaitPoints
    <2>2. CASE proc[p].cont = "waiter"
      <3>1. CASE ~Return(p)
        BY <1>16, <2>2, <3>1, TaskFacts, PointerFacts
           DEF Pointers, RefShape, RefBounded, ProcState, At, WaitPoints,
               Waited
      <3>2. QED BY <1>b, <3>1
    <2>3. CASE proc[p].cont \notin {"prev", "waiter"}
      <3>1. WaitOver(p, ~tx[proc[p].ref].aborted)
        BY <1>16, <2>3 DEF Waited
      <3>2. PICK ok \in BOOLEAN : ok = ~tx[proc[p].ref].aborted
        OBVIOUS
      <3>3. WaitOver(p, ok)
        BY <3>1, <3>2
      <3>4. QED BY <1>c, <3>3
    <2>4. QED BY <2>1, <2>2, <2>3
  <1>17. CASE Acknowledge(p)
    BY <1>17, <1>b DEF Acknowledge
  <1>18. CASE CommitPrep(p)
    <2>1. proc[p].tx # 0
      BY <1>18, TaskFacts, HandleShape DEF CommitPrep, At, HandlePoints
    <2>2. CASE Goto(p, "dropext") \/ Fail(p)
      BY <1>18, <2>2, <1>a, TaskFacts
         DEF PlainStep, SamePointers, PointerPoints, ProcState, At, CommitPrep,
             Goto, Fail
    <2>3. CASE proc' = [proc EXCEPT ![p].pc = "endw", ![p].cont = "waiter",
                                    ![p].ref = proc[p].tx]
      BY <1>18, <2>1, <2>3, TaskFacts, PointerFacts
         DEF Pointers, RefShape, RefBounded, ProcState, At, WaitPoints,
             CommitPrep
    <2>4. ASSUME NEW k \in listed,
                 proc' = [proc EXCEPT ![p].pc = "wait", ![p].cont = "prev",
                                      ![p].ref = k]
          PROVE  Pointers(p)
      BY <1>18, <2>4, TaskFacts, PointerFacts
         DEF Pointers, RefShape, RefBounded, ProcState, At, WaitPoints,
             CommitPrep
    <2>5. QED BY <1>18, <2>2, <2>3, <2>4 DEF CommitPrep
  <1>19. CASE CleanupDone(p)
    <2>1. CASE proc' = [proc EXCEPT ![p] = Fresh("scan", "none", 0)]
      <3>1. proc'[p] = Fresh("scan", "none", 0)
        BY <2>1, TaskFacts
      <3>2. QED BY <3>1, FreshPointers DEF Pointers, CoreInv, WaitPoints
    <2>2. QED BY <1>19, <1>b, <2>1 DEF CleanupDone
  <1>20. CASE KthreadScan(p)
    <2>0. proc[p].pc = "scan"
      BY <1>20 DEF KthreadScan, At
    <2>1. CASE Goto(p, "idle")
      BY <2>0, <2>1, <1>a, TaskFacts
         DEF PlainStep, SamePointers, PointerPoints, ProcState, Goto
    <2>2. ASSUME NEW i \in listed,
                 proc' = [proc EXCEPT ![p].pc = "find", ![p].cont = "scan",
                                      ![p].goal = i, ![p].pin = i]
          PROVE  Pointers(p)
      BY <2>0, <2>2, TaskFacts, PointerFacts
         DEF Pointers, RefShape, RefBounded, ProcState, WaitPoints
    <2>3. ASSUME NEW i \in listed,
                 proc' = [proc EXCEPT ![p].doom = i,
                    ![p].pc = IF i = running THEN "drain" ELSE "clean1"]
          PROVE  Pointers(p)
      BY <2>0, <2>3, <1>a, TaskFacts
         DEF PlainStep, SamePointers, PointerPoints, ProcState
    <2>4. QED BY <1>20, <2>1, <2>2, <2>3 DEF KthreadScan
  <1>21. QED
    BY <1>1, <1>2, <1>3, <1>4, <1>5, <1>6, <1>7, <1>8, <1>9, <1>10, <1>11,
       <1>12, <1>13, <1>14, <1>15, <1>16, <1>17, <1>18, <1>19, <1>20,
       PlainSteps DEF Step, Requests, Release, LogLocks, Proceed

-----------------------------------------------------------------------------
(***************************************************************************)
(* Steps that disturb nothing                                              *)
(***************************************************************************)
(* Nothing about k but its counters changes.                               *)
Kept(k) == /\ tx'[k].state = tx[k].state
           /\ tx'[k].pending = tx[k].pending
           /\ tx[k].aborted => tx'[k].aborted

SameLedger == \A k \in TransIds : Kept(k)

CalmPoints == {"idle", "start", "waitcur", "blocked", "join", "alloc",
               "joined", "enoent", "held", "endw", "endput", "asyncwait",
               "abort", "fserror", "loglock", "find", "barrierdone",
               "commit", "prep", "extwait", "scan"}

(* p is nowhere where a layer has a claim.                                 *)
CalmTask(p) ==
  /\ proc'[p].pc \in CalmPoints
  /\ proc'[p].pc \in ErrorPoints => proc'[p].cont # "clean"
  /\ proc[p].pc \notin {"unblock", "write", "super", "logsuper"}
  /\ proc'[p].cont = "waiter" =>
        /\ proc[p].cont = "waiter" /\ proc'[p].ref = proc[p].ref
        /\ proc'[p].pc \in {"endw", "endput"}
  /\ Role(proc'[p]) = "handle" /\ proc'[p].ext =>
        \/ Role(proc[p]) = "handle" /\ proc[p].ext
        \/ tx[running].state <= COMMIT_PREP

CalmShared(p) ==
  /\ UNCHANGED <<list, superForCommit, disk, written, ordered>>
  /\ \/ UNCHANGED treeLogMutex
     \/ treeLogMutex = p /\ treeLogMutex' = None

Calm(p) == CalmShared(p) /\ SameLedger /\ CalmTask(p)

LEMMA KeptByUse ==
  ASSUME tx \in [TransIds -> TxState], NEW i, NEW n,
         tx' = [tx EXCEPT ![i].use = n], NEW k \in TransIds
  PROVE  Kept(k)
  BY DEF TxState, Kept

LEMMA KeptByUses ==
  ASSUME tx \in [TransIds -> TxState], NEW i, NEW j,
         tx' = [Put(i) EXCEPT ![j].use = @ - 1], NEW k \in TransIds
  PROVE  Kept(k)
  BY DEF TxState, Kept, Put

LEMMA KeptByAbort ==
  ASSUME tx \in [TransIds -> TxState], NEW i,
         tx' = [tx EXCEPT ![i].aborted = TRUE], NEW k \in TransIds
  PROVE  Kept(k)
  BY DEF TxState, Kept

LEMMA KeptByCounts ==
  ASSUME tx \in [TransIds -> TxState], NEW i, NEW u, NEW w, NEW e,
         \/ tx' = [tx EXCEPT ![i].ext = e]
         \/ tx' = [tx EXCEPT ![i].writers = w, ![i].ext = e]
         \/ tx' = [tx EXCEPT ![i].use = u, ![i].writers = w, ![i].ext = e],
         NEW k \in TransIds
  PROVE  Kept(k)
  <1>1. CASE tx' = [tx EXCEPT ![i].ext = e]
    BY <1>1 DEF TxState, Kept
  <1>2. CASE tx' = [tx EXCEPT ![i].writers = w, ![i].ext = e]
    BY <1>2 DEF TxState, Kept
  <1>3. CASE tx' = [tx EXCEPT ![i].use = u, ![i].writers = w, ![i].ext = e]
    BY <1>3 DEF TxState, Kept
  <1>4. QED BY <1>1, <1>2, <1>3

LEMMA Ledger ==
  ASSUME TypeOK,
         \/ UNCHANGED tx
         \/ \E i : tx' = Pin(i)
         \/ \E i : tx' = Put(i)
         \/ \E i : tx' = [tx EXCEPT ![i].use = @ - 2]
         \/ \E i, k : tx' = [Put(i) EXCEPT ![k].use = @ - 1]
         \/ \E i : tx' = [tx EXCEPT ![i].aborted = TRUE]
  PROVE  SameLedger
  <1>1. tx \in [TransIds -> TxState]
    BY DEF TypeOK
  <1> SUFFICES ASSUME NEW k \in TransIds
               PROVE  Kept(k)
    BY DEF SameLedger
  <1>2. CASE UNCHANGED tx
    BY <1>2 DEF Kept
  <1>3. ASSUME NEW i, tx' = Pin(i) \/ tx' = Put(i)
        PROVE  Kept(k)
    BY <1>1, <1>3, KeptByUse DEF Pin, Put
  <1>4. ASSUME NEW i, tx' = [tx EXCEPT ![i].use = @ - 2]
        PROVE  Kept(k)
    BY <1>1, <1>4, KeptByUse
  <1>5. ASSUME NEW i, NEW j, tx' = [Put(i) EXCEPT ![j].use = @ - 1]
        PROVE  Kept(k)
    BY <1>1, <1>5, KeptByUses
  <1>6. ASSUME NEW i, tx' = [tx EXCEPT ![i].aborted = TRUE]
        PROVE  Kept(k)
    BY <1>1, <1>6, KeptByAbort
  <1>7. QED BY <1>2, <1>3, <1>4, <1>5, <1>6

(* A call that is over.                                                    *)
LEMMA FreshCalm ==
  ASSUME NEW p, NEW pc, NEW type, NEW goal,
         proc'[p] = Fresh(pc, type, goal), pc \in CalmPoints,
         pc \notin ErrorPoints,
         proc[p].pc \notin {"unblock", "write", "super", "logsuper"}
  PROVE  CalmTask(p)
  BY DEF Fresh, CalmTask

LEMMA ReturnCalm ==
  ASSUME CoreInv, NEW p \in Procs, Return(p),
         proc[p].pc \notin {"unblock", "write", "super", "logsuper"}
  PROVE  CalmTask(p)
  <1>1. proc'[p] = Returned(p)
    BY TaskFacts DEF Return
  <1>2. CASE proc[p].then = "again"
    <2>1. proc'[p] = Fresh("waitcur", proc[p].type, 0)
      BY <1>1, <1>2 DEF Returned
    <2>2. QED BY <2>1, FreshCalm DEF CalmPoints, ErrorPoints
  <1>3. CASE proc[p].then # "again"
    <2>1. proc'[p] = Fresh("idle", "none", 0)
      BY <1>1, <1>3 DEF Returned, IdleProc
    <2>2. QED BY <2>1, FreshCalm DEF CalmPoints, ErrorPoints
  <1>4. QED BY <1>2, <1>3

LEMMA OverCalm ==
  ASSUME CoreInv, NEW p \in Procs, NEW ok, WaitOver(p, ok),
         proc[p].pc \notin {"unblock", "write", "super", "logsuper"}
  PROVE  CalmTask(p)
  <1>1. PICK pc \in {"barrierdone", "scan", "idle"}, goal \in 0..MaxTrans :
             proc'[p] = Fresh(pc, "none", goal)
    BY TaskFacts, ConstantsAssumption DEF WaitOver, ProcState
  <1>2. QED BY <1>1, FreshCalm DEF CalmPoints, ErrorPoints

LEMMA JoinCalm ==
  ASSUME CoreInv, NEW p \in Procs, JoinRunning(p),
         proc[p].pc \in {"join", "alloc"}
  PROVE  SameLedger /\ CalmTask(p)
  <1>1. tx \in [TransIds -> TxState]
    BY DEF CoreInv, TypeOK
  <1>2. CASE tx[running].aborted
    BY <1>2, ReturnCalm, Ledger DEF JoinRunning, CoreInv
  <1>3. CASE ~tx[running].aborted
             /\ proc[p].type \in BlockedTypes(tx[running].state)
    <2>1. SameLedger
      BY <1>3, Ledger DEF JoinRunning, CoreInv
    <2>2. proc'[p].pc = "waitcur" /\ proc'[p].cont = proc[p].cont
      BY <1>3, TaskFacts DEF JoinRunning, Goto, ProcState
    <2>3. proc[p].cont \in {"none", "barrier"}
      BY TaskFacts DEF Shape, JoinPoints
    <2>4. Role(proc'[p]) # "handle"
      BY <2>2, RolePoints DEF HandlePoints, ErrorPoints
    <2>5. QED BY <2>1, <2>2, <2>3, <2>4 DEF CalmTask, CalmPoints, ErrorPoints
  <1>4. CASE ~tx[running].aborted
             /\ proc[p].type \notin BlockedTypes(tx[running].state)
    <2>1. SameLedger
      <3>1. tx' = [tx EXCEPT ![running].use = @ + 1,
                             ![running].writers = @ + 1,
                             ![running].ext =
                                @ + One(proc[p].type \in EXTWRITERS)]
        BY <1>4 DEF JoinRunning
      <3>2. \A k \in TransIds : Kept(k)
        BY <1>1, <3>1, KeptByCounts
      <3>3. QED BY <3>2 DEF SameLedger
    <2>2. /\ proc'[p].pc = "joined" /\ proc'[p].cont = "none"
          /\ proc'[p].ext <=> proc[p].type \in EXTWRITERS
      BY <1>4, TaskFacts DEF JoinRunning, ProcState
    <2>3. proc'[p].ext => tx[running].state <= COMMIT_PREP
      <3>1. ASSUME NEW s, ~(s <= COMMIT_PREP)
            PROVE  {"START", "ATTACH"} \subseteq BlockedTypes(s)
        BY <3>1 DEF BlockedTypes
      <3>2. ASSUME ~(tx[running].state <= COMMIT_PREP)
            PROVE  proc[p].type \notin EXTWRITERS
        <4>1. {"START", "ATTACH"} \subseteq BlockedTypes(tx[running].state)
          BY <3>1, <3>2
        <4>2. QED BY <1>4, <4>1 DEF EXTWRITERS
      <3>3. QED BY <2>2, <3>2
    <2>4. QED BY <2>1, <2>2, <2>3 DEF CalmTask, CalmPoints, ErrorPoints
  <1>5. QED BY <1>2, <1>3, <1>4

(* What the other steps do.                                                *)
Special(p) ==
  \/ NewTransaction(p) /\ running = 0
  \/ FindCommit(p) /\ At(p, "find") /\ proc'[p].pc = "wait"
  \/ EndPut(p) /\ proc[p].cont = "waiter"
  \/ CommitReached(p) \/ WaitForEarlier(p)
  \/ Waited(p) /\ proc'[p].pc \in {"abort", "prevdone", "committed"}
  \/ CommitPrep(p) \/ PrevCommitted(p) \/ DropExtwriter(p) \/ NoExtwriters(p)
  \/ NoPendingOrdered(p) \/ NoOtherWriters(p) \/ CommitDoing(p)
  \/ CommitUnblock(p) \/ WriteBlocks(p) \/ WriteSuper(p) \/ CommitFinish(p)
  \/ CommitUnlist(p) \/ CommitPut(p) \/ CleanupLock(p) \/ CleanupWait(p)
  \/ CleanupUnlist(p) \/ CleanupOne(p) \/ CleanupDone(p)
  \/ KthreadScan(p) /\ proc'[p].pc \in {"drain", "clean1"}
  \/ KthreadDrain(p) \/ SyncLogLock(p) \/ SyncLogSuper(p) \/ ChargeOrdered(p)
  \/ AbortTransaction(p) /\ proc[p].cont = "clean"
  \/ HandleFsError(p) /\ proc[p].cont = "clean"

(* A task goes on with its handle.                                         *)
LEMMA HeldCalm ==
  ASSUME CoreInv, PointerInv, NEW p \in Procs,
         \/ proc[p].pc \in HandlePoints \ {"logsuper"}
         \/ proc[p].pc \in ErrorPoints /\ proc[p].cont # "clean",
         proc'[p].pc \in CalmPoints, proc'[p].ext => proc[p].ext,
         \/ proc'[p].pc = "endput" /\ proc'[p].ref = proc[p].ref
         \/ proc[p].pc # "endw",
         proc'[p].pc \in ErrorPoints => proc'[p].cont # "clean",
         \/ proc'[p].cont = proc[p].cont
         \/ proc'[p].cont \in {"held", "ret", "async"}
  PROVE  CalmTask(p)
  <1>1. Role(proc[p]) = "handle"
    BY RolePoints
  <1>2. proc[p].cont = "waiter" => proc[p].pc = "endw"
    BY PointerFacts DEF RefShape, HandlePoints, ErrorPoints, WaitPoints
  <1>3. proc[p].pc \notin {"unblock", "write", "super", "logsuper"}
    BY DEF HandlePoints, ErrorPoints
  <1>4. QED BY <1>1, <1>2, <1>3 DEF CalmTask

LEMMA CalmRequests ==
  ASSUME CoreInv, PointerInv, NEW p \in Procs, Requests(p) \/ Release(p)
  PROVE  Calm(p) \/ Special(p)
  <1>1. ASSUME NEW op \in Ops \ {"WAIT"}, StartRequest(p, op)
        PROVE  Calm(p)
    <2>1. CalmTask(p)
      <3>1. /\ proc[p].pc = "idle" /\ proc'[p].pc = "start"
            /\ proc'[p].cont \in {"none", "barrier"}
        BY <1>1, TaskFacts DEF StartRequest, At, ProcState
      <3>2. Role(proc'[p]) # "handle"
        BY <3>1, RolePoints DEF HandlePoints, ErrorPoints
      <3>3. QED BY <3>1, <3>2 DEF CalmTask, CalmPoints, ErrorPoints
    <2>2. SameLedger
      BY <1>1, Ledger DEF StartRequest, shared, CoreInv
    <2>3. QED
      BY <1>1, <2>1, <2>2
         DEF Calm, CalmShared, StartRequest, shared, list, durable
  <1>2. ASSUME NEW i \in 0..generation, WaitRequest(p, i)
        PROVE  Calm(p)
    <2>1. CalmTask(p)
      <3>1. /\ proc[p].pc = "idle" /\ proc'[p].pc = "find"
            /\ proc'[p].cont \in {"newest", "transid"}
        BY <1>2, TaskFacts DEF WaitRequest, At, ProcState
      <3>2. Role(proc'[p]) # "handle"
        BY <3>1, RolePoints DEF HandlePoints, ErrorPoints
      <3>3. QED BY <3>1, <3>2 DEF CalmTask, CalmPoints, ErrorPoints
    <2>2. SameLedger
      BY <1>2, Ledger DEF WaitRequest, shared, CoreInv
    <2>3. QED
      BY <1>2, <2>1, <2>2
         DEF Calm, CalmShared, WaitRequest, shared, list, durable
  <1>3. CASE \/ SyncLogRequest(p) \/ AbortRequest(p) \/ EndRequest(p)
             \/ \E b \in BOOLEAN : CommitRequest(p, b)
    <2>1. /\ proc[p].pc = "held"
          /\ proc'[p].pc \in {"loglock", "abort", "endw", "commit"}
          /\ proc'[p].cont \in {proc[p].cont, "held", "ret"}
          /\ proc'[p].pc = "abort" => proc'[p].cont = "held"
          /\ proc'[p].ext = proc[p].ext
          /\ UNCHANGED shared
      BY <1>3, TaskFacts
         DEF SyncLogRequest, AbortRequest, EndRequest, CommitRequest, Goto, At,
             ProcState
    <2>2. CalmTask(p)
      BY <2>1, HeldCalm DEF CalmPoints, HandlePoints, ErrorPoints
    <2>3. SameLedger
      BY <2>1, Ledger DEF shared, CoreInv
    <2>4. QED BY <2>1, <2>2, <2>3 DEF Calm, CalmShared, shared, list, durable
  <1>4. CASE CommitAsyncRequest(p)
    <2>1. /\ proc[p].pc = "held" /\ proc'[p].pc = "endw"
          /\ proc'[p].cont = "async" /\ proc'[p].ext = proc[p].ext
      BY <1>4, TaskFacts DEF CommitAsyncRequest, At, ProcState
    <2>2. CalmTask(p)
      BY <2>1, HeldCalm DEF CalmPoints, HandlePoints, ErrorPoints
    <2>3. SameLedger
      BY <1>4, Ledger DEF CommitAsyncRequest, CoreInv
    <2>4. QED
      BY <1>4, <2>2, <2>3
         DEF Calm, CalmShared, CommitAsyncRequest, list, durable
  <1>5. QED
    BY <1>1, <1>2, <1>3, <1>4 DEF Requests, Release, Special

(* A task without a handle goes on.                                        *)
LEMMA OutCalm ==
  ASSUME CoreInv, NEW p \in Procs,
         proc[p].pc \in OutPoints \cup WaitPoints,
         proc'[p].pc \in {"start", "waitcur", "blocked", "join", "alloc",
                          "enoent", "asyncwait", "find", "idle", "scan"},
         proc'[p].cont # "waiter"
  PROVE  CalmTask(p)
  <1>1. Role(proc'[p]) # "handle"
    BY RolePoints DEF HandlePoints, ErrorPoints
  <1>2. QED
    BY <1>1 DEF CalmTask, CalmPoints, ErrorPoints, OutPoints, WaitPoints

LEMMA CalmStart ==
  ASSUME CoreInv, PointerInv, NEW p \in Procs,
         \/ StartEntry(p) \/ WaitCurrentTrans(p) \/ CurrentTransUnblocked(p)
         \/ JoinTransaction(p) \/ NewTransaction(p) \/ NothingToJoin(p)
         \/ AsyncCommitStarted(p) \/ Acknowledge(p)
         \/ KthreadAttach(p) \/ KthreadError(p)
  PROVE  Calm(p) \/ Special(p)
  <1>a. proc[p].pc \in OutPoints => proc[p].cont # "waiter"
    BY PointerFacts DEF RefShape, OutPoints, WaitPoints
  <1>b. Return(p) /\ proc[p].pc \in OutPoints => CalmTask(p)
    BY ReturnCalm DEF OutPoints
  <1>1. CASE StartEntry(p)
    <2>1. CASE ~Return(p)
      <3>1. /\ proc[p].pc = "start" /\ proc'[p].pc \in {"waitcur", "join"}
            /\ proc'[p].cont = proc[p].cont
        BY <1>1, <2>1, TaskFacts DEF StartEntry, At, Goto, ProcState
      <3>2. QED BY <1>a, <3>1, OutCalm, <1>1, Ledger
              DEF OutPoints, Calm, CalmShared, StartEntry, shared, list,
                  durable, CoreInv
    <2>2. CASE Return(p)
      BY <1>1, <2>2, <1>b, Ledger
         DEF OutPoints, Calm, CalmShared, StartEntry, At, shared, list,
             durable,
             CoreInv
    <2>3. QED BY <2>1, <2>2
  <1>2. CASE WaitCurrentTrans(p)
    <2>1. /\ proc[p].pc = "waitcur"
          /\ proc'[p].pc \in {"blocked", "enoent", "join"}
          /\ proc'[p].cont = proc[p].cont
      BY <1>2, TaskFacts
         DEF WaitCurrentTrans, At, Goto, AfterWaitCurrent, ProcState
    <2>2. CalmTask(p)
      BY <1>a, <2>1, OutCalm DEF OutPoints
    <2>3. SameLedger
      BY <1>2, Ledger DEF WaitCurrentTrans, CoreInv
    <2>4. QED
      BY <1>2, <2>2, <2>3 DEF Calm, CalmShared, WaitCurrentTrans, list, durable
  <1>3. CASE CurrentTransUnblocked(p)
    <2>1. /\ proc[p].pc = "blocked" /\ proc'[p].pc \in {"enoent", "join"}
          /\ proc'[p].cont = proc[p].cont
      BY <1>3, TaskFacts
         DEF CurrentTransUnblocked, At, AfterWaitCurrent, ProcState
    <2>2. CalmTask(p)
      BY <1>a, <2>1, OutCalm DEF OutPoints
    <2>3. SameLedger
      BY <1>3, Ledger DEF CurrentTransUnblocked, CoreInv
    <2>4. QED
      BY <1>3, <2>2, <2>3
         DEF Calm, CalmShared, CurrentTransUnblocked, list, durable
  <1>4. CASE JoinTransaction(p)
    <2>1. CalmShared(p) /\ proc[p].pc = "join"
      BY <1>4 DEF JoinTransaction, CalmShared, At, list, durable
    <2>2. CASE JoinRunning(p)
      BY <2>1, <2>2, JoinCalm DEF Calm
    <2>3. CASE ~JoinRunning(p)
      <3>1. SameLedger
        BY <1>4, <2>3, Ledger DEF JoinTransaction, CoreInv
      <3>2. CASE Return(p)
        BY <2>1, <3>1, <3>2, <1>b DEF Calm, OutPoints
      <3>3. CASE ~Return(p)
        <4>1. /\ proc'[p].pc \in {"enoent", "alloc"}
              /\ proc'[p].cont = proc[p].cont
          BY <1>4, <2>3, <3>3, TaskFacts DEF JoinTransaction, Goto, ProcState
        <4>2. QED
          BY <1>a, <2>1, <3>1, <4>1, OutCalm DEF Calm, OutPoints
      <3>4. QED BY <3>2, <3>3
    <2>4. QED BY <2>2, <2>3
  <1>5. CASE NewTransaction(p) /\ running # 0
    <2>1. CalmShared(p) /\ proc[p].pc = "alloc"
      BY <1>5 DEF NewTransaction, CalmShared, At, list, durable
    <2>2. CASE JoinRunning(p)
      BY <2>1, <2>2, JoinCalm DEF Calm
    <2>3. CASE ~JoinRunning(p)
      <3>1. SameLedger /\ Return(p)
        BY <1>5, <2>3, Ledger DEF NewTransaction, CoreInv
      <3>2. QED
        BY <2>1, <3>1, <1>b DEF Calm, OutPoints
    <2>4. QED BY <2>2, <2>3
  <1>6. CASE NothingToJoin(p)
    <2>1. CASE ~Return(p)
      <3>1. /\ proc[p].pc = "enoent" /\ proc'[p].pc = "find"
            /\ proc'[p].cont = proc[p].cont
        BY <1>6, <2>1, TaskFacts DEF NothingToJoin, At, Goto, ProcState
      <3>2. QED BY <1>a, <3>1, OutCalm, <1>6, Ledger
              DEF OutPoints, Calm, CalmShared, NothingToJoin, shared, list,
                  durable, CoreInv
    <2>2. CASE Return(p)
      BY <1>6, <2>2, <1>b, Ledger
         DEF OutPoints, Calm, CalmShared, NothingToJoin, At, shared, list,
             durable, CoreInv
    <2>3. QED BY <2>1, <2>2
  <1>7. CASE AsyncCommitStarted(p)
    <2>1. /\ proc[p].pc = "asyncwait" /\ proc'[p].pc = "idle"
          /\ proc'[p].cont = "none"
      BY <1>7, TaskFacts DEF AsyncCommitStarted, At, IdleProc, Fresh
    <2>2. CalmTask(p)
      BY <2>1, OutCalm DEF OutPoints
    <2>3. SameLedger
      BY <1>7, Ledger DEF AsyncCommitStarted, CoreInv
    <2>4. QED
      BY <1>7, <2>2, <2>3
         DEF Calm, CalmShared, AsyncCommitStarted, list, durable
  <1>8. CASE Acknowledge(p)
    BY <1>8, <1>b, Ledger
       DEF OutPoints, Calm, CalmShared, Acknowledge, shared, list, durable,
           CoreInv
  <1>9. CASE KthreadAttach(p) \/ KthreadError(p)
    <2>1. /\ proc[p].pc = "idle" /\ proc'[p].pc \in {"start", "scan"}
          /\ proc'[p].cont = proc[p].cont /\ UNCHANGED shared
      BY <1>9, TaskFacts DEF KthreadAttach, KthreadError, At, Goto, ProcState
    <2>2. CalmTask(p)
      BY <1>a, <2>1, OutCalm DEF OutPoints
    <2>3. SameLedger
      BY <2>1, Ledger DEF shared, CoreInv
    <2>4. QED BY <2>1, <2>2, <2>3 DEF Calm, CalmShared, shared, list, durable
  <1>10. QED
    BY <1>1, <1>2, <1>3, <1>4, <1>5, <1>6, <1>7, <1>8, <1>9 DEF Special

LEMMA CalmHandle ==
  ASSUME CoreInv, PointerInv, NEW p \in Procs,
         \/ Joined(p) \/ CommitEntry(p) \/ KthreadAttached(p)
         \/ AbortTransaction(p) \/ HandleFsError(p) \/ EndTransaction(p)
         \/ EndPut(p)
  PROVE  Calm(p) \/ Special(p)
  <1>1. CASE Joined(p) \/ CommitEntry(p) \/ KthreadAttached(p)
    <2>1. /\ proc[p].pc \in {"joined", "commit", "held"}
          /\ proc'[p].pc \in {"held", "commit", "prep", "endw", "abort"}
          /\ proc'[p].pc = "abort" => proc'[p].cont = "ret"
          /\ proc'[p].ext = proc[p].ext
          /\ proc'[p].cont \in {proc[p].cont, "ret"}
          /\ UNCHANGED shared
      BY <1>1, TaskFacts
         DEF Joined, CommitEntry, KthreadAttached, At, Goto, ProcState
    <2>2. CalmTask(p)
      BY <2>1, HeldCalm DEF CalmPoints, HandlePoints, ErrorPoints
    <2>3. SameLedger
      BY <2>1, Ledger DEF shared, CoreInv
    <2>4. QED BY <2>1, <2>2, <2>3 DEF Calm, CalmShared, shared, list, durable
  <1>2. CASE AbortTransaction(p) /\ proc[p].cont # "clean"
    <2>1. /\ proc[p].pc = "abort" /\ proc'[p].pc = "fserror"
          /\ proc'[p].ext = proc[p].ext /\ proc'[p].cont = proc[p].cont
      BY <1>2, TaskFacts DEF AbortTransaction, At, Goto, ProcState
    <2>2. CalmTask(p)
      BY <1>2, <2>1, HeldCalm DEF CalmPoints, HandlePoints, ErrorPoints
    <2>3. SameLedger
      BY <1>2, Ledger DEF AbortTransaction, CoreInv
    <2>4. QED
      BY <1>2, <2>2, <2>3 DEF Calm, CalmShared, AbortTransaction, list, durable
  <1>3. CASE HandleFsError(p) /\ proc[p].cont # "clean"
    <2>1. /\ proc[p].pc = "fserror" /\ proc'[p].pc \in {"endw", "held"}
          /\ proc'[p].ext = proc[p].ext /\ proc'[p].cont = proc[p].cont
      BY <1>3, TaskFacts DEF HandleFsError, At, Goto, ProcState
    <2>2. CalmTask(p)
      BY <1>3, <2>1, HeldCalm DEF CalmPoints, HandlePoints, ErrorPoints
    <2>3. SameLedger
      BY <1>3, Ledger DEF HandleFsError, CoreInv
    <2>4. QED
      BY <1>3, <2>2, <2>3 DEF Calm, CalmShared, HandleFsError, list
  <1>4. CASE EndTransaction(p)
    <2>1. /\ proc[p].pc = "endw" /\ proc'[p].pc = "endput"
          /\ proc'[p].ext = FALSE /\ proc'[p].cont = proc[p].cont
          /\ proc'[p].ref = proc[p].ref
      BY <1>4, TaskFacts DEF EndTransaction, At, ProcState
    <2>2. CalmTask(p)
      BY <1>4, <2>1, HeldCalm DEF CalmPoints, HandlePoints, ErrorPoints
    <2>3. SameLedger
      <3>1. tx \in [TransIds -> TxState]
        BY DEF CoreInv, TypeOK
      <3>2. tx' = [tx EXCEPT ![proc[p].tx].writers = @ - 1,
                             ![proc[p].tx].ext = @ - DropExt(p)]
        BY <1>4 DEF EndTransaction
      <3>3. \A k \in TransIds : Kept(k)
        BY <3>1, <3>2, KeptByCounts
      <3>4. QED BY <3>3 DEF SameLedger
    <2>4. QED
      BY <1>4, <2>2, <2>3 DEF Calm, CalmShared, EndTransaction, list, durable
  <1>5. CASE EndPut(p) /\ proc[p].cont # "waiter"
    <2>1. SameLedger /\ CalmShared(p)
      BY <1>5, Ledger DEF CalmShared, EndPut, list, durable, CoreInv
    <2>2. CASE Return(p)
      BY <1>5, <2>1, <2>2, ReturnCalm DEF Calm, EndPut, At
    <2>3. CASE ~Return(p)
      <3>1. /\ proc[p].pc = "endput" /\ proc'[p].pc = "asyncwait"
            /\ proc'[p].cont = "async"
        BY <1>5, <2>3, TaskFacts DEF EndPut, At, ProcState
      <3>2. Role(proc'[p]) # "handle"
        BY <3>1, RolePoints DEF HandlePoints, ErrorPoints
      <3>3. CalmTask(p)
        BY <3>1, <3>2 DEF CalmTask, CalmPoints, ErrorPoints
      <3>4. QED BY <2>1, <3>3 DEF Calm
    <2>4. QED BY <2>2, <2>3
  <1>6. QED BY <1>1, <1>2, <1>3, <1>4, <1>5 DEF Special

LEMMA CalmWait ==
  ASSUME CoreInv, PointerInv, NEW p \in Procs,
         FindCommit(p) \/ Waited(p) \/ KthreadScan(p)
  PROVE  Calm(p) \/ Special(p)
  <1>1. CASE FindCommit(p)
    <2>1. proc[p].pc = "find"
      BY <1>1 DEF FindCommit, At
    <2>2. CASE WaitOver(p, TRUE)
      <3>1. CalmTask(p)
        BY <2>1, <2>2, OverCalm
      <3>2. SameLedger /\ CalmShared(p)
        BY <1>1, Ledger DEF FindCommit, CalmShared, list, durable, CoreInv
      <3>3. QED BY <3>1, <3>2 DEF Calm
    <2>3. CASE ~WaitOver(p, TRUE)
      <3>1. proc'[p].pc = "wait"
        BY <1>1, <2>3, TaskFacts DEF FindCommit, ProcState
      <3>2. QED BY <1>1, <2>1, <3>1 DEF Special, At
    <2>4. QED BY <2>2, <2>3
  <1>2. CASE Waited(p)
    <2>1. proc[p].pc = "waited"
      BY <1>2 DEF Waited, At
    <2>2. SameLedger /\ CalmShared(p)
      BY <1>2, Ledger DEF Waited, CalmShared, list, durable, CoreInv
    <2>3. CASE proc[p].cont = "prev"
      <3>1. proc'[p].pc \in {"abort", "prevdone"}
        BY <1>2, <2>3, TaskFacts DEF Waited, ProcState
      <3>2. QED BY <1>2, <3>1 DEF Special
    <2>4. CASE proc[p].cont = "waiter"
      <3>1. CASE Return(p)
        BY <2>1, <2>2, <3>1, ReturnCalm DEF Calm
      <3>2. CASE ~Return(p)
        <4>1. proc'[p].pc = "committed"
          BY <1>2, <2>4, <3>2, TaskFacts DEF Waited, ProcState
        <4>2. QED BY <1>2, <4>1 DEF Special
      <3>3. QED BY <3>1, <3>2
    <2>5. CASE proc[p].cont \notin {"prev", "waiter"}
      <3>1. WaitOver(p, ~tx[proc[p].ref].aborted)
        BY <1>2, <2>5 DEF Waited
      <3>2. PICK ok \in BOOLEAN : ok = ~tx[proc[p].ref].aborted
        OBVIOUS
      <3>3. WaitOver(p, ok)
        BY <3>1, <3>2
      <3>4. QED BY <2>1, <2>2, <3>3, OverCalm DEF Calm
    <2>6. QED BY <2>3, <2>4, <2>5
  <1>3. CASE KthreadScan(p)
    <2>1. proc[p].pc = "scan"
      BY <1>3 DEF KthreadScan, At
    <2>2. CASE proc'[p].pc \in {"drain", "clean1"}
      BY <1>3, <2>2 DEF Special
    <2>3. CASE proc'[p].pc \notin {"drain", "clean1"}
      <3>1. SameLedger /\ CalmShared(p)
        <4>1. \/ UNCHANGED tx
              \/ \E i : tx' = Pin(i)
          BY <1>3, <2>3, TaskFacts DEF KthreadScan, ProcState
        <4>2. QED
          BY <1>3, <4>1, Ledger
             DEF KthreadScan, CalmShared, list, durable, CoreInv
      <3>2. proc'[p].pc \in {"idle", "find"} /\ proc'[p].cont # "waiter"
        <4>1. proc[p].cont = "none"
          BY <2>1, TaskFacts DEF Shape
        <4>2. CASE Goto(p, "idle")
          BY <4>1, <4>2, TaskFacts DEF Goto, ProcState
        <4>3. ASSUME NEW i \in listed,
                     proc' = [proc EXCEPT ![p].pc = "find", ![p].cont = "scan",
                                          ![p].goal = i, ![p].pin = i]
              PROVE  proc'[p].pc = "find" /\ proc'[p].cont = "scan"
          BY <4>3, TaskFacts DEF ProcState
        <4>4. ASSUME NEW i \in listed,
                     proc' = [proc EXCEPT ![p].doom = i,
                         ![p].pc = IF i = running THEN "drain" ELSE "clean1"]
              PROVE  FALSE
          BY <2>3, <4>4, TaskFacts DEF ProcState
        <4>5. QED BY <1>3, <4>2, <4>3, <4>4 DEF KthreadScan
      <3>3. CalmTask(p)
        BY <2>1, <3>2, OutCalm DEF OutPoints
      <3>4. QED BY <3>1, <3>3 DEF Calm
    <2>4. QED BY <2>2, <2>3
  <1>4. QED BY <1>1, <1>2, <1>3

LEMMA StepCases ==
  ASSUME CoreInv, PointerInv, NEW p \in Procs, Step(p)
  PROVE  Calm(p) \/ Special(p)
  <1>1. CASE Requests(p) \/ Release(p)
    BY <1>1, CalmRequests
  <1>2. CASE LogLocks(p)
    BY <1>2 DEF LogLocks, Special
  <1>3. CASE Proceed(p)
    BY <1>3, CalmStart, CalmHandle, CalmWait DEF Proceed, Special
  <1>4. QED BY <1>1, <1>2, <1>3 DEF Step

-----------------------------------------------------------------------------
(***************************************************************************)
(* What a step leaves alone                                                *)
(***************************************************************************)
LEMMA RegularFacts ==
  ASSUME CoreInv, NEW p \in Procs, Regular(p)
  PROVE  /\ OthersStay(p) /\ generation \in Nat
         /\ generation' \in {generation, generation + 1}
         /\ \A i \in listed' : i \in listed \/ i = generation + 1
         /\ generation' = generation => listed' \subseteq listed
  <1>1. OthersStay(p) /\ Kind(p) /\ generation \in Nat
    BY DEF Regular, CoreInv, TypeOK
  <1>2. CASE Stays(p) \/ Joins(p) \/ Leaves(p) \/ Takes(p)
    BY <1>1, <1>2 DEF Stays, Joins, Leaves, Takes, list
  <1>3. CASE Opens(p)
    BY <1>1, <1>3 DEF Opens
  <1>4. CASE MovesOn(p)
    BY <1>1, <1>4 DEF MovesOn
  <1>5. CASE Drops(p)
    BY <1>1, <1>5 DEF Drops
  <1>6. QED BY <1>1, <1>2, <1>3, <1>4, <1>5 DEF Kind

(* Nobody changes the state of a transaction that another task owns.       *)
LEMMA OthersStates ==
  ASSUME CoreInv, NEW p \in Procs, Regular(p),
         NEW q \in Procs \ {p}, RoleOf(q) \in Owners
  PROVE  tx'[TargetOf(q)].state = tx[TargetOf(q)].state
  <1> DEFINE i == TargetOf(q)
  <1>1. i \in TransIds /\ i <= generation /\ generation \in Nat
    BY TargetType, RoleSets DEF CoreInv, TypeOK, RoleInv, Bounded
  <1>2. Kind(p)
    BY DEF Regular
  <1>3. CASE Stays(p) \/ Joins(p) \/ Leaves(p) \/ Drops(p)
    BY <1>1, <1>3 DEF Stays, Joins, Leaves, Drops, SameStates
  <1>4. CASE Opens(p)
    BY <1>1, <1>4 DEF Opens, TransIds
  <1>5. CASE Takes(p)
    <2>1. tx[i].state >= COMMIT_PREP
      BY DEF CoreInv, RoleInv, Owned, OwnedState
    <2>2. tx[i].state \in 0..6
      BY <1>1, StateValues DEF CoreInv, TypeOK, TxState
    <2>3. i # NewTarget(p)
      BY <1>5, <2>1, <2>2, StateValues DEF Takes
    <2>4. QED BY <1>1, <1>5, <2>3 DEF Takes, SameStatesBut
  <1>6. CASE MovesOn(p)
    <2>1. i # TargetOf(p)
      BY <1>6 DEF MovesOn, CoreInv, RoleInv, OneOwner
    <2>2. QED BY <1>1, <1>6, <2>1 DEF MovesOn, SameStatesBut
  <1>7. QED BY <1>2, <1>3, <1>4, <1>5, <1>6 DEF Kind

LEMMA PointerKept ==
  ASSUME CoreInv, PointerInv, NEW p \in Procs, Step(p)
  PROVE  PointerInv'
  <1>1. Regular(p) /\ Pointers(p)
    BY StepIsRegular, PointerStep
  <1>2. OthersStay(p) /\ generation' \in {generation, generation + 1}
        /\ generation \in Nat
    BY <1>1, RegularFacts
  <1>3. ASSUME NEW q \in Procs
        PROVE  /\ RefShape(proc'[q])
               /\ proc'[q].ref <= generation' /\ proc'[q].wtx <= generation'
               /\ proc'[q].pin <= generation'
    <2>1. CASE q = p
      <3>1. proc'[q] \in ProcState
        BY <1>1, StepIsRegular, TypeStep DEF CoreInv, TypeOK, Next
      <3>2. QED
        BY <1>1, <1>2, <2>1, <3>1 DEF Pointers, RefBounded, ProcState
    <2>2. CASE q # p
      <3>1. proc'[q] = proc[q]
        BY <1>2, <2>2 DEF OthersStay
      <3>2. QED
        BY <1>2, <3>1, PointerFacts DEF RefBounded, ProcState
    <2>3. QED BY <2>1, <2>2
  <1>4. QED BY <1>3 DEF PointerInv, RefBounded

-----------------------------------------------------------------------------
(***************************************************************************)
(* Commits in order                                                        *)
(***************************************************************************)
(* Transaction k may become ready in this step.                            *)
MayBeReady(k) ==
  k <= generation /\ (\/ Ready(k)
                      \/ \A i \in listed' : i < k =>
                            tx'[i].state >= SUPER_COMMITTED)

(* p keeps OrderInv: no transaction becomes ready too early or unsettled.  *)
OrderFrame(p) ==
  /\ \A i \in 1..generation :
        tx[i].state >= SUPER_COMMITTED => tx'[i].state >= SUPER_COMMITTED
  /\ \A k \in 1..generation' :
        \/ tx'[k].state >= COMMIT_START
        \/ /\ proc'[p].tx = k
           /\ proc'[p].pc = "prevdone" \/ NewRole(p) = "fail"
        => MayBeReady(k)
  /\ Reached(proc'[p]) => tx'[proc'[p].ref].state >= SUPER_COMMITTED
  /\ proc'[p].pc \in WaitPoints /\ NewRole(p) = "prep" =>
        \A i \in listed' : i < proc'[p].tx => i <= proc'[p].ref
  /\ proc'[p].pc \in {"cleandel", "clean1", "clean2", "clean3"} =>
        tx'[NewTarget(p)].state \in COMMIT_START..UNBLOCKED

LEMMA OrderKept ==
  ASSUME CoreInv, PointerInv, OrderInv, NEW p \in Procs, Regular(p),
         OrderFrame(p)
  PROVE  OrderInv'
  <1>1. /\ OthersStay(p) /\ generation \in Nat
        /\ generation' \in {generation, generation + 1}
        /\ \A i \in listed' : i \in listed \/ i = generation + 1
        /\ \A i \in listed : i \in 1..generation
    BY RegularFacts, PointerFacts
  <1>2. \A q \in Procs \ {p} :
           /\ proc'[q] = proc[q]
           /\ RoleOf(q)' = RoleOf(q) /\ TargetOf(q)' = TargetOf(q)
    BY <1>1, OthersRoles DEF OthersStay
  <1>3. ASSUME NEW k \in 1..generation', Ready(k)'
        PROVE  MayBeReady(k)
    <2>1. CASE tx'[k].state >= COMMIT_START
      BY <2>1 DEF OrderFrame
    <2>2. ASSUME NEW q \in Procs, proc'[q].tx = k,
                 proc'[q].pc = "prevdone" \/ Role(proc'[q]) = "fail"
          PROVE  MayBeReady(k)
      <3>1. CASE q = p
        BY <2>2, <3>1 DEF OrderFrame, NewRole
      <3>2. CASE q # p
        <4>1. proc'[q] = proc[q]
          BY <1>2, <3>2
        <4>2. Ready(k)
          BY <2>2, <4>1 DEF Ready, At, RoleOf
        <4>3. k <= generation
          BY <2>2, <4>1, PointerFacts, <1>1
        <4>4. QED BY <4>2, <4>3 DEF MayBeReady
      <3>3. QED BY <3>1, <3>2
    <2>3. QED BY <1>3, <2>1, <2>2 DEF Ready, At, RoleOf
  <1>4. EarlierSettled'
    <2> SUFFICES ASSUME NEW k \in 1..generation', Ready(k)',
                        NEW i \in listed', i < k
                 PROVE  tx'[i].state >= SUPER_COMMITTED
      BY DEF EarlierSettled
    <2>1. MayBeReady(k) /\ k \in 1..generation
      BY <1>1, <1>3 DEF MayBeReady
    <2>2. i \in listed /\ i \in 1..generation
      BY <1>1, <2>1
    <2>3. CASE Ready(k)
      <3>1. tx[i].state >= SUPER_COMMITTED
        BY <2>1, <2>2, <2>3 DEF OrderInv, EarlierSettled
      <3>2. QED BY <2>2, <3>1 DEF OrderFrame
    <2>4. QED BY <2>1, <2>3 DEF MayBeReady
  <1>5. ASSUME NEW q \in Procs
        PROVE  WaitsForPrevious(q)' /\ NotSettled(q)'
    <2>1. CASE q = p
      BY <2>1, OwnRole
         DEF OrderFrame, WaitsForPrevious, NotSettled, RoleOf, TargetOf,
             NewRole, NewTarget
    <2>2. CASE q # p
      <3>0. /\ proc'[q] = proc[q] /\ RoleOf(q)' = RoleOf(q)
            /\ TargetOf(q)' = TargetOf(q)
            /\ WaitsForPrevious(q) /\ NotSettled(q)
        BY <1>2, <2>2 DEF OrderInv
      <3>1. ASSUME Reached(proc[q])
            PROVE  tx'[proc[q].ref].state >= SUPER_COMMITTED
        <4>1. proc[q].ref \in 1..generation
          BY <3>1, PointerFacts
             DEF Reached, RefShape, RefBounded, WaitPoints, ProcState
        <4>2. QED BY <3>0, <3>1, <4>1 DEF WaitsForPrevious, OrderFrame
      <3>2. ASSUME proc[q].pc \in WaitPoints, RoleOf(q) = "prep",
                   NEW i \in listed', i < proc[q].tx
            PROVE  i <= proc[q].ref
        <4>1. proc[q].tx \in 0..generation
          BY PointerFacts, <1>1
        <4>2. i \in listed
          BY <1>1, <3>2, <4>1
        <4>3. QED BY <3>0, <3>2, <4>2 DEF WaitsForPrevious
      <3>3. ASSUME proc[q].pc \in {"cleandel", "clean1", "clean2", "clean3"}
            PROVE  tx'[TargetOf(q)].state \in COMMIT_START..UNBLOCKED
        <4>1. RoleOf(q) \in {"dead", "walk", "kwalk"}
          BY <3>3, RolePoints DEF RoleOf, WalkPoints
        <4>2. tx'[TargetOf(q)].state = tx[TargetOf(q)].state
          BY <2>2, <4>1, OthersStates DEF Owners, Committers, Reapers
        <4>3. QED BY <3>0, <3>3, <4>2 DEF NotSettled
      <3>4. WaitsForPrevious(q)'
        BY <3>0, <3>1, <3>2 DEF WaitsForPrevious
      <3>5. NotSettled(q)'
        BY <3>0, <3>3 DEF NotSettled
      <3>6. QED BY <3>4, <3>5
    <2>3. QED BY <2>1, <2>2
  <1>6. QED BY <1>4, <1>5 DEF OrderInv

LEMMA Created ==
  ASSUME CoreInv
  PROVE  /\ generation \in Nat /\ listed \subseteq 1..generation
         /\ \A k \in 1..generation : k \in TransIds /\ tx[k].state \in 0..6
  <1>1. generation \in 0..MaxTrans /\ tx \in [TransIds -> TxState]
    BY DEF CoreInv, TypeOK
  <1>2. \A k \in TransIds : tx[k].state \in 0..6
    BY <1>1, StateValues DEF TxState
  <1>3. \A k \in 1..generation : k \in TransIds
    BY <1>1, ConstantsAssumption DEF TransIds
  <1>4. listed \subseteq 1..generation
    BY DEF CoreInv, RoleInv, Bounded
  <1>5. QED BY <1>1, <1>2, <1>3, <1>4

(* The ways into the commit. *)
LEMMA CommitPrepCases ==
  ASSUME CoreInv, NEW p \in Procs, CommitPrep(p)
  PROVE  LET i == proc[p].tx IN
         /\ proc[p].pc = "prep" /\ UNCHANGED <<list, fsError, durable>>
         /\ proc'[p].ext = proc[p].ext /\ proc'[p].tx = i
         /\ \/ /\ CommitHasStarted(i) /\ tx' = Pin(i)
               /\ proc'[p].pc = "endw" /\ proc'[p].cont = "waiter"
               /\ proc'[p].ref = i
            \/ /\ ~CommitHasStarted(i)
               /\ \E k \in listed :
                     k < i /\ tx' = [Pin(k) EXCEPT ![i].state = COMMIT_PREP]
               /\ proc'[p].pc = "wait" /\ proc'[p].cont = "prev"
            \/ /\ ~CommitHasStarted(i)
               /\ tx' = [tx EXCEPT ![i].state = COMMIT_PREP]
               /\ proc'[p].pc = "abort" /\ proc'[p].cont = "clean"
            \/ /\ ~CommitHasStarted(i)
               /\ tx' = [tx EXCEPT ![i].state = COMMIT_START]
               /\ proc'[p].pc = "dropext" /\ proc'[p].cont = proc[p].cont
  <1> DEFINE i == proc[p].tx
  <1>0. proc[p].pc = "prep" /\ UNCHANGED <<list, fsError, durable>>
    BY DEF CommitPrep, At
  <1>1. CASE /\ CommitHasStarted(i) /\ tx' = Pin(i)
             /\ proc' = [proc EXCEPT ![p].pc = "endw", ![p].cont = "waiter",
                                     ![p].ref = i]
    BY <1>0, <1>1, TaskFacts DEF ProcState
  <1>2. ASSUME NEW k \in listed, k < i, ~CommitHasStarted(i),
               tx' = [Pin(k) EXCEPT ![i].state = COMMIT_PREP],
               proc' = [proc EXCEPT ![p].pc = "wait", ![p].cont = "prev",
                                    ![p].ref = k]
        PROVE  /\ proc'[p].ext = proc[p].ext /\ proc'[p].tx = i
               /\ proc'[p].pc = "wait" /\ proc'[p].cont = "prev"
    BY <1>2, TaskFacts DEF ProcState
  <1>3. CASE /\ ~CommitHasStarted(i) /\ Fail(p)
             /\ tx' = [tx EXCEPT ![i].state = COMMIT_PREP]
    BY <1>0, <1>3, TaskFacts DEF ProcState, Fail
  <1>4. CASE /\ ~CommitHasStarted(i) /\ Goto(p, "dropext")
             /\ tx' = [tx EXCEPT ![i].state = COMMIT_START]
    BY <1>0, <1>4, TaskFacts DEF ProcState, Goto
  <1>5. \/ /\ CommitHasStarted(i) /\ tx' = Pin(i)
           /\ proc' = [proc EXCEPT ![p].pc = "endw", ![p].cont = "waiter",
                                   ![p].ref = i]
        \/ /\ ~CommitHasStarted(i) /\ Fail(p)
           /\ tx' = [tx EXCEPT ![i].state = COMMIT_PREP]
        \/ /\ ~CommitHasStarted(i) /\ Goto(p, "dropext")
           /\ tx' = [tx EXCEPT ![i].state = COMMIT_START]
        \/ \E k \in listed :
              /\ k < i /\ ~CommitHasStarted(i)
              /\ tx' = [Pin(k) EXCEPT ![i].state = COMMIT_PREP]
              /\ proc' = [proc EXCEPT ![p].pc = "wait", ![p].cont = "prev",
                                      ![p].ref = k]
    BY DEF CommitPrep
  <1>6. QED BY <1>0, <1>1, <1>2, <1>3, <1>4, <1>5

LEMMA OrderSame ==
  ASSUME CoreInv, PointerInv, NEW p \in Procs, generation' = generation,
         SameStates,
         proc'[p].pc \notin WaitPoints \cup {"prevdone", "cleandel", "clean1",
                                             "clean2", "clean3"},
         NewRole(p) # "fail"
  PROVE  OrderFrame(p)
  <1>1. \A k \in 1..generation : k \in TransIds
    BY Created
  <1>2. \A k \in 1..generation : tx'[k].state = tx[k].state
    BY <1>1 DEF SameStates
  <1>3. \A k \in 1..generation' : tx'[k].state >= COMMIT_START => MayBeReady(k)
    BY <1>2 DEF MayBeReady, Ready, CoreInv, TypeOK
  <1>4. QED
    BY <1>2, <1>3 DEF OrderFrame, Reached, WaitPoints

(* p does something to transaction i only.                                 *)
LEMMA OrderOne ==
  ASSUME CoreInv, PointerInv, NEW p \in Procs, generation' = generation,
         NEW i \in 1..generation, SameStatesBut(i),
         tx[i].state >= SUPER_COMMITTED => tx'[i].state >= SUPER_COMMITTED,
         MayBeReady(i), proc'[p].pc \notin WaitPoints,
         \/ proc'[p].tx = i
         \/ proc'[p].pc # "prevdone" /\ NewRole(p) # "fail",
         proc'[p].pc \in {"cleandel", "clean1", "clean2", "clean3"} =>
            /\ NewTarget(p) = i
            /\ tx'[i].state \in COMMIT_START..UNBLOCKED
  PROVE  OrderFrame(p)
  <1>1. \A k \in 1..generation : k \in TransIds
    BY Created
  <1>2. \A k \in 1..generation : k # i => tx'[k].state = tx[k].state
    BY <1>1 DEF SameStatesBut
  <1>3. \A k \in 1..generation :
           k # i /\ tx'[k].state >= COMMIT_START => MayBeReady(k)
    BY <1>2 DEF MayBeReady, Ready, CoreInv, TypeOK
  <1>4. \A k \in 1..generation :
           tx[k].state >= SUPER_COMMITTED => tx'[k].state >= SUPER_COMMITTED
    BY <1>2
  <1>5. QED
    BY <1>2, <1>3, <1>4 DEF OrderFrame, Reached, WaitPoints

LEMMA CalmOrder ==
  ASSUME CoreInv, PointerInv, NEW p \in Procs, Calm(p)
  PROVE  OrderFrame(p)
  <1>1. SameStates /\ generation' = generation
    BY DEF Calm, SameLedger, Kept, SameStates, CalmShared, list
  <1>2. NewRole(p) # "fail"
    BY RolePoints DEF Calm, CalmTask, CalmPoints, NewRole
  <1>3. QED
    BY <1>1, <1>2, OrderSame DEF Calm, CalmTask, CalmPoints, WaitPoints

LEMMA ReadyOwner ==
  ASSUME CoreInv, NEW p \in Procs, NEW i, i = proc[p].tx,
         \/ proc[p].pc \in {"prevdone", "dropext", "extwait", "ordwait",
                            "wrwait", "doing", "unblock", "write", "super",
                            "finish", "unlist", "cleanlock", "cleanwait"}
         \/ proc[p].pc \in ErrorPoints /\ proc[p].cont = "clean"
  PROVE  i \in 1..generation /\ Ready(i) /\ MayBeReady(i)
  <1>1. /\ i \in TransIds /\ Role(proc[p]) \in Committers \ {"walk"}
        /\ tx[i].state \in 0..6 /\ OwnedState(Role(proc[p]), tx[i].state)
    BY CommitterFacts DEF CommitPoints
  <1>2. i \in 1..generation /\ generation \in Nat
    <2>1. TargetOf(p) = i /\ TargetOf(p) <= generation
      BY CommitterFacts DEF CommitPoints, TargetOf, CoreInv, RoleInv, Bounded
    <2>2. QED BY <1>1, <2>1, Created DEF TransIds
  <1>3. Ready(i)
    <2>1. CASE proc[p].pc = "prevdone"
      BY <2>1 DEF Ready, At
    <2>2. CASE \/ proc[p].pc = "cleanlock"
               \/ proc[p].pc \in ErrorPoints /\ proc[p].cont = "clean"
      BY <2>2, RolePoints DEF Ready, RoleOf
    <2>3. CASE proc[p].pc \in {"dropext", "extwait", "ordwait", "wrwait",
                               "doing", "unblock", "write", "super", "finish",
                               "unlist", "cleanwait"}
      <3>1. Role(proc[p]) \in {"start", "quiet", "doing", "alone", "writing",
                               "done", "failwait"}
        BY <2>3, RolePoints
      <3>2. tx[i].state >= COMMIT_START
        BY <1>1, <3>1, StateValues DEF OwnedState
      <3>3. QED BY <3>2 DEF Ready
    <2>4. QED BY <2>1, <2>2, <2>3
  <1>4. QED BY <1>2, <1>3 DEF MayBeReady

LEMMA OrderCommit ==
  ASSUME CoreInv, PointerInv, OrderInv, NEW p \in Procs,
         \/ PrevCommitted(p) \/ DropExtwriter(p) \/ NoExtwriters(p)
         \/ NoPendingOrdered(p) \/ NoOtherWriters(p) \/ CommitDoing(p)
         \/ CommitUnblock(p) \/ WriteBlocks(p) \/ WriteSuper(p)
         \/ CommitFinish(p)
  PROVE  OrderFrame(p)
  <1> DEFINE i == proc[p].tx
  <1>1. /\ proc[p].pc \in {"prevdone", "dropext", "extwait", "ordwait",
                           "wrwait", "doing", "unblock", "write", "super",
                           "finish"}
        /\ generation' = generation
    BY DEF PrevCommitted, DropExtwriter, NoExtwriters, NoPendingOrdered,
           NoOtherWriters, CommitDoing, CommitUnblock, WriteBlocks, WriteSuper,
           CommitFinish, At, list, shared
  <1>2. /\ i \in 1..generation /\ MayBeReady(i) /\ i \in TransIds
        /\ tx \in [TransIds -> TxState] /\ tx[i].state \in 0..6
        /\ OwnedState(Role(proc[p]), tx[i].state)
    <2>0. i = proc[p].tx
      OBVIOUS
    <2> HIDE DEF i
    <2>1. i \in 1..generation /\ MayBeReady(i)
      BY <1>1, <2>0, ReadyOwner
    <2>2. QED BY <1>1, <2>0, <2>1, CommitterFacts DEF CommitPoints
  <1> SUFFICES /\ proc'[p].tx = i
               /\ proc'[p].pc \in {"dropext", "extwait", "ordwait", "wrwait",
                                   "doing", "unblock", "write", "super",
                                   "finish", "unlist", "abort"}
               /\ SameStatesBut(i)
               /\ tx[i].state >= SUPER_COMMITTED =>
                     tx'[i].state >= SUPER_COMMITTED
    BY <1>1, <1>2, OrderOne DEF WaitPoints
  <1>3. CASE DropExtwriter(p)
    <2>1. SameLedger
      <3>1. tx' = [tx EXCEPT ![i].ext = @ - DropExt(p)]
        BY <1>3 DEF DropExtwriter
      <3>2. \A k \in TransIds : Kept(k)
        BY <1>2, <3>1, KeptByCounts
      <3>3. QED BY <3>2 DEF SameLedger
    <2>2. proc'[p].tx = i /\ proc'[p].pc \in {"extwait", "abort"}
      BY <1>3, TaskFacts DEF DropExtwriter, ProcState
    <2>3. QED
      BY <1>2, <2>1, <2>2 DEF SameLedger, Kept, SameStatesBut
  <1>4. CASE NoExtwriters(p) \/ NoOtherWriters(p)
    BY <1>4, TaskFacts
       DEF NoExtwriters, NoOtherWriters, GotoOrFail, Goto, Fail, ProcState,
           shared, SameStatesBut
  <1>5. CASE CommitDoing(p)
    BY <1>5, TaskFacts DEF CommitDoing, Goto, Fail, ProcState, SameStatesBut
  <1>6. CASE WriteBlocks(p)
    BY <1>6, TaskFacts DEF WriteBlocks, Goto, Fail, ProcState, SameStatesBut
  <1>7. CASE PrevCommitted(p)
    <2>1. Role(proc[p]) = "prep"
      BY <1>7, RolePoints DEF PrevCommitted, At
    <2>2. SameStatesBut(i)
      BY <1>2, <1>7, StateSet DEF PrevCommitted
    <2>3. QED
      BY <1>2, <1>7, <2>1, <2>2, StateValues, TaskFacts
         DEF PrevCommitted, Goto, ProcState, OwnedState
  <1>8. CASE NoPendingOrdered(p)
    <2>1. Role(proc[p]) = "quiet"
      BY <1>8, RolePoints DEF NoPendingOrdered, At
    <2>2. SameStatesBut(i)
      BY <1>2, <1>8, StateSet DEF NoPendingOrdered
    <2>3. QED
      BY <1>2, <1>8, <2>1, <2>2, StateValues, TaskFacts
         DEF NoPendingOrdered, Goto, ProcState, OwnedState
  <1>9. CASE CommitUnblock(p)
    <2>1. Role(proc[p]) = "alone"
      BY <1>9, RolePoints DEF CommitUnblock, At
    <2>2. SameStatesBut(i)
      BY <1>2, <1>9, StateSet DEF CommitUnblock
    <2>3. QED
      BY <1>2, <1>9, <2>1, <2>2, StateValues, TaskFacts
         DEF CommitUnblock, Goto, ProcState, OwnedState
  <1>10. CASE WriteSuper(p)
    <2>1. CASE UNCHANGED tx
      BY <1>10, <2>1, TaskFacts
         DEF WriteSuper, Goto, Fail, ProcState, SameStatesBut
    <2>2. CASE tx' = [tx EXCEPT ![i].state = SUPER_COMMITTED]
      <3>1. SameStatesBut(i) /\ tx'[i].state = SUPER_COMMITTED
        BY <1>2, <2>2, StateSet
      <3>2. proc'[p].tx = i /\ proc'[p].pc \in {"finish", "abort"}
        BY <1>10, TaskFacts DEF WriteSuper, Goto, Fail, ProcState
      <3>3. QED BY <3>1, <3>2, StateValues
    <2>3. QED BY <1>10, <2>1, <2>2 DEF WriteSuper
  <1>11. CASE CommitFinish(p)
    <2>1. SameStatesBut(i) /\ tx'[i].state = COMPLETED
      BY <1>2, <1>11, StateSet DEF CommitFinish
    <2>2. proc'[p].tx = i /\ proc'[p].pc = "unlist"
      BY <1>11, TaskFacts DEF CommitFinish, Goto, ProcState
    <2>3. QED BY <2>1, <2>2, StateValues
  <1>12. QED
    BY <1>3, <1>4, <1>5, <1>6, <1>7, <1>8, <1>9, <1>10, <1>11

LEMMA OrderClean ==
  ASSUME CoreInv, PointerInv, OrderInv, NEW p \in Procs,
         \/ AbortTransaction(p) /\ proc[p].cont = "clean"
         \/ HandleFsError(p) /\ proc[p].cont = "clean"
         \/ CleanupLock(p) \/ CleanupWait(p)
  PROVE  OrderFrame(p)
  <1> DEFINE i == proc[p].tx
  <1>1. /\ \/ proc[p].pc \in ErrorPoints /\ proc[p].cont = "clean"
           \/ proc[p].pc \in {"cleanlock", "cleanwait"}
        /\ generation' = generation
    BY DEF AbortTransaction, HandleFsError, CleanupLock, CleanupWait, At, list,
           shared, ErrorPoints
  <1>2. /\ i \in 1..generation /\ MayBeReady(i) /\ i \in TransIds
        /\ tx \in [TransIds -> TxState] /\ tx[i].state \in 0..6
        /\ OwnedState(Role(proc[p]), tx[i].state)
        /\ OwnedPlace(Role(proc[p]), tx[i].state, i, running, listed)
    <2>0. i = proc[p].tx
      OBVIOUS
    <2> HIDE DEF i
    <2>1. i \in 1..generation /\ MayBeReady(i)
      BY <1>1, <2>0, ReadyOwner
    <2>2. QED BY <1>1, <2>0, <2>1, CommitterFacts DEF CommitPoints
  <1>3. CASE AbortTransaction(p) /\ proc[p].cont = "clean"
    <2>1. SameLedger
      BY <1>3, Ledger DEF AbortTransaction, CoreInv
    <2>2. proc'[p].tx = i /\ proc'[p].pc = "fserror"
      BY <1>3, TaskFacts DEF AbortTransaction, Goto, ProcState
    <2>3. SameStatesBut(i) /\ tx'[i].state = tx[i].state
      BY <1>2, <2>1 DEF SameLedger, Kept, SameStatesBut
    <2>4. QED BY <1>1, <1>2, <2>2, <2>3, OrderOne DEF WaitPoints
  <1>4. CASE HandleFsError(p) /\ proc[p].cont = "clean"
    <2>1. proc'[p].tx = i /\ proc'[p].pc = "cleanlock"
      BY <1>4, TaskFacts DEF HandleFsError, Goto, ProcState
    <2>2. SameStatesBut(i) /\ tx'[i].state = tx[i].state
      BY <1>4 DEF HandleFsError, SameStatesBut
    <2>3. QED BY <1>1, <1>2, <2>1, <2>2, OrderOne DEF WaitPoints
  <1>5. CASE CleanupLock(p)
    <2>1. Role(proc[p]) = "fail"
      BY <1>5, RolePoints DEF CleanupLock, At
    <2>2. CASE i = running
      <3>0. tx' = [tx EXCEPT ![i].state = COMMIT_DOING]
        BY <1>5, <2>2 DEF CleanupLock
      <3>1. SameStatesBut(i) /\ tx'[i].state = COMMIT_DOING
        BY <1>2, <3>0, StateSet
      <3>2. proc'[p].tx = i /\ proc'[p].pc = "cleanwait"
        BY <1>5, <2>2, TaskFacts DEF CleanupLock, Goto, ProcState
      <3>3. ~(tx[i].state >= SUPER_COMMITTED)
        BY <1>2, <2>1, StateValues DEF OwnedState
      <3>4. QED BY <1>1, <1>2, <3>1, <3>2, <3>3, OrderOne DEF WaitPoints
    <2>3. CASE i # running
      <3>1. SameStatesBut(i) /\ tx'[i].state = tx[i].state
        BY <1>5, <2>3 DEF CleanupLock, SameStatesBut
      <3>2. /\ proc'[p].tx = i /\ proc'[p].pc = "cleandel"
            /\ proc'[p].doom = proc[p].doom
        BY <1>5, <2>3, TaskFacts DEF CleanupLock, Goto, ProcState
      <3>3. tx[i].state = UNBLOCKED
        BY <1>2, <2>1, <2>3 DEF OwnedPlace
      <3>4. NewTarget(p) = i
        BY <1>2, <3>2 DEF NewTarget, Target
      <3>5. tx'[i].state \in COMMIT_START..UNBLOCKED
        BY <3>1, <3>3, StateValues
      <3>6. QED
        BY <1>1, <1>2, <3>1, <3>2, <3>4, <3>5, OrderOne DEF WaitPoints
    <2>4. QED BY <2>2, <2>3
  <1>6. CASE CleanupWait(p)
    <2>1. Role(proc[p]) = "failwait"
      BY <1>6, RolePoints DEF CleanupWait, At
    <2>2. SameStatesBut(i) /\ tx'[i].state = tx[i].state
      BY <1>6 DEF CleanupWait, SameStatesBut, shared
    <2>3. proc'[p].tx = i /\ proc'[p].pc = "cleandel"
      BY <1>6, TaskFacts DEF CleanupWait, Goto, ProcState
    <2>4. NewTarget(p) = i
      BY <1>2, <2>3 DEF NewTarget, Target
    <2>5. tx'[i].state \in COMMIT_START..UNBLOCKED
      BY <1>2, <2>1, <2>2, StateValues DEF OwnedState
    <2>6. QED
      BY <1>1, <1>2, <2>2, <2>3, <2>4, <2>5, OrderOne DEF WaitPoints
  <1>7. QED BY <1>3, <1>4, <1>5, <1>6

LEMMA OrderWalk ==
  ASSUME CoreInv, PointerInv, OrderInv, NEW p \in Procs,
         \/ CleanupUnlist(p) \/ CleanupOne(p) \/ KthreadDrain(p)
  PROVE  OrderFrame(p)
  <1>1. generation' = generation
    BY DEF CleanupUnlist, CleanupOne, CleanupState, KthreadDrain, shared, list
  <1>2. NotSettled(p) /\ TargetOf(p) \in 0..generation
    BY TargetType, Created DEF OrderInv, CoreInv, RoleInv, Bounded
  <1>3. CASE CleanupUnlist(p)
    <2> DEFINE i == proc[p].tx
    <2>1. proc[p].pc = "cleandel"
      BY <1>3 DEF CleanupUnlist, At
    <2>2. /\ TargetOf(p) = i /\ i \in TransIds
          /\ tx[i].state \in 0..6
      BY <2>1, CommitterFacts DEF CommitPoints, TargetOf
    <2>3. tx[i].state \in COMMIT_START..UNBLOCKED /\ i \in 1..generation
      BY <1>2, <2>1, <2>2 DEF NotSettled, TransIds
    <2>4. MayBeReady(i)
      BY <2>3, StateValues, Created DEF MayBeReady, Ready
    <2>5. SameStatesBut(i) /\ tx'[i].state = tx[i].state
      BY <1>3 DEF CleanupUnlist, SameStatesBut
    <2>6. /\ proc'[p].pc = "clean1" /\ proc'[p].tx = i /\ proc'[p].doom = i
      BY <1>3, TaskFacts DEF CleanupUnlist, ProcState
    <2>7. NewTarget(p) = i
      BY <2>6 DEF NewTarget, Target
    <2>8. QED
      BY <1>1, <2>3, <2>4, <2>5, <2>6, <2>7, OrderOne DEF WaitPoints
  <1>4. CASE KthreadDrain(p) \/ CleanupOne(p)
    <2> DEFINE i == proc[p].doom
    <2>1. proc[p].pc \in {"drain", "clean1", "clean2", "clean3"}
      BY <1>4 DEF KthreadDrain, CleanupOne, CleanupState, At
    <2>2. /\ TargetOf(p) = i /\ i \in TransIds
          /\ Role(proc[p]) \in {"walk", "kwalk", "kdrain"}
          /\ tx \in [TransIds -> TxState]
          /\ OwnedState(Role(proc[p]), tx[i].state)
      BY <2>1, WalkerFacts DEF WalkPoints, TargetOf
    <2>3. tx[i].state \in COMMIT_START..UNBLOCKED /\ i \in 1..generation
      <3>1. CASE proc[p].pc = "drain"
        <4>1. tx[i].state = COMMIT_DOING
          BY <2>2, <3>1, RolePoints DEF OwnedState
        <4>2. QED BY <1>2, <2>2, <4>1, StateValues DEF TransIds
      <3>2. CASE proc[p].pc # "drain"
        BY <1>2, <2>1, <2>2, <3>2 DEF NotSettled, TransIds
      <3>3. QED BY <3>1, <3>2
    <2>4. MayBeReady(i)
      BY <2>3, StateValues, Created DEF MayBeReady, Ready
    <2>5. ~(tx[i].state >= SUPER_COMMITTED)
      BY <2>3, StateValues
    <2>6. /\ proc'[p].doom = i /\ proc'[p].tx = proc[p].tx
          /\ proc'[p].pc \in {"clean1", "clean2", "clean3", "cleandone"}
      BY <1>4, TaskFacts
         DEF KthreadDrain, CleanupOne, CleanupState, Goto, ProcState
    <2>7. NewTarget(p) = i
      BY <2>2, <2>6 DEF NewTarget, Target, TargetOf
    <2>8. /\ SameStatesBut(i)
          /\ proc'[p].pc # "cleandone" =>
                tx'[i].state \in COMMIT_START..UNBLOCKED
      <3>1. CASE KthreadDrain(p)
        BY <2>3, <3>1 DEF KthreadDrain, shared, SameStatesBut
      <3>2. CASE CleanupState(p, "clean1", COMMIT_START, "clean2")
        <4>1. SameStatesBut(i) /\ tx'[i].state = COMMIT_START
          BY <2>2, <3>2, StateSet DEF CleanupState
        <4>2. QED BY <4>1, StateValues
      <3>3. CASE CleanupState(p, "clean2", UNBLOCKED, "clean3")
        <4>1. SameStatesBut(i) /\ tx'[i].state = UNBLOCKED
          BY <2>2, <3>3, StateSet DEF CleanupState
        <4>2. QED BY <4>1, StateValues
      <3>4. CASE CleanupState(p, "clean3", COMPLETED, "cleandone")
        <4>1. SameStatesBut(i)
          BY <2>2, <3>4, StateSet DEF CleanupState
        <4>2. proc'[p].pc = "cleandone"
          BY <3>4, TaskFacts DEF CleanupState, Goto, ProcState
        <4>3. QED BY <4>1, <4>2
      <3>5. QED BY <1>4, <3>1, <3>2, <3>3, <3>4 DEF CleanupOne
    <2>9. NewRole(p) # "fail"
      BY <2>6, RolePoints DEF NewRole, ErrorPoints
    <2>10. QED
      BY <1>1, <2>3, <2>4, <2>5, <2>6, <2>7, <2>8, <2>9, OrderOne
         DEF WaitPoints
  <1>5. QED BY <1>3, <1>4

LEMMA OrderScan ==
  ASSUME CoreInv, PointerInv, OrderInv, NEW p \in Procs,
         KthreadScan(p), proc'[p].pc \in {"drain", "clean1"}
  PROVE  /\ OrderFrame(p) /\ proc'[p].pc = "drain"
         /\ running # 0 /\ tx[running].state < COMMIT_PREP
         /\ proc'[p].doom = running
         /\ tx' = [tx EXCEPT ![running].state = COMMIT_DOING]
         /\ proc'[p].tx = 0 /\ proc'[p].cont = "none"
         /\ proc[p].pc = "scan"
  <1>1. /\ proc[p].pc = "scan" /\ generation' = generation
        /\ listed' = listed
    BY DEF KthreadScan, At, list
  <1>2. proc[p].tx = 0 /\ proc[p].cont = "none"
    BY <1>1, TaskFacts, OutShape DEF OutPoints, Shape
  <1>3. PICK i \in listed :
           /\ Oldest(i) /\ ~HasCommitter(i)
           /\ proc' = [proc EXCEPT ![p].doom = i,
                         ![p].pc = IF i = running THEN "drain" ELSE "clean1"]
           /\ tx' = IF i = running
                    THEN [tx EXCEPT ![i].state = COMMIT_DOING] ELSE tx
    <2>1. ASSUME Goto(p, "idle")
          PROVE  FALSE
      BY <2>1, TaskFacts DEF Goto, ProcState
    <2>2. ASSUME NEW i,
                 proc' = [proc EXCEPT ![p].pc = "find", ![p].cont = "scan",
                                      ![p].goal = i, ![p].pin = i]
          PROVE  FALSE
      BY <2>2, TaskFacts DEF ProcState
    <2>3. QED BY <2>1, <2>2 DEF KthreadScan
  <1>4. /\ i \in 1..generation /\ i \in TransIds
        /\ tx \in [TransIds -> TxState] /\ tx[i].state \in 0..6
    <2>1. i \in 1..generation /\ i \in TransIds
      BY PointerFacts, Created
    <2>2. tx \in [TransIds -> TxState]
      BY DEF CoreInv, TypeOK
    <2>3. QED BY <2>1, <2>2, StateValues DEF TxState
  <1>5. tx[i].state < COMMIT_PREP
    BY <1>3, <1>4, StateValues DEF HasCommitter
  <1>6. i = running
    BY <1>4, <1>5, StateValues DEF CoreInv, RoleInv, EarlierUnblocked
  <1>7. tx' = [tx EXCEPT ![running].state = COMMIT_DOING]
    BY <1>3, <1>6
  <1>8. /\ proc'[p].pc = "drain" /\ proc'[p].tx = 0 /\ proc'[p].doom = running
        /\ proc'[p].cont = "none"
    BY <1>2, <1>3, <1>6, TaskFacts DEF ProcState
  <1>9. OrderFrame(p)
    <2>1. SameStatesBut(i)
      BY <1>4, <1>6, <1>7, StateSet
    <2>2. MayBeReady(i)
      <3>1. \A j \in listed' : ~(j < i)
        BY <1>1, <1>3, <1>4, PointerFacts DEF Oldest
      <3>2. QED BY <1>4, <3>1, Created DEF MayBeReady
    <2>3. NewRole(p) # "fail"
      BY <1>8, RolePoints DEF NewRole, ErrorPoints
    <2>4. ~(tx[i].state >= SUPER_COMMITTED)
      BY <1>4, <1>5, StateValues
    <2>5. QED
      BY <1>1, <1>4, <1>8, <2>1, <2>2, <2>3, <2>4, OrderOne DEF WaitPoints
  <1>10. running # 0
    BY <1>4, <1>6
  <1>11. QED BY <1>1, <1>5, <1>6, <1>7, <1>8, <1>9, <1>10

LEMMA OrderRest ==
  ASSUME CoreInv, PointerInv, OrderInv, NEW p \in Procs,
         \/ CommitUnlist(p) \/ CommitPut(p) \/ CleanupDone(p)
         \/ SyncLogLock(p) \/ SyncLogSuper(p) \/ ChargeOrdered(p)
  PROVE  OrderFrame(p)
  <1>1. tx \in [TransIds -> TxState]
    BY DEF CoreInv, TypeOK
  <1>2. CASE CommitUnlist(p)
    <2>1. generation' = generation /\ SameStates
      BY <1>2 DEF CommitUnlist, SameStates
    <2>2. proc'[p].pc = "putbase"
      BY <1>2, TaskFacts DEF CommitUnlist, Goto, ProcState
    <2>3. QED
      BY <2>1, <2>2, RolePoints, OrderSame DEF WaitPoints, ErrorPoints, NewRole
  <1>3. CASE CommitPut(p)
    <2>1. generation' = generation /\ SameStates
      BY <1>3, Ledger
         DEF CommitPut, list, SameLedger, Kept, SameStates, CoreInv
    <2>2. proc'[p].pc = "committed"
      BY <1>3, TaskFacts DEF CommitPut, ProcState
    <2>3. QED
      BY <2>1, <2>2, RolePoints, OrderSame DEF WaitPoints, ErrorPoints, NewRole
  <1>4. CASE CleanupDone(p)
    <2>1. generation' = generation
      BY <1>4 DEF CleanupDone
    <2>2. SameStates
      <3>1. PICK n : tx' = [tx EXCEPT ![proc[p].doom].use = n]
        BY <1>4 DEF CleanupDone
      <3>2. \A k \in TransIds : Kept(k)
        BY <1>1, <3>1, KeptByUse
      <3>3. QED BY <3>2 DEF Kept, SameStates
    <2>3. proc'[p].pc \in {"idle", "waitcur", "scan"}
      BY <1>4, TaskFacts
         DEF CleanupDone, Return, Returned, IdleProc, Fresh
    <2>4. QED
      BY <2>1, <2>2, <2>3, RolePoints, OrderSame
         DEF WaitPoints, ErrorPoints, NewRole
  <1>5. CASE SyncLogLock(p) \/ SyncLogSuper(p)
    <2>1. generation' = generation /\ SameStates
      BY <1>5 DEF SyncLogLock, SyncLogSuper, SameStates, list
    <2>2. /\ proc'[p].pc \in {"logsuper", "abort", "held"}
          /\ proc'[p].pc = "abort" => proc'[p].cont = "held"
      BY <1>5, TaskFacts DEF SyncLogLock, SyncLogSuper, Goto, ProcState
    <2>3. QED
      BY <2>1, <2>2, RolePoints, OrderSame DEF WaitPoints, ErrorPoints, NewRole
  <1>6. CASE ChargeOrdered(p)
    <2>1. generation' = generation /\ SameStates
      BY <1>1, <1>6 DEF ChargeOrdered, SameStates, list, TxState
    <2>2. proc'[p].pc = "held"
      BY <1>6 DEF ChargeOrdered, At
    <2>3. QED
      BY <2>1, <2>2, RolePoints, OrderSame DEF WaitPoints, ErrorPoints, NewRole
  <1>7. QED BY <1>2, <1>3, <1>4, <1>5, <1>6

LEMMA OrderWaiting ==
  ASSUME CoreInv, PointerInv, OrderInv, NEW p \in Procs,
         generation' = generation, listed' = listed, SameStates,
         proc'[p].pc \in WaitPoints,
         Reached(proc'[p]) =>
            /\ proc'[p].ref \in 1..generation
            /\ tx[proc'[p].ref].state >= SUPER_COMMITTED,
         proc'[p].cont = "prev" =>
            \A i \in listed : i < proc'[p].tx => i <= proc'[p].ref
  PROVE  OrderFrame(p)
  <1>1. \A k \in 1..generation : k \in TransIds
    BY Created
  <1>2. \A k \in 1..generation : tx'[k].state = tx[k].state
    BY <1>1 DEF SameStates
  <1>3. NewRole(p) # "fail" /\ (NewRole(p) = "prep" => proc'[p].cont = "prev")
    BY RolePoints DEF NewRole, WaitPoints, ErrorPoints
  <1>4. \A k \in 1..generation' : tx'[k].state >= COMMIT_START => MayBeReady(k)
    BY <1>2, Created DEF MayBeReady, Ready
  <1>5. Reached(proc'[p]) => tx'[proc'[p].ref].state >= SUPER_COMMITTED
    BY <1>2
  <1>6. QED
    BY <1>2, <1>3, <1>4, <1>5 DEF OrderFrame, WaitPoints

LEMMA WantSuper ==
  ASSUME NEW p
  PROVE  /\ WantState(p) \in {SUPER_COMMITTED, COMPLETED}
         /\ \A s \in 0..6 : s >= WantState(p) => s >= SUPER_COMMITTED
  BY StateValues DEF WantState

LEMMA OrderWaits ==
  ASSUME CoreInv, PointerInv, OrderInv, NEW p \in Procs,
         \/ FindCommit(p) /\ proc'[p].pc = "wait"
         \/ EndPut(p) /\ proc[p].cont = "waiter"
         \/ CommitReached(p) \/ WaitForEarlier(p)
  PROVE  OrderFrame(p)
  <1>1. generation' = generation /\ listed' = listed
    BY DEF FindCommit, EndPut, CommitReached, WaitForEarlier, list
  <1>2. SameStates
    <2>1. SameLedger
      BY Ledger DEF FindCommit, EndPut, CommitReached, WaitForEarlier, CoreInv
    <2>2. QED BY <2>1 DEF SameLedger, Kept, SameStates
  <1>3. RefShape(proc[p]) /\ WaitsForPrevious(p) /\ proc[p] \in ProcState
        /\ \A k \in 1..generation : tx[k].state \in 0..6
    BY PointerFacts, Created DEF OrderInv
  <1>4. CASE FindCommit(p) /\ proc'[p].pc = "wait"
    <2>1. proc[p].pc = "find"
      BY <1>4 DEF FindCommit, At
    <2>2. proc[p].cont # "prev" /\ proc[p].wtx = 0
      BY <1>3, <2>1, TaskFacts DEF Shape, RefShape
    <2>3. ASSUME NEW ok, WaitOver(p, ok)
          PROVE  FALSE
      BY <1>4, <2>3, TaskFacts DEF WaitOver, Fresh
    <2>4. PICK i : proc' = [proc EXCEPT ![p].pc = "wait", ![p].ref = i]
      BY <1>4, <2>3 DEF FindCommit
    <2>5. proc'[p].cont # "prev" /\ ~Reached(proc'[p])
      BY <2>2, <2>4, TaskFacts DEF Reached, ProcState
    <2>6. QED
      BY <1>1, <1>2, <1>4, <2>5, OrderWaiting DEF WaitPoints
  <1>5. CASE EndPut(p) /\ proc[p].cont = "waiter"
    <2>1. proc[p].pc = "endput"
      BY <1>5 DEF EndPut, At
    <2>2. proc[p].wtx = 0
      BY <1>3, <2>1 DEF RefShape
    <2>3. /\ proc'[p].pc = "wait" /\ proc'[p].cont = "waiter"
          /\ ~Reached(proc'[p])
      BY <1>5, <2>2, TaskFacts DEF EndPut, Reached, ProcState
    <2>4. QED
      BY <1>1, <1>2, <2>3, OrderWaiting DEF WaitPoints
  <1>6. CASE CommitReached(p)
    <2>1. proc[p].pc = "wait"
      BY <1>6 DEF CommitReached, At
    <2>2. proc[p].ref \in 1..generation
      BY <2>1, PointerFacts DEF RefShape, RefBounded, WaitPoints, ProcState
    <2>3. tx[proc[p].ref].state >= SUPER_COMMITTED
      <3>1. CASE proc[p].wtx = 0
        BY <1>3, <1>6, <2>2, <3>1, WantSuper DEF CommitReached
      <3>2. CASE proc[p].wtx # 0
        BY <1>3, <2>1, <3>2 DEF WaitsForPrevious, Reached
      <3>3. QED BY <3>1, <3>2
    <2>4. /\ proc'[p].pc \in {"waited", "waitnext"}
          /\ proc'[p].ref = proc[p].ref /\ proc'[p].tx = proc[p].tx
          /\ proc'[p].cont = proc[p].cont
      BY <1>6, TaskFacts DEF CommitReached, ProcState
    <2>5. ASSUME proc[p].cont = "prev"
          PROVE  \A i \in listed : i < proc[p].tx => i <= proc[p].ref
      BY <1>3, <2>1, <2>5, RolePoints
         DEF WaitsForPrevious, RoleOf, WaitPoints
    <2>6. QED
      BY <1>1, <1>2, <2>2, <2>3, <2>4, <2>5, OrderWaiting DEF WaitPoints
  <1>7. CASE WaitForEarlier(p)
    <2>1. proc[p].pc = "waitnext"
      BY <1>7 DEF WaitForEarlier, At
    <2>2. proc[p].ref \in 1..generation
      BY <2>1, PointerFacts DEF RefShape, RefBounded, WaitPoints, ProcState
    <2>3. tx[proc[p].ref].state >= SUPER_COMMITTED
      BY <1>3, <2>1 DEF WaitsForPrevious, Reached
    <2>4. /\ proc'[p].pc \in {"wait", "waited"}
          /\ proc'[p].ref = proc[p].ref /\ proc'[p].tx = proc[p].tx
          /\ proc'[p].cont = proc[p].cont
      BY <1>7, TaskFacts DEF WaitForEarlier, Goto, ProcState
    <2>5. ASSUME proc[p].cont = "prev"
          PROVE  \A i \in listed : i < proc[p].tx => i <= proc[p].ref
      BY <1>3, <2>1, <2>5, RolePoints
         DEF WaitsForPrevious, RoleOf, WaitPoints
    <2>6. QED
      BY <1>1, <1>2, <2>2, <2>3, <2>4, <2>5, OrderWaiting DEF WaitPoints
  <1>8. QED BY <1>4, <1>5, <1>6, <1>7

(* What waited is over: everything earlier is settled.                     *)
LEMMA EarlierWaited ==
  ASSUME CoreInv, PointerInv, OrderInv, NEW k \in 1..generation,
         tx[k].state >= SUPER_COMMITTED, NEW i \in listed, i <= k
  PROVE  tx[i].state >= SUPER_COMMITTED
  <1>1. tx[k].state \in 0..6 /\ i \in 1..generation
    BY Created
  <1>2. CASE i = k
    BY <1>2
  <1>3. CASE i < k
    <2>1. Ready(k)
      BY <1>1, StateValues DEF Ready
    <2>2. QED BY <1>3, <2>1 DEF OrderInv, EarlierSettled
  <1>4. QED BY <1>1, <1>2, <1>3

LEMMA OrderWaited ==
  ASSUME CoreInv, PointerInv, OrderInv, NEW p \in Procs, Waited(p),
         proc'[p].pc \in {"abort", "prevdone", "committed"}
  PROVE  OrderFrame(p)
  <1>1. /\ generation' = generation /\ listed' = listed
        /\ proc[p].pc = "waited"
    BY DEF Waited, list, At
  <1>2. SameStates
    <2>1. SameLedger
      BY Ledger DEF Waited, CoreInv
    <2>2. QED BY <2>1 DEF SameLedger, Kept, SameStates
  <1>3. CASE proc'[p].pc = "committed"
    BY <1>1, <1>2, <1>3, RolePoints, OrderSame
       DEF WaitPoints, ErrorPoints, NewRole
  <1>4. CASE proc'[p].pc # "committed"
    <2>1. proc[p].cont = "prev"
      <3>1. ASSUME NEW ok, WaitOver(p, ok)
            PROVE  FALSE
        BY <3>1, TaskFacts DEF WaitOver, Fresh
      <3>2. ASSUME Return(p)
            PROVE  FALSE
        BY <3>2, TaskFacts DEF Return, Returned, IdleProc, Fresh
      <3>3. ASSUME proc[p].cont = "waiter"
            PROVE  FALSE
        BY <1>4, <3>2, <3>3, TaskFacts DEF Waited, ProcState
      <3>4. QED BY <3>1, <3>3 DEF Waited
    <2> DEFINE k == proc[p].tx
    <2>2. k \in 1..generation /\ k \in TransIds
      <3>1. k \in TransIds
        BY <1>1, <2>1, CommitterFacts DEF WaitPoints
      <3>2. QED BY <3>1, PointerFacts, ConstantsAssumption DEF TransIds
    <2>3. proc[p].ref \in 1..generation
      BY <1>1, PointerFacts DEF RefShape, RefBounded, WaitPoints, ProcState
    <2>4. /\ tx[proc[p].ref].state >= SUPER_COMMITTED
          /\ \A i \in listed : i < k => i <= proc[p].ref
      BY <1>1, <2>1, RolePoints
         DEF OrderInv, WaitsForPrevious, Reached, RoleOf, WaitPoints
    <2>5. \A i \in listed : i < k => tx[i].state >= SUPER_COMMITTED
      BY <2>3, <2>4, EarlierWaited
    <2>6. \A i \in listed' : i < k => tx'[i].state >= SUPER_COMMITTED
      BY <1>1, <1>2, <2>5, PointerFacts, Created DEF SameStates
    <2>7. MayBeReady(k)
      BY <2>2, <2>6, Created DEF MayBeReady
    <2>8. proc'[p].tx = k
      BY <1>4, <2>1, TaskFacts DEF Waited, ProcState
    <2>9. SameStatesBut(k) /\ tx'[k].state = tx[k].state
      BY <1>2, <2>2 DEF SameStates, SameStatesBut
    <2>10. QED
      BY <1>1, <1>4, <2>2, <2>7, <2>8, <2>9, OrderOne DEF WaitPoints
  <1>5. QED BY <1>3, <1>4

LEMMA LargestExists ==
  ASSUME NEW n \in Nat, NEW S \in SUBSET (1..n), S # {}
  PROVE  \E k \in S : \A m \in S : m <= k
  <1> DEFINE Above(x) == {m \in S : m > x}
             T == {Above(x) : x \in S}
             R == StrictSubsetOrdering(S)
  <1>1. IsFiniteSet(S)
    <2>1. IsFiniteSet(1..n)
      BY FS_Interval
    <2>2. QED BY <2>1, FS_Subset, Zenon
  <1>2. T \subseteq FiniteSubsetsOf(S) /\ T # {}
    <2>1. ASSUME NEW x \in S PROVE Above(x) \in FiniteSubsetsOf(S)
      <3>1. Above(x) \in SUBSET S
        OBVIOUS
      <3>2. IsFiniteSet(Above(x))
        <4> HIDE DEF Above
        <4> QED BY <1>1, <3>1, FS_Subset, Zenon
      <3>3. QED BY <3>1, <3>2, Zenon DEF FiniteSubsetsOf
    <2>2. QED BY <2>1
  <1>3. IsWellFoundedOn(R, FiniteSubsetsOf(S))
    BY FS_StrictSubsetOrderingWellFounded
  <1>4. PICK X \in T : \A Y \in T : ~(<<Y, X>> \in R)
    <2> HIDE DEF T, R
    <2> QED BY <1>2, <1>3, WFMin
  <1>5. PICK x \in S : X = Above(x)
    BY <1>4
  <1>6. ASSUME NEW y \in S, y > x
        PROVE  FALSE
    <2>1. Above(y) \in SUBSET S /\ Above(x) \in SUBSET S
      OBVIOUS
    <2>2. Above(y) \subseteq Above(x)
      <3>1. ASSUME NEW m \in S, m > y PROVE m > x
        <4>1. m \in Int /\ y \in Int /\ x \in Int
          OBVIOUS
        <4>2. QED BY <1>6, <3>1, <4>1
      <3>2. QED BY <3>1
    <2>3. y \in Above(x) /\ y \notin Above(y)
      BY <1>6
    <2>4. <<Above(y), Above(x)>> \in R
      <3> HIDE DEF Above
      <3> QED BY <2>1, <2>2, <2>3 DEF StrictSubsetOrdering
    <2>5. QED BY <1>4, <1>5, <2>4
  <1>7. QED BY <1>6

LEMMA OrderPrep ==
  ASSUME CoreInv, PointerInv, OrderInv, NEW p \in Procs, CommitPrep(p)
  PROVE  OrderFrame(p)
  <1> DEFINE i == proc[p].tx
             older == {j \in listed : j < i}
             prev(k) == k \in older /\ \A j \in older : j <= k
  <1>1. /\ generation' = generation /\ listed' = listed
        /\ proc[p].pc = "prep"
    BY DEF CommitPrep, list, At
  <1>2. /\ i = running /\ i \in TransIds /\ i \in 1..generation
        /\ tx \in [TransIds -> TxState] /\ tx[i].state \in 0..6
    <2>1. i = running /\ i \in TransIds /\ running \in listed
      BY <1>1, TaskFacts, HandleShape, HandleIsListed DEF HandlePoints
    <2>2. i \in 1..generation
      BY <2>1, Created
    <2>3. QED BY <2>1, <2>2, Created DEF CoreInv, TypeOK
  <1>3. CASE /\ CommitHasStarted(i)
             /\ tx' = Pin(i)
             /\ proc' = [proc EXCEPT ![p].pc = "endw", ![p].cont = "waiter",
                                     ![p].ref = proc[p].tx]
    <2>1. SameStates
      BY <1>3, Ledger DEF SameLedger, Kept, SameStates, CoreInv
    <2>2. proc'[p].pc = "endw"
      BY <1>3, TaskFacts DEF ProcState
    <2>3. QED
      BY <1>1, <2>1, <2>2, RolePoints, OrderSame
         DEF WaitPoints, ErrorPoints, NewRole
  <1>4. ASSUME NEW k \in older, ~CommitHasStarted(i), prev(k),
               tx' = [Pin(k) EXCEPT ![i].state = COMMIT_PREP],
               proc' = [proc EXCEPT ![p].pc = "wait", ![p].cont = "prev",
                                    ![p].ref = k]
        PROVE  OrderFrame(p)
    <2>1. /\ proc'[p].pc = "wait" /\ proc'[p].cont = "prev"
          /\ proc'[p].ref = k /\ proc'[p].tx = i /\ proc'[p].wtx = proc[p].wtx
      BY <1>4, TaskFacts DEF ProcState
    <2>2. ~Reached(proc'[p])
      <3>1. proc[p].wtx = 0
        BY <1>1, PointerFacts DEF RefShape
      <3>2. QED BY <2>1, <3>1 DEF Reached
    <2>3. \A j \in TransIds \ {i} : tx'[j].state = tx[j].state
      BY <1>2, <1>4 DEF Pin, TxState
    <2>4. tx'[i].state = COMMIT_PREP
      BY <1>2, <1>4 DEF Pin, TxState
    <2>5. tx[i].state < COMMIT_PREP
      BY <1>2, <1>4, StateValues DEF CommitHasStarted
    <2>6. NewRole(p) = "prep"
      BY <2>1, RolePoints DEF NewRole, WaitPoints
    <2>7. \A j \in listed' : j < i => j <= k
      BY <1>1, <1>4
    <2>8. \A j \in 1..generation :
             /\ tx[j].state >= SUPER_COMMITTED => tx'[j].state >= SUPER_COMMITTED
             /\ tx'[j].state >= COMMIT_START => MayBeReady(j)
      <3>1. ASSUME NEW j \in 1..generation, j # i
            PROVE  /\ tx'[j].state = tx[j].state
                   /\ tx[j].state >= COMMIT_START => MayBeReady(j)
        BY <2>3, <3>1, Created DEF MayBeReady, Ready
      <3>2. /\ ~(tx[i].state >= SUPER_COMMITTED)
            /\ ~(tx'[i].state >= COMMIT_START)
        BY <1>2, <2>4, <2>5, StateValues
      <3>3. QED BY <3>1, <3>2
    <2>9. QED
      BY <1>1, <2>1, <2>2, <2>6, <2>7, <2>8 DEF OrderFrame
  <1>5. CASE /\ ~CommitHasStarted(i) /\ older = {}
             /\ tx' = [tx EXCEPT ![i].state = COMMIT_PREP]
             /\ Fail(p)
    <2>1. SameStatesBut(i)
      BY <1>2, <1>5, StateSet
    <2>2. MayBeReady(i)
      BY <1>1, <1>2, <1>5, Created DEF MayBeReady
    <2>3. ~(tx[i].state >= SUPER_COMMITTED)
      BY <1>2, <1>5, StateValues DEF CommitHasStarted
    <2>4. proc'[p].pc = "abort" /\ proc'[p].tx = i
      BY <1>5, TaskFacts DEF Fail, ProcState
    <2>5. QED
      BY <1>1, <1>2, <2>1, <2>2, <2>3, <2>4, OrderOne DEF WaitPoints
  <1>6. CASE /\ ~CommitHasStarted(i)
             /\ IF older = {} THEN ~fsError
                ELSE \A k \in older : prev(k) => tx[k].state >= WantState(p)
             /\ tx' = [tx EXCEPT ![i].state = COMMIT_START]
             /\ Goto(p, "dropext")
    <2>1. SameStatesBut(i)
      BY <1>2, <1>6, StateSet
    <2>2. ASSUME NEW j \in listed, j < i
          PROVE  tx[j].state >= SUPER_COMMITTED
      <3>1. PICK k \in older : \A m \in older : m <= k
        <4>1. older \in SUBSET (1..generation) /\ older # {}
          BY <2>2, Created
        <4>2. QED BY <4>1, Created, LargestExists
      <3>2. tx[k].state >= WantState(p) /\ tx[k].state \in 0..6
            /\ k \in 1..generation
        BY <1>6, <3>1, Created
      <3>3. tx[k].state >= SUPER_COMMITTED
        BY <3>2, WantSuper
      <3>4. QED BY <2>2, <3>1, <3>2, <3>3, EarlierWaited
    <2>3. \A j \in listed' : j < i => tx'[j].state >= SUPER_COMMITTED
      BY <1>1, <1>2, <2>1, <2>2, Created DEF SameStatesBut
    <2>4. MayBeReady(i)
      BY <1>2, <2>3, Created DEF MayBeReady
    <2>5. ~(tx[i].state >= SUPER_COMMITTED)
      BY <1>2, <1>6, StateValues DEF CommitHasStarted
    <2>6. proc'[p].pc = "dropext" /\ proc'[p].tx = i
      BY <1>6, TaskFacts DEF Goto, ProcState
    <2>7. QED
      BY <1>1, <1>2, <2>1, <2>4, <2>5, <2>6, OrderOne DEF WaitPoints
  <1>7. QED
    BY <1>3, <1>4, <1>5, <1>6 DEF CommitPrep

LEMMA OrderNew ==
  ASSUME CoreInv, PointerInv, OrderInv, NEW p \in Procs, NewTransaction(p),
         running = 0
  PROVE  OrderFrame(p)
  <1>1. CASE Return(p) /\ UNCHANGED <<list, tx>>
    <2>1. proc'[p].pc \in {"idle", "waitcur"}
      BY <1>1, TaskFacts DEF Return, Returned, IdleProc, Fresh
    <2>2. generation' = generation /\ SameStates
      BY <1>1 DEF list, SameStates
    <2>3. QED
      BY <2>1, <2>2, RolePoints, OrderSame DEF WaitPoints, ErrorPoints, NewRole
  <1>2. CASE ~(Return(p) /\ UNCHANGED <<list, tx>>)
    <2>1. /\ generation' = generation + 1 /\ generation < MaxTrans
          /\ tx' = [tx EXCEPT ![generation + 1] =
                       Tx(1, One(proc[p].type \in EXTWRITERS), 2)]
          /\ proc'[p].pc = "joined"
      BY <1>2, TaskFacts DEF NewTransaction, JoinRunning, ProcState
    <2>2. generation + 1 \in TransIds /\ tx \in [TransIds -> TxState]
      BY <2>1, Created, ConstantsAssumption DEF TransIds, CoreInv, TypeOK
    <2>3. tx'[generation + 1].state = 0
      BY <2>1, <2>2, StateValues DEF Tx
    <2>4. \A k \in 1..generation : tx'[k] = tx[k]
      BY <2>1, <2>2, Created
    <2>5. \A k \in 1..generation' : tx'[k].state >= COMMIT_START => MayBeReady(k)
      BY <2>1, <2>3, <2>4, Created, StateValues DEF MayBeReady, Ready
    <2>6. NewRole(p) # "fail"
      BY <2>1, RolePoints DEF NewRole, ErrorPoints
    <2>7. QED
      BY <2>1, <2>4, <2>5, <2>6 DEF OrderFrame, Reached, WaitPoints
  <1>3. QED BY <1>1, <1>2

LEMMA OrderStep ==
  ASSUME CoreInv, PointerInv, OrderInv, NEW p \in Procs, Step(p)
  PROVE  OrderFrame(p)
  <1>1. CASE Calm(p)
    BY <1>1, CalmOrder
  <1>2. CASE Special(p)
    BY <1>2, OrderNew, OrderWaits, OrderWaited, OrderPrep, OrderCommit,
       OrderClean, OrderWalk, OrderScan, OrderRest DEF Special
  <1>3. QED BY <1>1, <1>2, StepCases

(* A step without a task changes no pointer and no state. *)
LEMMA IdleOrder ==
  ASSUME CoreInv, PointerInv, OrderInv, UNCHANGED <<proc, list>>, SameStates
  PROVE  PointerInv' /\ OrderInv'
  <1>1. /\ generation' = generation /\ listed' = listed
        /\ \A q \in Procs : RoleOf(q)' = RoleOf(q) /\ TargetOf(q)' = TargetOf(q)
    BY DEF list, RoleOf, TargetOf
  <1>2. \A k \in 1..generation : tx'[k].state = tx[k].state
    BY Created DEF SameStates
  <1>3. PointerInv'
    BY <1>1 DEF PointerInv, RefBounded
  <1>4. EarlierSettled'
    <2>1. \A k \in 1..generation : Ready(k)' <=> Ready(k)
      BY <1>1, <1>2 DEF Ready, At
    <2>2. \A i \in listed : i \in 1..generation
      BY Created
    <2>3. QED
      BY <1>1, <1>2, <2>1, <2>2 DEF OrderInv, EarlierSettled
  <1>5. ASSUME NEW q \in Procs
        PROVE  WaitsForPrevious(q)' /\ NotSettled(q)'
    <2>1. Reached(proc[q]) => proc[q].ref \in 1..generation
      BY PointerFacts DEF Reached, RefShape, RefBounded, WaitPoints, ProcState
    <2>2. proc[q].pc \in {"cleandel", "clean1", "clean2", "clean3"} =>
             TargetOf(q) \in TransIds
      <3>1. ASSUME proc[q].pc \in {"cleandel", "clean1", "clean2", "clean3"}
            PROVE  RoleOf(q) # "out"
        BY <3>1, RolePoints DEF RoleOf, WalkPoints
      <3>2. QED BY <3>1, TargetType DEF CoreInv
    <2>3. WaitsForPrevious(q) /\ NotSettled(q)
      BY DEF OrderInv
    <2>4. WaitsForPrevious(q)'
      BY <1>1, <1>2, <2>1, <2>3 DEF WaitsForPrevious
    <2>5. NotSettled(q)'
      BY <1>1, <2>2, <2>3 DEF NotSettled, SameStates
    <2>6. QED BY <2>4, <2>5
  <1>6. QED BY <1>3, <1>4, <1>5 DEF OrderInv

BaseInv == CoreInv /\ PointerInv /\ OrderInv

(* The steps that no task takes. *)
LEMMA IdleFacts ==
  ASSUME CoreInv, OrderedComplete \/ UNCHANGED vars
  PROVE  /\ UNCHANGED <<proc, list, fsError, lastCommitted, superForCommit,
                        disk, written, treeLogMutex>>
         /\ SameStates
         /\ \A i \in TransIds : tx'[i].aborted = tx[i].aborted
  <1>1. tx \in [TransIds -> TxState]
    BY DEF CoreInv, TypeOK
  <1>2. CASE UNCHANGED vars
    BY <1>2 DEF vars, shared, durable, SameStates
  <1>3. CASE OrderedComplete
    <2>1. CASE running = 0
      BY <1>3, <2>1 DEF OrderedComplete, SameStates
    <2>2. CASE running # 0
      BY <1>1, <1>3, <2>2 DEF OrderedComplete, SameStates, TxState
    <2>3. QED BY <2>1, <2>2
  <1>4. QED BY <1>2, <1>3

LEMMA BaseStep ==
  ASSUME BaseInv, [Next]_vars
  PROVE  BaseInv'
  <1>1. CoreInv'
    BY CoreStep DEF BaseInv
  <1>2. ASSUME NEW p \in Procs, Step(p)
        PROVE  BaseInv'
    BY <1>1, <1>2, StepIsRegular, PointerKept, OrderStep, OrderKept
       DEF BaseInv
  <1>3. CASE OrderedComplete \/ UNCHANGED vars
    BY <1>1, <1>3, IdleFacts, IdleOrder DEF BaseInv
  <1>4. QED BY <1>2, <1>3 DEF Next

LEMMA BaseInit ==
  ASSUME Init
  PROVE  BaseInv
  <1>1. CoreInv
    BY CoreInit
  <1>2. /\ generation = 0 /\ \A p \in Procs : proc[p] = IdleProc
    BY DEF Init
  <1>3. PointerInv
    <2>1. TypeOK
      BY <1>1 DEF CoreInv
    <2>2. QED
      BY <1>2, <2>1, FreshPointers DEF PointerInv, IdleProc, WaitPoints
  <1>4. \A p \in Procs : RoleOf(p) = "out" /\ proc[p].pc = "idle"
    BY <1>2
       DEF RoleOf, Role, IdleProc, Fresh, HandlePoints, ErrorPoints,
           WaitPoints, WalkPoints
  <1>5. OrderInv
    BY <1>2, <1>4
       DEF OrderInv, EarlierSettled, WaitsForPrevious, NotSettled, Reached,
           WaitPoints
  <1>6. QED BY <1>1, <1>3, <1>5 DEF BaseInv

(* CoreInv, the pointers of the tasks, and that a committer past its wait  *)
(* for the previous transaction (btrfs_commit_transaction) finds each      *)
(* earlier transaction on trans_list with its super block written.         *)
THEOREM BaseInvariant == Spec => []BaseInv
  <1>1. Init => BaseInv
    BY BaseInit
  <1>2. BaseInv /\ [Next]_vars => BaseInv'
    BY BaseStep
  <1>3. QED BY <1>1, <1>2, PTL DEF Spec

-----------------------------------------------------------------------------
(***************************************************************************)
(* Ordered extents                                                         *)
(***************************************************************************)
QuietedPoints == {"ordwait", "wrwait", "doing", "unblock"}

LEMMA QuietedRoles ==
  ASSUME NEW r
  PROVE  Role(r) \in Quieted <=> r.pc \in QuietedPoints
  BY RolePoints DEF Quieted, QuietedPoints

OtherPoints == Points \ (HandlePoints \cup ErrorPoints \cup QuietedPoints)

(* p does not become quieted, and gets no new handle. *)
Aside(p) ==
  /\ proc'[p].pc \notin QuietedPoints
  /\ NewRole(p) = "handle" =>
        RoleOf(p) = "handle" /\ proc'[p].ext = proc[p].ext

(* Only these steps of the commit move through the quieted part; a handle  *)
(* that counts as an external writer is not new.                           *)
LEMMA SpecialPoints ==
  ASSUME BaseInv, NEW p \in Procs, Special(p)
  PROVE  \/ NewTransaction(p) /\ running = 0
         \/ /\ \/ NoExtwriters(p) \/ NoPendingOrdered(p)
               \/ NoOtherWriters(p) \/ CommitDoing(p)
            /\ NewRole(p) # "handle"
         \/ Aside(p)
  <1> USE DEF BaseInv
  <1>a. ASSUME \/ proc'[p].pc \in OtherPoints
               \/ proc'[p].pc \in ErrorPoints /\ proc'[p].cont = "clean"
        PROVE  Aside(p)
    BY <1>a, RolePoints
       DEF Aside, NewRole, OtherPoints, ErrorPoints, QuietedPoints,
           HandlePoints
  <1>b. ASSUME Fail(p)
        PROVE  Aside(p) /\ NewRole(p) # "handle"
    <2>1. proc'[p].pc = "abort" /\ proc'[p].cont = "clean"
      BY <1>b, TaskFacts DEF Fail, ProcState
    <2>2. QED BY <1>a, <2>1, RolePoints
               DEF ErrorPoints, NewRole, HandlePoints
  <1>c. ASSUME NEW pc \in OtherPoints, Goto(p, pc)
        PROVE  Aside(p)
    <2>1. proc'[p].pc = pc
      BY <1>c, TaskFacts DEF Goto, ProcState
    <2>2. QED BY <1>a, <2>1
  <1>d. ASSUME NEW pc \in QuietedPoints, Goto(p, pc)
        PROVE  NewRole(p) # "handle"
    <2>1. proc'[p].pc = pc
      BY <1>d, TaskFacts DEF Goto, ProcState
    <2>2. QED
      BY <2>1, RolePoints DEF NewRole, QuietedPoints, HandlePoints, ErrorPoints
  <1>e. ASSUME proc[p].pc \in HandlePoints, proc'[p].ext = proc[p].ext,
               proc'[p].pc \in HandlePoints \cup ErrorPoints
        PROVE  Aside(p)
    BY <1>e, RolePoints
       DEF Aside, RoleOf, HandlePoints, ErrorPoints, QuietedPoints
  <1>1. CASE FindCommit(p) /\ proc'[p].pc = "wait"
    BY <1>a, <1>1 DEF OtherPoints, OtherPoints, Points, HandlePoints,
           ErrorPoints, QuietedPoints
  <1>2. CASE EndPut(p) /\ proc[p].cont = "waiter"
    <2>1. proc'[p].pc = "wait"
      BY <1>2, TaskFacts DEF EndPut, ProcState
    <2>2. QED
      BY <1>a, <2>1 DEF OtherPoints, OtherPoints, Points, HandlePoints,
           ErrorPoints, QuietedPoints
  <1>3. CASE CommitReached(p) \/ WaitForEarlier(p)
    <2>1. proc'[p].pc \in {"wait", "waitnext", "waited"}
      BY <1>3, TaskFacts DEF CommitReached, WaitForEarlier, Goto, ProcState
    <2>2. QED
      BY <1>a, <2>1 DEF OtherPoints, OtherPoints, Points, HandlePoints,
           ErrorPoints, QuietedPoints
  <1>4. CASE Waited(p) /\ proc'[p].pc \in {"abort", "prevdone", "committed"}
    <2>1. CASE proc'[p].pc = "abort"
      <3>1. proc[p].cont = "prev"
        BY <1>4, <2>1, TaskFacts
           DEF Waited, Return, Returned, IdleProc, Fresh, WaitOver, ProcState
      <3>2. proc'[p].cont = "clean"
        BY <1>4, <2>1, <3>1, TaskFacts DEF Waited, ProcState
      <3>3. QED BY <1>a, <2>1, <3>2 DEF ErrorPoints
    <2>2. CASE proc'[p].pc # "abort"
      BY <1>a, <1>4, <2>2
         DEF OtherPoints, OtherPoints, Points, HandlePoints,
           ErrorPoints, QuietedPoints
    <2>3. QED BY <2>1, <2>2
  <1>5. CASE CommitPrep(p)
    <2>1. /\ proc[p].pc = "prep" /\ proc'[p].ext = proc[p].ext
          /\ \/ proc'[p].pc \in {"endw", "wait", "dropext"}
             \/ proc'[p].pc = "abort" /\ proc'[p].cont = "clean"
      BY <1>5, CommitPrepCases
    <2>2. CASE proc'[p].pc = "endw"
      BY <1>e, <2>1, <2>2 DEF HandlePoints
    <2>3. CASE proc'[p].pc # "endw"
      BY <1>a, <2>1, <2>3
         DEF OtherPoints, OtherPoints, Points, HandlePoints,
           ErrorPoints, QuietedPoints
    <2>4. QED BY <2>2, <2>3
  <1>6. CASE PrevCommitted(p)
    BY <1>6, <1>c DEF PrevCommitted, OtherPoints, Points, HandlePoints,
           ErrorPoints, QuietedPoints
  <1>7. CASE DropExtwriter(p)
    <2>1. \/ proc'[p].pc = "extwait"
          \/ proc'[p].pc = "abort" /\ proc'[p].cont = "clean"
      BY <1>7, TaskFacts DEF DropExtwriter, ProcState
    <2>2. QED
      BY <1>a, <2>1 DEF OtherPoints, OtherPoints, Points, HandlePoints,
           ErrorPoints, QuietedPoints
  <1>8. CASE NoExtwriters(p)
    BY <1>8, <1>b, <1>d DEF NoExtwriters, GotoOrFail, QuietedPoints
  <1>9. CASE NoPendingOrdered(p)
    BY <1>9, <1>b, <1>d DEF NoPendingOrdered, QuietedPoints
  <1>10. CASE NoOtherWriters(p)
    BY <1>10, <1>b, <1>d DEF NoOtherWriters, QuietedPoints
  <1>11. CASE CommitDoing(p)
    BY <1>11, <1>b, <1>d DEF CommitDoing, QuietedPoints
  <1>12. CASE CommitUnblock(p)
    BY <1>12, <1>c DEF CommitUnblock, OtherPoints, Points, HandlePoints,
           ErrorPoints, QuietedPoints
  <1>13. CASE WriteBlocks(p)
    BY <1>13, <1>b, <1>c DEF WriteBlocks, OtherPoints, Points, HandlePoints,
           ErrorPoints, QuietedPoints
  <1>14. CASE WriteSuper(p)
    BY <1>14, <1>b, <1>c DEF WriteSuper, OtherPoints, Points, HandlePoints,
           ErrorPoints, QuietedPoints
  <1>15. CASE CommitFinish(p)
    BY <1>15, <1>c DEF CommitFinish, OtherPoints, Points, HandlePoints,
           ErrorPoints, QuietedPoints
  <1>16. CASE CommitUnlist(p)
    BY <1>16, <1>c DEF CommitUnlist, OtherPoints, Points, HandlePoints,
           ErrorPoints, QuietedPoints
  <1>17. CASE CommitPut(p)
    <2>1. proc'[p].pc = "committed"
      BY <1>17, TaskFacts DEF CommitPut, ProcState
    <2>2. QED
      BY <1>a, <2>1 DEF OtherPoints, OtherPoints, Points, HandlePoints,
           ErrorPoints, QuietedPoints
  <1>18. CASE CleanupLock(p)
    BY <1>18, <1>c DEF CleanupLock, OtherPoints, Points, HandlePoints,
           ErrorPoints, QuietedPoints
  <1>19. CASE CleanupWait(p)
    BY <1>19, <1>c DEF CleanupWait, OtherPoints, Points, HandlePoints,
           ErrorPoints, QuietedPoints
  <1>20. CASE CleanupUnlist(p)
    <2>1. proc'[p].pc = "clean1"
      BY <1>20, TaskFacts DEF CleanupUnlist, ProcState
    <2>2. QED
      BY <1>a, <2>1 DEF OtherPoints, OtherPoints, Points, HandlePoints,
           ErrorPoints, QuietedPoints
  <1>21. CASE CleanupOne(p)
    BY <1>21, <1>c
       DEF CleanupOne, CleanupState, OtherPoints, Points, HandlePoints,
                       ErrorPoints, QuietedPoints
  <1>22. CASE CleanupDone(p)
    <2>1. proc'[p].pc \in {"idle", "waitcur", "scan"}
      BY <1>22, TaskFacts DEF CleanupDone, Return, Returned, IdleProc, Fresh
    <2>2. QED
      BY <1>a, <2>1 DEF OtherPoints, OtherPoints, Points, HandlePoints,
           ErrorPoints, QuietedPoints
  <1>23. CASE KthreadScan(p) /\ proc'[p].pc \in {"drain", "clean1"}
    BY <1>a, <1>23 DEF OtherPoints, OtherPoints, Points, HandlePoints,
           ErrorPoints, QuietedPoints
  <1>24. CASE KthreadDrain(p)
    BY <1>24, <1>c DEF KthreadDrain, OtherPoints, Points, HandlePoints,
           ErrorPoints, QuietedPoints
  <1>25. CASE SyncLogLock(p)
    <2>1. /\ proc[p].pc = "loglock" /\ proc'[p].ext = proc[p].ext
          /\ proc'[p].pc \in {"logsuper", "abort"}
      BY <1>25, TaskFacts DEF SyncLogLock, At, Goto, ProcState
    <2>2. QED BY <1>e, <2>1 DEF HandlePoints, ErrorPoints
  <1>26. CASE SyncLogSuper(p)
    <2>1. /\ proc[p].pc = "logsuper" /\ proc'[p].ext = proc[p].ext
          /\ proc'[p].pc \in {"held", "abort"}
      BY <1>26, TaskFacts DEF SyncLogSuper, At, Goto, ProcState
    <2>2. QED BY <1>e, <2>1 DEF HandlePoints, ErrorPoints
  <1>27. CASE ChargeOrdered(p)
    <2>1. proc[p].pc = "held" /\ proc'[p].ext = proc[p].ext
          /\ proc'[p].pc = "held"
      BY <1>27 DEF ChargeOrdered, At
    <2>2. QED BY <1>e, <2>1 DEF HandlePoints, ErrorPoints
  <1>28. CASE AbortTransaction(p) /\ proc[p].cont = "clean"
    <2>1. proc'[p].pc = "fserror" /\ proc'[p].cont = "clean"
      BY <1>28, TaskFacts DEF AbortTransaction, Goto, ProcState
    <2>2. QED BY <1>a, <2>1 DEF ErrorPoints
  <1>29. CASE HandleFsError(p) /\ proc[p].cont = "clean"
    <2>1. proc'[p].pc = "cleanlock"
      BY <1>29, TaskFacts DEF HandleFsError, Goto, ProcState
    <2>2. QED
      BY <1>a, <2>1 DEF OtherPoints, OtherPoints, Points, HandlePoints,
           ErrorPoints, QuietedPoints
  <1>30. QED
    BY <1>1, <1>2, <1>3, <1>4, <1>5, <1>6, <1>7, <1>8, <1>9, <1>10, <1>11,
       <1>12, <1>13, <1>14, <1>15, <1>16, <1>17, <1>18, <1>19, <1>20, <1>21,
       <1>22, <1>23, <1>24, <1>25, <1>26, <1>27, <1>28, <1>29
       DEF Special

SamePending == \A k \in TransIds : tx'[k].pending = tx[k].pending

LEMMA PendingKept ==
  ASSUME tx \in [TransIds -> TxState], NEW i, NEW j, NEW s,
         \/ tx' = [tx EXCEPT ![i].state = s]
         \/ tx' = [tx EXCEPT ![i].ext = s]
         \/ tx' = [tx EXCEPT ![i].use = s]
         \/ tx' = [Pin(j) EXCEPT ![i].state = s]
  PROVE  SamePending
  <1> SUFFICES ASSUME NEW k \in TransIds
               PROVE  tx'[k].pending = tx[k].pending
    BY DEF SamePending
  <1>1. CASE tx' = [tx EXCEPT ![i].state = s]
    BY <1>1 DEF TxState
  <1>2. CASE tx' = [tx EXCEPT ![i].ext = s]
    BY <1>2 DEF TxState
  <1>3. CASE tx' = [tx EXCEPT ![i].use = s]
    BY <1>3 DEF TxState
  <1>4. CASE tx' = [Pin(j) EXCEPT ![i].state = s]
    BY <1>4 DEF TxState, Pin
  <1>5. QED BY <1>1, <1>2, <1>3, <1>4

LEMMA LedgerPending ==
  ASSUME SameLedger
  PROVE  SamePending
  BY DEF SameLedger, Kept, SamePending

(* Only these steps count an ordered extent. *)
LEMMA SpecialPending ==
  ASSUME BaseInv, NEW p \in Procs, Special(p), ~ChargeOrdered(p),
         ~(NewTransaction(p) /\ running = 0)
  PROVE  SamePending /\ ordered' = ordered
  <1> USE DEF BaseInv
  <1>0. tx \in [TransIds -> TxState]
    BY DEF CoreInv, TypeOK
  <1>a. ASSUME UNCHANGED tx
        PROVE  SamePending
    BY <1>a DEF SamePending
  <1>b. ASSUME NEW i, NEW s, tx' = [tx EXCEPT ![i].state = s]
        PROVE  SamePending
    BY <1>0, <1>b, PendingKept
  <1>c. ASSUME \/ UNCHANGED tx
               \/ \E k : tx' = Pin(k)
               \/ \E k : tx' = Put(k)
               \/ \E k : tx' = [tx EXCEPT ![k].use = @ - 2]
               \/ \E i, k : tx' = [Put(i) EXCEPT ![k].use = @ - 1]
               \/ \E k : tx' = [tx EXCEPT ![k].aborted = TRUE]
        PROVE  SamePending
    BY <1>c, Ledger, LedgerPending DEF CoreInv
  <1>1. CASE \/ FindCommit(p) \/ CommitReached(p) \/ WaitForEarlier(p)
    <2>1. /\ \/ UNCHANGED tx
             \/ \E k : tx' = Pin(k)
             \/ \E k : tx' = Put(k)
          /\ ordered' = ordered
      <3>1. CASE FindCommit(p)
        BY <3>1 DEF FindCommit, durable
      <3>2. CASE CommitReached(p)
        BY <3>2 DEF CommitReached, durable
      <3>3. CASE WaitForEarlier(p)
        BY <3>3 DEF WaitForEarlier, durable
      <3>4. QED BY <1>1, <3>1, <3>2, <3>3
    <2>2. QED BY <1>c, <2>1
  <1>2. CASE EndPut(p)
    BY <1>2, <1>c DEF EndPut, durable
  <1>3. CASE Waited(p)
    <2>1. /\ \/ \E k : tx' = Put(k)
             \/ \E k : tx' = [tx EXCEPT ![k].use = @ - 2]
             \/ \E i, k : tx' = [Put(i) EXCEPT ![k].use = @ - 1]
          /\ ordered' = ordered
      BY <1>3 DEF Waited, durable
    <2>2. QED BY <1>c, <2>1
  <1>4. CASE CommitPrep(p)
    <2>1. ordered' = ordered
      BY <1>4 DEF CommitPrep, durable
    <2>2. CASE tx' = Pin(proc[p].tx)
      BY <1>c, <2>1, <2>2
    <2>3. ASSUME NEW k, tx' = [Pin(k) EXCEPT ![proc[p].tx].state = COMMIT_PREP]
          PROVE  SamePending
      BY <1>0, <2>3, PendingKept
    <2>4. ASSUME NEW s, tx' = [tx EXCEPT ![proc[p].tx].state = s]
          PROVE  SamePending
      BY <1>b, <2>4
    <2>5. QED BY <1>4, <2>1, <2>2, <2>3, <2>4, CommitPrepCases
  <1>5. CASE \/ PrevCommitted(p) \/ NoPendingOrdered(p) \/ CommitUnblock(p)
             \/ CommitFinish(p)
    <2>1. CASE PrevCommitted(p)
      BY <2>1, <1>b DEF PrevCommitted, durable
    <2>2. CASE NoPendingOrdered(p)
      BY <2>2, <1>b DEF NoPendingOrdered, durable
    <2>3. CASE CommitUnblock(p)
      BY <2>3, <1>b DEF CommitUnblock
    <2>4. CASE CommitFinish(p)
      BY <2>4, <1>b DEF CommitFinish
    <2>5. QED BY <1>5, <2>1, <2>2, <2>3, <2>4
  <1>6. CASE DropExtwriter(p)
    <2>1. \E n : tx' = [tx EXCEPT ![proc[p].tx].ext = n]
      BY <1>6 DEF DropExtwriter
    <2>2. QED BY <1>0, <1>6, <2>1, PendingKept DEF DropExtwriter, durable
  <1>7. CASE \/ NoExtwriters(p) \/ NoOtherWriters(p) \/ CommitDoing(p)
             \/ WriteBlocks(p) \/ CommitUnlist(p) \/ CleanupWait(p)
             \/ KthreadDrain(p)
    <2>1. CASE NoExtwriters(p) \/ NoOtherWriters(p)
      BY <2>1, <1>a DEF NoExtwriters, NoOtherWriters, shared, durable
    <2>2. CASE CommitDoing(p) \/ WriteBlocks(p)
      BY <2>2, <1>a DEF CommitDoing, WriteBlocks
    <2>3. CASE CommitUnlist(p) \/ CleanupWait(p) \/ KthreadDrain(p)
      BY <2>3, <1>a
         DEF CommitUnlist, CleanupWait, KthreadDrain, shared, durable
    <2>4. QED BY <1>7, <2>1, <2>2, <2>3
  <1>8. CASE WriteSuper(p)
    BY <1>8, <1>a, <1>b DEF WriteSuper
  <1>9. CASE CommitPut(p)
    BY <1>9, <1>c DEF CommitPut, durable
  <1>10. CASE CleanupLock(p)
    BY <1>10, <1>a, <1>b DEF CleanupLock, durable
  <1>11. CASE CleanupUnlist(p)
    BY <1>11, <1>a DEF CleanupUnlist, durable
  <1>12. CASE CleanupOne(p)
    <2>1. /\ ordered' = ordered
          /\ \E s : tx' = [tx EXCEPT ![proc[p].doom].state = s]
      BY <1>12 DEF CleanupOne, CleanupState, durable
    <2>2. QED BY <1>b, <2>1
  <1>13. CASE CleanupDone(p)
    <2>1. /\ ordered' = ordered
          /\ \E n : tx' = [tx EXCEPT ![proc[p].doom].use = n]
      BY <1>13 DEF CleanupDone, durable
    <2>2. QED BY <1>0, <2>1, PendingKept
  <1>14. CASE KthreadScan(p)
    <2>1. /\ \/ UNCHANGED tx
             \/ \E k : tx' = Pin(k)
             \/ \E i : tx' = [tx EXCEPT ![i].state = COMMIT_DOING]
          /\ ordered' = ordered
      BY <1>14 DEF KthreadScan, durable
    <2>2. QED BY <1>b, <1>c, <2>1
  <1>15. CASE SyncLogLock(p) \/ SyncLogSuper(p) \/ HandleFsError(p)
    BY <1>15, <1>a DEF SyncLogLock, SyncLogSuper, HandleFsError
  <1>16. CASE AbortTransaction(p)
    BY <1>16, <1>c DEF AbortTransaction, durable
  <1>17. QED
    BY <1>1, <1>2, <1>3, <1>4, <1>5, <1>6, <1>7, <1>8, <1>9, <1>10, <1>11,
       <1>12, <1>13, <1>14, <1>15, <1>16
       DEF Special

-----------------------------------------------------------------------------
(* A committer that left the wait for the external writers keeps them out: *)
(* the counter it waited for is the number of their handles.               *)
LEMMA ExtKept ==
  ASSUME CoreInv, CoreInv', ExtwritersGone, NEW p \in Procs, Regular(p),
         NewRole(p) = "handle" /\ proc'[p].ext =>
            \/ RoleOf(p) = "handle" /\ proc[p].ext
            \/ tx[running].state <= COMMIT_PREP
            \/ NewTarget(p) = generation + 1,
         NewRole(p) \in Quieted =>
            \/ RoleOf(p) \in Quieted /\ NewTarget(p) = TargetOf(p)
            \/ CountedExt(NewTarget(p)) = {}
  PROVE  ExtwritersGone'
  <1>1. OthersStay(p) /\ generation \in Nat
    BY RegularFacts
  <1>2. ASSUME NEW q \in Procs, RoleOf(q) \in Quieted
        PROVE  /\ TargetOf(q) = running /\ TargetOf(q) \in TransIds
               /\ TargetOf(q) <= generation
               /\ tx[TargetOf(q)].state \in {COMMIT_START, COMMIT_DOING}
    <2>1. RoleOf(q) \in Owners /\ RoleOf(q) # "out"
      BY <1>2 DEF Quieted, Owners, Committers
    <2>2. TargetOf(q) \in TransIds /\ TargetOf(q) <= generation
      BY <2>1, TargetType DEF CoreInv, RoleInv, Bounded
    <2>3. /\ OwnedState(RoleOf(q), tx[TargetOf(q)].state)
          /\ OwnedPlace(RoleOf(q), tx[TargetOf(q)].state, TargetOf(q),
                        running, listed)
      BY <2>1 DEF CoreInv, RoleInv, Owned
    <2>4. QED
      BY <1>2, <2>2, <2>3 DEF Quieted, OwnedState, OwnedPlace
  <1>3. ASSUME NEW q \in Procs \ {p}, NewRole(p) \in Quieted,
               RoleOf(q) = "handle", TargetOf(q) = NewTarget(p)
        PROVE  ~proc[q].ext
    <2>1. CASE RoleOf(p) \in Quieted /\ NewTarget(p) = TargetOf(p)
      BY <1>3, <2>1 DEF ExtwritersGone
    <2>2. CASE CountedExt(NewTarget(p)) = {}
      BY <1>3, <2>2 DEF CountedExt, Counted, Writing
    <2>3. QED BY <1>3, <2>1, <2>2
  <1>4. ASSUME NEW q \in Procs \ {p}, RoleOf(q) \in Quieted,
               NewRole(p) = "handle", TargetOf(q) = NewTarget(p)
        PROVE  ~proc'[p].ext
    <2>1. CASE RoleOf(p) = "handle" /\ proc[p].ext
      <3>1. TargetOf(p) = TargetOf(q)
        BY <1>2, <1>4, <2>1 DEF CoreInv, RoleInv, HandlesAreRunning
      <3>2. QED BY <1>4, <2>1, <3>1 DEF ExtwritersGone
    <2>2. CASE tx[running].state <= COMMIT_PREP
      BY <1>2, <1>4, <2>2, StateValues
    <2>3. CASE NewTarget(p) = generation + 1
      BY <1>1, <1>2, <1>4, <2>3 DEF TransIds
    <2>4. QED BY <1>4, <2>1, <2>2, <2>3
  <1>5. ASSUME NEW q1 \in Procs, NEW q2 \in Procs,
               Role(proc'[q1]) \in Quieted, Role(proc'[q2]) = "handle",
               Target(proc'[q2]) = Target(proc'[q1])
        PROVE  ~proc'[q2].ext
    <2>1. CASE q1 # p /\ q2 # p
      BY <1>1, <1>5, <2>1
         DEF OthersStay, ExtwritersGone, RoleOf, TargetOf
    <2>2. CASE q1 = p /\ q2 # p
      BY <1>1, <1>3, <1>5, <2>2
         DEF OthersStay, RoleOf, TargetOf, NewRole, NewTarget
    <2>3. CASE q1 # p /\ q2 = p
      BY <1>1, <1>4, <1>5, <2>3
         DEF OthersStay, RoleOf, TargetOf, NewRole, NewTarget
    <2>4. CASE q1 = q2
      BY <1>5, <2>4 DEF Quieted
    <2>5. QED BY <2>1, <2>2, <2>3, <2>4
  <1>6. QED BY <1>5 DEF ExtwritersGone, RoleOf, TargetOf

LEMMA ExtStep ==
  ASSUME BaseInv, CoreInv', ExtwritersGone, NEW p \in Procs, Step(p)
  PROVE  ExtwritersGone'
  <1> USE DEF BaseInv
  <1>0. Regular(p) /\ (Calm(p) \/ Special(p))
    BY StepIsRegular, StepCases
  <1>1. CASE Calm(p)
    <2>1. NewRole(p) \notin Quieted
      BY <1>1, QuietedRoles
         DEF Calm, CalmTask, CalmPoints, QuietedPoints, NewRole
    <2>2. NewRole(p) = "handle" /\ proc'[p].ext =>
             \/ RoleOf(p) = "handle" /\ proc[p].ext
             \/ tx[running].state <= COMMIT_PREP
      BY <1>1 DEF Calm, CalmTask, NewRole, RoleOf
    <2>3. QED BY <1>0, <2>1, <2>2, ExtKept
  <1>2. CASE NewTransaction(p) /\ running = 0
    <2>1. CASE Return(p)
      <3>1. proc'[p].pc \in {"idle", "waitcur"}
        BY <2>1, TaskFacts DEF Return, Returned, IdleProc, Fresh
      <3>2. NewRole(p) \notin Quieted /\ NewRole(p) # "handle"
        BY <3>1, RolePoints, QuietedRoles
           DEF NewRole, QuietedPoints, HandlePoints, ErrorPoints
      <3>3. QED BY <1>0, <3>2, ExtKept
    <2>2. CASE ~Return(p)
      <3>1. proc'[p].pc = "joined" /\ proc'[p].tx = generation + 1
        BY <1>2, <2>2, TaskFacts DEF NewTransaction, JoinRunning, ProcState
      <3>2. NewTarget(p) = generation + 1
        BY <3>1, RegularFacts, <1>0 DEF NewTarget, Target
      <3>3. NewRole(p) \notin Quieted
        BY <3>1, QuietedRoles DEF NewRole, QuietedPoints
      <3>4. QED BY <1>0, <3>2, <3>3, ExtKept
    <2>3. QED BY <2>1, <2>2
  <1>3. CASE Aside(p)
    <2>1. NewRole(p) \notin Quieted
      BY <1>3, QuietedRoles DEF Aside, NewRole
    <2>2. NewRole(p) = "handle" /\ proc'[p].ext =>
             RoleOf(p) = "handle" /\ proc[p].ext
      BY <1>3 DEF Aside
    <2>3. QED BY <1>0, <2>1, <2>2, ExtKept
  <1>4. CASE /\ \/ NoExtwriters(p) \/ NoPendingOrdered(p)
                \/ NoOtherWriters(p) \/ CommitDoing(p)
             /\ NewRole(p) # "handle"
    <2>1. /\ proc[p].pc \in {"extwait", "ordwait", "wrwait", "doing"}
          /\ proc[p].pc = "extwait" => tx[proc[p].tx].ext = 0
      BY <1>4 DEF NoExtwriters, NoPendingOrdered, NoOtherWriters, CommitDoing,
                  At
    <2>2. Target(proc[p]) = proc[p].tx /\ proc[p].tx \in TransIds
      BY <2>1, CommitterFacts DEF CommitPoints
    <2>3. NewTarget(p) = TargetOf(p)
      <3>1. proc'[p].tx = proc[p].tx
        <4>1. CASE NoExtwriters(p) \/ NoPendingOrdered(p)
          BY <4>1, TaskFacts
             DEF NoExtwriters, NoPendingOrdered, GotoOrFail, Goto, Fail,
                 ProcState
        <4>2. CASE NoOtherWriters(p) \/ CommitDoing(p)
          BY <4>2, TaskFacts
             DEF NoOtherWriters, CommitDoing, Goto, Fail, ProcState
        <4>3. QED BY <1>4, <4>1, <4>2
      <3>2. proc[p].tx # 0
        BY <2>2 DEF TransIds
      <3>3. QED BY <3>1, <3>2 DEF NewTarget, TargetOf, Target
    <2>4. CASE proc[p].pc # "extwait"
      <3>1. RoleOf(p) \in Quieted
        BY <2>1, <2>4, QuietedRoles DEF RoleOf, QuietedPoints
      <3>2. QED BY <1>0, <1>4, <2>3, <3>1, ExtKept
    <2>5. CASE proc[p].pc = "extwait"
      <3>1. Role(proc[p]) = "start"
        BY <2>5, RolePoints
      <3>2. TargetOf(p) \in listed /\ tx[TargetOf(p)].ext = 0
        BY <2>1, <2>2, <2>5, <3>1, CommitterFacts
           DEF CommitPoints, OwnedPlace, TargetOf
      <3>3. CountedExt(TargetOf(p)) = {}
        <4>1. CountedExt(TargetOf(p)) \in SUBSET Procs
          BY DEF CountedExt, Counted
        <4>2. Cardinality(CountedExt(TargetOf(p))) = 0
          BY <3>2, CountedFacts DEF CoreInv
        <4>3. QED BY <4>1, <4>2, CountNone
      <3>4. QED BY <1>0, <1>4, <2>3, <3>3, ExtKept
    <2>6. QED BY <2>4, <2>5
  <1>5. QED BY <1>0, <1>1, <1>2, <1>3, <1>4, SpecialPoints

-----------------------------------------------------------------------------
(* ChargeIsBooked while no error was reported. *)
Booked ==
  /\ ordered # 0 => ordered = running
  /\ \A i \in TransIds : tx[i].pending = One(ordered = i)
  /\ \A p \in Procs : RoleOf(p) \in {"doing", "alone"} => ordered = 0

(* The charge stays where it is and nobody stops waiting for it. *)
LEMMA BookedKept ==
  ASSUME Booked, NEW p \in Procs, OthersStay(p), SamePending,
         ordered' = ordered,
         running' = running \/ ordered = 0,
         NewRole(p) \in {"doing", "alone"} =>
            RoleOf(p) \in {"doing", "alone"} \/ ordered = 0
  PROVE  Booked'
  <1>1. ordered' # 0 => ordered' = running'
    BY DEF Booked
  <1>2. \A i \in TransIds : tx'[i].pending = One(ordered' = i)
    BY DEF Booked, SamePending
  <1>3. ASSUME NEW q \in Procs, RoleOf(q)' \in {"doing", "alone"}
        PROVE  ordered' = 0
    BY <1>3, OthersRoles, OwnRole DEF Booked
  <1>4. QED BY <1>1, <1>2, <1>3 DEF Booked

LEMMA RunningKept ==
  ASSUME CoreInv, Booked, NEW p \in Procs, Regular(p), ~fsError'
  PROVE  running' = running \/ ordered = 0
  <1>1. Kind(p) /\ ~fsError
    BY DEF Regular
  <1>2. RoleOf(p) \notin {"dead", "walk", "kwalk"}
    <2>1. ~AfterError(proc[p])
      BY <1>1, TaskFacts
    <2>2. QED BY <2>1, RolePoints DEF AfterError, RoleOf
  <1>3. CASE Stays(p) \/ Joins(p) \/ Leaves(p) \/ Takes(p)
    BY <1>3 DEF Stays, Joins, Leaves, Takes, list
  <1>4. CASE Opens(p)
    BY <1>4 DEF Opens, Booked
  <1>5. CASE MovesOn(p)
    BY <1>2, <1>5 DEF MovesOn, Sealers, Booked
  <1>6. CASE Drops(p)
    <2>1. CASE RoleOf(p) = "put" /\ UNCHANGED <<running, listed>>
      BY <2>1
    <2>2. CASE /\ RoleOf(p) = "gone"
               /\ running' = IF running = TargetOf(p) THEN 0 ELSE running
      <3>1. TargetOf(p) # running
        BY <2>2, RoleSets DEF CoreInv, RoleInv, Owned, OwnedPlace
      <3>2. QED BY <2>2, <3>1
    <2>3. QED BY <1>2, <1>6, <2>1, <2>2 DEF Drops
  <1>7. QED BY <1>1, <1>3, <1>4, <1>5, <1>6 DEF Kind

LEMMA ChargeBooked ==
  ASSUME BaseInv, ExtwritersGone, Booked, NEW p \in Procs, ChargeOrdered(p)
  PROVE  Booked'
  <1> USE DEF BaseInv
  <1> DEFINE i == proc[p].tx
  <1>1. /\ proc[p].pc = "held" /\ proc[p].type = "START" /\ ordered = 0
        /\ ordered' = i /\ tx' = [tx EXCEPT ![i].pending = @ + 1]
        /\ running' = running /\ proc' = proc
    BY DEF ChargeOrdered, At, list
  <1>2. /\ Role(proc[p]) = "handle" /\ Target(proc[p]) = i
        /\ i = running /\ i \in TransIds /\ i # 0 /\ proc[p].ext
    BY <1>1, TaskFacts, HandleShape, HandleIsListed
       DEF HandlePoints, EXTWRITERS
  <1>3. tx \in [TransIds -> TxState]
    BY DEF CoreInv, TypeOK
  <1>4. \A j \in TransIds : tx'[j].pending = One(ordered' = j)
    <2>1. \A j \in TransIds : tx[j].pending = 0
      BY <1>1, <1>2 DEF Booked, One, TransIds
    <2>2. ASSUME NEW j \in TransIds, j # i
          PROVE  tx'[j].pending = 0
      BY <1>1, <1>3, <2>1, <2>2 DEF TxState
    <2>3. tx'[i].pending = 1
      BY <1>1, <1>2, <1>3, <2>1 DEF TxState
    <2>4. QED BY <1>1, <2>2, <2>3 DEF One
  <1>5. ASSUME NEW q \in Procs, RoleOf(q) \in {"doing", "alone"}
        PROVE  FALSE
    <2>1. RoleOf(q) \in Quieted /\ RoleOf(q) \in Owners
      BY <1>5 DEF Quieted, Owners, Committers
    <2>2. TargetOf(q) = running
      BY <1>5, <2>1 DEF CoreInv, RoleInv, Owned, OwnedPlace
    <2>3. QED
      BY <1>2, <2>1, <2>2 DEF ExtwritersGone, RoleOf, TargetOf
  <1>6. \A q \in Procs : RoleOf(q)' = RoleOf(q)
    BY <1>1 DEF RoleOf
  <1>7. QED BY <1>1, <1>2, <1>4, <1>5, <1>6 DEF Booked

LEMMA CompleteBooked ==
  ASSUME BaseInv, Booked, OrderedComplete
  PROVE  Booked'
  <1>1. /\ ordered # 0 /\ ordered' = 0 /\ running = ordered
        /\ tx' = [tx EXCEPT ![running].pending = @ - 1]
        /\ proc' = proc /\ running' = running
    BY DEF OrderedComplete, Booked, list
  <1>2. running \in TransIds /\ tx \in [TransIds -> TxState]
    BY <1>1, ConstantsAssumption DEF BaseInv, CoreInv, TypeOK, TransIds
  <1>3. \A j \in TransIds : tx'[j].pending = One(ordered' = j)
    <2>1. tx[running].pending = 1
      BY <1>1, <1>2 DEF Booked, One
    <2>2. ASSUME NEW j \in TransIds, j # running
          PROVE  tx'[j].pending = 0
      <3>1. tx[j].pending = 0
        BY <1>1, <2>2 DEF Booked, One
      <3>2. QED BY <1>1, <1>2, <2>2, <3>1 DEF TxState
    <2>3. tx'[running].pending = 0
      BY <1>1, <1>2, <2>1 DEF TxState
    <2>4. QED BY <1>1, <2>2, <2>3 DEF One, TransIds
  <1>4. QED BY <1>1, <1>3 DEF Booked

LEMMA BookedStep ==
  ASSUME BaseInv, ExtwritersGone, Booked, NEW p \in Procs, Step(p), ~fsError'
  PROVE  Booked'
  <1> USE DEF BaseInv
  <1>0. /\ Regular(p) /\ (Calm(p) \/ Special(p)) /\ OthersStay(p)
    BY StepIsRegular, StepCases, RegularFacts
  <1>1. CASE Calm(p)
    <2>1. ordered' = ordered /\ running' = running /\ SamePending
      BY <1>1, LedgerPending DEF Calm, CalmShared, list
    <2>2. NewRole(p) \notin {"doing", "alone"}
      BY <1>1, RolePoints DEF Calm, CalmTask, CalmPoints, NewRole
    <2>3. QED BY <1>0, <2>1, <2>2, BookedKept
  <1>2. CASE ChargeOrdered(p)
    BY <1>2, ChargeBooked
  <1>3. CASE NewTransaction(p) /\ running = 0
    <2>1. ordered = 0 /\ ordered' = ordered
      BY <1>3 DEF Booked, NewTransaction, durable
    <2>2. tx \in [TransIds -> TxState]
      BY DEF CoreInv, TypeOK
    <2>3. SamePending
      <3>1. CASE UNCHANGED tx
        BY <3>1 DEF SamePending
      <3>2. ASSUME NEW i,
                   tx' = [tx EXCEPT ![i] =
                             Tx(1, One(proc[p].type \in EXTWRITERS), 2)]
            PROVE  SamePending
        <4>1. \A k \in TransIds : tx[k].pending = 0
          BY <2>1 DEF Booked, One, TransIds
        <4>2. \A k \in TransIds : tx'[k].pending = 0
          BY <2>2, <3>2, <4>1 DEF Tx
        <4>3. QED BY <4>1, <4>2 DEF SamePending
      <3>3. QED BY <1>3, <3>1, <3>2 DEF NewTransaction, JoinRunning
    <2>4. QED BY <1>0, <2>1, <2>3, BookedKept
  <1>4. CASE /\ Special(p) /\ ~ChargeOrdered(p)
             /\ ~(NewTransaction(p) /\ running = 0)
    <2>1. SamePending /\ ordered' = ordered
      BY <1>4, SpecialPending
    <2>2. running' = running \/ ordered = 0
      BY <1>0, RunningKept
    <2>3. NewRole(p) \in {"doing", "alone"} =>
             RoleOf(p) \in {"doing", "alone"} \/ ordered = 0
      <3> SUFFICES ASSUME NewRole(p) \in {"doing", "alone"}
                   PROVE  RoleOf(p) \in {"doing", "alone"} \/ ordered = 0
        OBVIOUS
      <3>1. CASE NoOtherWriters(p) \/ CommitDoing(p)
        BY <3>1, RolePoints DEF NoOtherWriters, CommitDoing, At, RoleOf
      <3>2. CASE NoPendingOrdered(p)
        <4>1. proc[p].pc = "ordwait" /\ tx[proc[p].tx].pending = 0
          BY <3>2 DEF NoPendingOrdered, OrderedDone, At
        <4>2. proc[p].tx = running /\ proc[p].tx \in TransIds
          <5>1. Role(proc[p]) = "quiet"
            BY <4>1, RolePoints
          <5>2. QED
            BY <4>1, <5>1, CommitterFacts DEF CommitPoints, OwnedPlace
        <4>3. QED BY <4>1, <4>2 DEF Booked, One
      <3>3. CASE NoExtwriters(p)
        <4>1. /\ proc'[p].pc \in {"ordwait", "abort"}
          BY <3>3, TaskFacts
             DEF NoExtwriters, GotoOrFail, Goto, Fail, ProcState
        <4>2. QED BY <4>1, RolePoints DEF NewRole
      <3>4. CASE Aside(p)
        BY <3>4, RolePoints DEF Aside, NewRole, QuietedPoints
      <3>5. QED BY <1>4, <3>1, <3>2, <3>3, <3>4, SpecialPoints
    <2>4. QED BY <1>0, <2>1, <2>2, <2>3, BookedKept
  <1>5. QED BY <1>0, <1>1, <1>2, <1>3, <1>4

LEMMA OrderedStep ==
  ASSUME BaseInv, BaseInv', OrderedInv, [Next]_vars
  PROVE  OrderedInv'
  <1>0. ChargeIsBooked <=> fsError \/ Booked
    BY DEF ChargeIsBooked, Booked
  <1>1. ASSUME NEW p \in Procs, Step(p)
        PROVE  OrderedInv'
    <2>1. ExtwritersGone'
      BY <1>1, ExtStep DEF BaseInv, OrderedInv
    <2>2. fsError => fsError'
      BY <1>1, StepIsRegular DEF BaseInv, Regular
    <2>3. CASE fsError'
      BY <2>1, <2>3 DEF OrderedInv, ChargeIsBooked
    <2>4. CASE ~fsError'
      <3>1. Booked'
        BY <1>0, <1>1, <2>2, <2>4, BookedStep DEF OrderedInv
      <3>2. QED BY <2>1, <3>1 DEF OrderedInv, ChargeIsBooked, Booked
    <2>5. QED BY <2>3, <2>4
  <1>2. CASE OrderedComplete \/ UNCHANGED vars
    <2>1. UNCHANGED <<proc, fsError>> /\ running' = running
      BY <1>2, IdleFacts DEF BaseInv, list
    <2>2. ExtwritersGone'
      BY <2>1 DEF OrderedInv, ExtwritersGone, RoleOf, TargetOf
    <2>3. CASE fsError
      BY <2>1, <2>2, <2>3 DEF OrderedInv, ChargeIsBooked
    <2>4. CASE ~fsError /\ OrderedComplete
      <3>1. Booked'
        BY <1>0, <2>4, CompleteBooked DEF OrderedInv
      <3>2. QED BY <2>2, <3>1 DEF OrderedInv, ChargeIsBooked, Booked
    <2>5. CASE UNCHANGED vars
      BY <2>2, <2>5
         DEF OrderedInv, ChargeIsBooked, vars, shared, durable, list, RoleOf
    <2>6. QED BY <1>2, <2>3, <2>4, <2>5
  <1>3. QED BY <1>1, <1>2 DEF Next

LEMMA OrderedInit ==
  ASSUME Init
  PROVE  OrderedInv
  <1>1. \A p \in Procs : proc[p].pc = "idle"
    BY DEF Init, IdleProc, Fresh
  <1>2. \A p \in Procs : RoleOf(p) \notin Quieted
                         /\ RoleOf(p) \notin {"doing", "alone"}
    BY <1>1, QuietedRoles, RolePoints DEF RoleOf, QuietedPoints
  <1>3. \A i \in TransIds : tx[i].pending = One(ordered = i)
    BY DEF Init, Tx, One, TransIds
  <1>4. ordered = 0
    BY DEF Init
  <1>5. QED
    BY <1>2, <1>3, <1>4 DEF OrderedInv, ExtwritersGone, ChargeIsBooked

(* The argument for the ordered extents: after the wait for the external   *)
(* writers only tasks that cannot charge one have a handle, so that the    *)
(* second wait, for pending_ordered, is not undone.                        *)
THEOREM OrderedInvariant == Spec => [](BaseInv /\ OrderedInv)
  <1>1. Init => BaseInv /\ OrderedInv
    BY BaseInit, OrderedInit
  <1>2. BaseInv /\ OrderedInv /\ [Next]_vars => (BaseInv /\ OrderedInv)'
    BY BaseStep, OrderedStep
  <1>3. QED BY <1>1, <1>2, PTL DEF Spec

(* btrfs_remove_ordered_extent tells the running transaction, and that is  *)
(* the one that was charged with the extent, unless the filesystem has an  *)
(* error.                                                                  *)
THEOREM OrderedCharged == Spec => []OrderedIsCharged
  <1>1. BaseInv /\ OrderedInv => OrderedIsCharged
    <2> SUFFICES ASSUME BaseInv, OrderedInv, ordered # 0, ~fsError
                 PROVE  running = ordered /\ tx[ordered].pending = 1
      BY DEF OrderedIsCharged
    <2>1. running = ordered
      BY DEF OrderedInv, ChargeIsBooked
    <2>2. ordered \in TransIds
      BY ConstantsAssumption DEF BaseInv, CoreInv, TypeOK, TransIds
    <2>3. QED BY <2>1, <2>2 DEF OrderedInv, ChargeIsBooked, One
  <1>2. QED BY <1>1, OrderedInvariant, PTL

-----------------------------------------------------------------------------
(***************************************************************************)
(* References                                                              *)
(***************************************************************************)
(* The references that a task holds on transaction i. *)
Refs(r, i) == One(r.tx = i) + One(r.ref = i) + One(r.wtx = i) + One(r.pin = i)

RefInv ==
  \A i \in 1..generation :
     tx[i].use = Cardinality(Pinning(i))
                 + Cardinality({q \in Procs : proc[q].ref = i})
                 + Cardinality({q \in Procs : proc[q].wtx = i})
                 + Cardinality({q \in Procs : proc[q].pin = i})
                 + One(HasBaseReference(i))

(* use_count moves with the references of p and the base reference. *)
RefFrame(p) ==
  \A i \in 1..generation :
     tx'[i].use + Refs(proc[p], i) + One(HasBaseReference(i))
        = tx[i].use + Refs(proc'[p], i) + One(HasBaseReference(i)')

(* How many tasks point to transaction i with each of their pointers.     *)
TxCount(i)  == Cardinality({q \in Procs : proc[q].tx = i})
RefCount(i) == Cardinality({q \in Procs : proc[q].ref = i})
WtxCount(i) == Cardinality({q \in Procs : proc[q].wtx = i})
PinCount(i) == Cardinality({q \in Procs : proc[q].pin = i})

LEMMA PointerCounts ==
  ASSUME NEW p \in Procs, OthersStay(p), NEW i
  PROVE  /\ TxCount(i)' = TxCount(i) + One(proc'[p].tx = i) - One(proc[p].tx = i)
         /\ RefCount(i)' = RefCount(i) + One(proc'[p].ref = i) - One(proc[p].ref = i)
         /\ WtxCount(i)' = WtxCount(i) + One(proc'[p].wtx = i) - One(proc[p].wtx = i)
         /\ PinCount(i)' = PinCount(i) + One(proc'[p].pin = i) - One(proc[p].pin = i)
  <1>1. TxCount(i)' = TxCount(i) + One(proc'[p].tx = i) - One(proc[p].tx = i)
    <2> DEFINE S == {q \in Procs : proc[q].tx = i}
               T == {q \in Procs : proc'[q].tx = i}
    <2>1. S \in SUBSET Procs /\ T \in SUBSET Procs
      OBVIOUS
    <2>2. S \ {p} = T \ {p}
      BY DEF OthersStay
    <2>3. Cardinality(T) = Cardinality(S) + One(p \in T) - One(p \in S)
      <3> HIDE DEF S, T
      <3> QED BY <2>1, <2>2, CountStep
    <2>4. /\ p \in T <=> proc'[p].tx = i
          /\ p \in S <=> proc[p].tx = i
      OBVIOUS
    <2>5. QED BY <2>3, <2>4 DEF One, TxCount
  <1>2. RefCount(i)' = RefCount(i) + One(proc'[p].ref = i) - One(proc[p].ref = i)
    <2> DEFINE S == {q \in Procs : proc[q].ref = i}
               T == {q \in Procs : proc'[q].ref = i}
    <2>1. S \in SUBSET Procs /\ T \in SUBSET Procs
      OBVIOUS
    <2>2. S \ {p} = T \ {p}
      BY DEF OthersStay
    <2>3. Cardinality(T) = Cardinality(S) + One(p \in T) - One(p \in S)
      <3> HIDE DEF S, T
      <3> QED BY <2>1, <2>2, CountStep
    <2>4. /\ p \in T <=> proc'[p].ref = i
          /\ p \in S <=> proc[p].ref = i
      OBVIOUS
    <2>5. QED BY <2>3, <2>4 DEF One, RefCount
  <1>3. WtxCount(i)' = WtxCount(i) + One(proc'[p].wtx = i) - One(proc[p].wtx = i)
    <2> DEFINE S == {q \in Procs : proc[q].wtx = i}
               T == {q \in Procs : proc'[q].wtx = i}
    <2>1. S \in SUBSET Procs /\ T \in SUBSET Procs
      OBVIOUS
    <2>2. S \ {p} = T \ {p}
      BY DEF OthersStay
    <2>3. Cardinality(T) = Cardinality(S) + One(p \in T) - One(p \in S)
      <3> HIDE DEF S, T
      <3> QED BY <2>1, <2>2, CountStep
    <2>4. /\ p \in T <=> proc'[p].wtx = i
          /\ p \in S <=> proc[p].wtx = i
      OBVIOUS
    <2>5. QED BY <2>3, <2>4 DEF One, WtxCount
  <1>4. PinCount(i)' = PinCount(i) + One(proc'[p].pin = i) - One(proc[p].pin = i)
    <2> DEFINE S == {q \in Procs : proc[q].pin = i}
               T == {q \in Procs : proc'[q].pin = i}
    <2>1. S \in SUBSET Procs /\ T \in SUBSET Procs
      OBVIOUS
    <2>2. S \ {p} = T \ {p}
      BY DEF OthersStay
    <2>3. Cardinality(T) = Cardinality(S) + One(p \in T) - One(p \in S)
      <3> HIDE DEF S, T
      <3> QED BY <2>1, <2>2, CountStep
    <2>4. /\ p \in T <=> proc'[p].pin = i
          /\ p \in S <=> proc[p].pin = i
      OBVIOUS
    <2>5. QED BY <2>3, <2>4 DEF One, PinCount
  <1>5. QED BY <1>1, <1>2, <1>3, <1>4

LEMMA RefKept ==
  ASSUME BaseInv, RefInv, NEW p \in Procs, OthersStay(p), RefFrame(p),
         generation' = generation, tx' \in [TransIds -> TxState]
  PROVE  RefInv'
  <1> USE DEF BaseInv
  <1> SUFFICES ASSUME NEW i \in 1..generation
               PROVE  tx'[i].use = TxCount(i)' + RefCount(i)' + WtxCount(i)'
                                   + PinCount(i)' + One(HasBaseReference(i)')
    BY DEF RefInv, Pinning, One, TxCount, RefCount, WtxCount, PinCount
  <1>1. tx[i].use = TxCount(i) + RefCount(i) + WtxCount(i) + PinCount(i)
                    + One(HasBaseReference(i))
    BY DEF RefInv, Pinning, TxCount, RefCount, WtxCount, PinCount
  <1>2. /\ TxCount(i) \in Nat /\ RefCount(i) \in Nat
        /\ WtxCount(i) \in Nat /\ PinCount(i) \in Nat
    BY TasksFinite DEF TxCount, RefCount, WtxCount, PinCount
  <1>3. tx'[i].use \in Int /\ tx[i].use \in Int
    BY Created DEF CoreInv, TypeOK, TxState
  <1>4. tx'[i].use + Refs(proc[p], i) + One(HasBaseReference(i))
           = tx[i].use + Refs(proc'[p], i) + One(HasBaseReference(i)')
    BY DEF RefFrame
  <1> DEFINE h  == One(HasBaseReference(i))
             h1 == One(HasBaseReference(i)')
             a  == One(proc[p].tx = i)
             a1 == One(proc'[p].tx = i)
             b  == One(proc[p].ref = i)
             b1 == One(proc'[p].ref = i)
             c  == One(proc[p].wtx = i)
             c1 == One(proc'[p].wtx = i)
             d  == One(proc[p].pin = i)
             d1 == One(proc'[p].pin = i)
  <1>5. /\ h \in Int /\ a \in Int /\ b \in Int /\ c \in Int /\ d \in Int
        /\ h1 \in Int /\ a1 \in Int /\ b1 \in Int /\ c1 \in Int /\ d1 \in Int
    BY OneType
  <1>6. /\ TxCount(i)' = TxCount(i) + a1 - a
        /\ RefCount(i)' = RefCount(i) + b1 - b
        /\ WtxCount(i)' = WtxCount(i) + c1 - c
        /\ PinCount(i)' = PinCount(i) + d1 - d
    BY PointerCounts
  <1>7. tx'[i].use = TxCount(i)' + RefCount(i)' + WtxCount(i)' + PinCount(i)' + h1
    <2>1. tx[i].use = TxCount(i) + RefCount(i) + WtxCount(i) + PinCount(i) + h
      BY <1>1
    <2>2. tx'[i].use + (a + b + c + d) + h = tx[i].use + (a1 + b1 + c1 + d1) + h1
      BY <1>4 DEF Refs
    <2> HIDE DEF h, h1, a, a1, b, b1, c, c1, d, d1
    <2>3. QED BY <1>2, <1>3, <1>5, <1>6, <2>1, <2>2
  <1>8. QED BY <1>7

-----------------------------------------------------------------------------
(* Who keeps the reference of trans_list once the transaction left it. *)
BaseOf(r, i) == r.doom = i \/ (r.pc = "putbase" /\ r.tx = i)

LEMMA BaseOwner ==
  ASSUME CoreInv, NEW q \in Procs, NEW i, i # 0, BaseOf(proc[q], i)
  PROVE  RoleOf(q) \in Owners /\ TargetOf(q) = i
  <1>1. CASE proc[q].doom = i
    <2>1. proc[q].pc \in WalkPoints \cup {"drain"}
      BY <1>1, TaskFacts DEF Shape
    <2>2. QED
      BY <1>1, <2>1, WalkerFacts
         DEF RoleOf, TargetOf, Owners, Committers, Reapers
  <1>2. CASE proc[q].pc = "putbase" /\ proc[q].tx = i
    BY <1>2, CommitterFacts DEF CommitPoints, RoleOf, TargetOf, Owners
  <1>3. QED BY <1>1, <1>2 DEF BaseOf

LEMMA BaseMove ==
  ASSUME NEW p \in Procs, OthersStay(p), NEW i,
         \/ i \in listed /\ (i \in listed' \/ BaseOf(proc'[p], i))
         \/ /\ i \in listed' <=> i \in listed
            /\ BaseOf(proc'[p], i) <=> BaseOf(proc[p], i)
  PROVE  HasBaseReference(i)' <=> HasBaseReference(i)
  <1>1. HasBaseReference(i) <=>
           i \in listed \/ \E q \in Procs : BaseOf(proc[q], i)
    BY DEF HasBaseReference, BaseOf, At
  <1>2. HasBaseReference(i)' <=>
           i \in listed' \/ \E q \in Procs : BaseOf(proc'[q], i)
    BY DEF HasBaseReference, BaseOf, At
  <1>3. \A q \in Procs : q # p => proc'[q] = proc[q]
    BY DEF OthersStay
  <1>4. CASE i \in listed /\ (i \in listed' \/ BaseOf(proc'[p], i))
    BY <1>1, <1>2, <1>4
  <1>5. CASE /\ i \in listed' <=> i \in listed
             /\ BaseOf(proc'[p], i) <=> BaseOf(proc[p], i)
    BY <1>1, <1>2, <1>3, <1>5
  <1>6. QED BY <1>4, <1>5

(* The owner of i gives the base reference away. *)
LEMMA BaseGone ==
  ASSUME CoreInv, NEW p \in Procs, OthersStay(p), NEW i, i # 0,
         BaseOf(proc[p], i), ~BaseOf(proc'[p], i), i \notin listed'
  PROVE  HasBaseReference(i) /\ ~HasBaseReference(i)'
  <1>1. HasBaseReference(i)
    BY DEF HasBaseReference, BaseOf, At
  <1>2. \A q \in Procs : q # p => proc'[q] = proc[q]
    BY DEF OthersStay
  <1>3. ASSUME NEW q \in Procs, BaseOf(proc'[q], i)
        PROVE  FALSE
    <2>1. q # p /\ BaseOf(proc[q], i)
      BY <1>2, <1>3
    <2>2. /\ RoleOf(q) \in Owners /\ TargetOf(q) = i
          /\ RoleOf(p) \in Owners /\ TargetOf(p) = i
      BY <2>1, BaseOwner
    <2>3. QED BY <2>1, <2>2 DEF CoreInv, RoleInv, OneOwner
  <1>4. QED BY <1>1, <1>3 DEF HasBaseReference, BaseOf, At

-----------------------------------------------------------------------------
(* p keeps its references and none is counted. *)
SameUse == \A i \in TransIds : tx'[i].use = tx[i].use
SameRefs(p) ==
  /\ proc'[p].tx = proc[p].tx /\ proc'[p].ref = proc[p].ref
  /\ proc'[p].wtx = proc[p].wtx /\ proc'[p].pin = proc[p].pin

(* Nothing happens to the base references. *)
BaseKept(p) ==
  /\ listed' = listed
  /\ proc'[p].doom = proc[p].doom
  /\ proc[p].pc # "putbase" /\ proc'[p].pc # "putbase"

KeepsRefs(p) == SameUse /\ SameRefs(p) /\ BaseKept(p)

LEMMA SameBase ==
  ASSUME NEW p \in Procs, OthersStay(p), BaseKept(p), NEW i
  PROVE  One(HasBaseReference(i)') = One(HasBaseReference(i))
  <1>1. HasBaseReference(i)' <=> HasBaseReference(i)
    BY BaseMove DEF BaseKept, BaseOf
  <1>2. QED BY <1>1 DEF One

LEMMA RefSame ==
  ASSUME CoreInv, NEW p \in Procs, OthersStay(p), KeepsRefs(p)
  PROVE  RefFrame(p)
  <1> SUFFICES ASSUME NEW i \in 1..generation
               PROVE  tx'[i].use + Refs(proc[p], i) + One(HasBaseReference(i))
                         = tx[i].use + Refs(proc'[p], i)
                           + One(HasBaseReference(i)')
    BY DEF RefFrame
  <1>1. tx'[i].use = tx[i].use
    BY Created DEF KeepsRefs, SameUse
  <1>2. Refs(proc'[p], i) = Refs(proc[p], i)
    BY DEF KeepsRefs, SameRefs, Refs
  <1>3. QED BY <1>1, <1>2, SameBase DEF KeepsRefs

LEMMA UseKept ==
  ASSUME tx \in [TransIds -> TxState], NEW i, NEW m, NEW n,
         \/ tx' = tx
         \/ tx' = [tx EXCEPT ![i].state = n]
         \/ tx' = [tx EXCEPT ![i].ext = n]
         \/ tx' = [tx EXCEPT ![i].aborted = TRUE]
         \/ tx' = [tx EXCEPT ![i].writers = m, ![i].ext = n]
         \/ tx' = [tx EXCEPT ![i].pending = n]
  PROVE  SameUse
  <1> SUFFICES ASSUME NEW k \in TransIds
               PROVE  tx'[k].use = tx[k].use
    BY DEF SameUse
  <1>1. CASE tx' = tx
    BY <1>1 DEF TxState
  <1>2. CASE tx' = [tx EXCEPT ![i].state = n]
    BY <1>2 DEF TxState
  <1>3. CASE tx' = [tx EXCEPT ![i].ext = n]
    BY <1>3 DEF TxState
  <1>4. CASE tx' = [tx EXCEPT ![i].aborted = TRUE]
    BY <1>4 DEF TxState
  <1>5. CASE tx' = [tx EXCEPT ![i].writers = m, ![i].ext = n]
    BY <1>5 DEF TxState
  <1>6. CASE tx' = [tx EXCEPT ![i].pending = n]
    BY <1>6 DEF TxState
  <1>7. QED BY <1>1, <1>2, <1>3, <1>4, <1>5, <1>6

LEMMA UseMoved ==
  ASSUME CoreInv, NEW k \in TransIds, NEW i \in 1..generation
  PROVE  /\ tx' = Pin(k) => tx'[i].use = tx[i].use + One(k = i)
         /\ tx' = Put(k) => tx'[i].use = tx[i].use - One(k = i)
         /\ tx' = [tx EXCEPT ![k].use = @ - 2] =>
               tx'[i].use = tx[i].use - (One(k = i) + One(k = i))
         /\ tx[i].use \in Int
  <1>1. i \in TransIds /\ tx \in [TransIds -> TxState]
    BY Created DEF CoreInv, TypeOK
  <1>2. tx[i].use \in Int
    BY <1>1 DEF TxState
  <1>3. ASSUME tx' = Pin(k)
        PROVE  tx'[i].use = tx[i].use + One(k = i)
    BY <1>1, <1>2, <1>3 DEF Pin, One, TxState
  <1>4. ASSUME tx' = Put(k)
        PROVE  tx'[i].use = tx[i].use - One(k = i)
    BY <1>1, <1>2, <1>4 DEF Put, One, TxState
  <1>5. ASSUME tx' = [tx EXCEPT ![k].use = @ - 2]
        PROVE  tx'[i].use = tx[i].use - (One(k = i) + One(k = i))
    BY <1>1, <1>2, <1>5 DEF One, TxState
  <1>6. QED BY <1>2, <1>3, <1>4, <1>5

LEMMA PlainRefs ==
  ASSUME BaseInv, NEW p \in Procs,
         \/ (\E op \in Ops \ {"WAIT"} : StartRequest(p, op))
         \/ (\E i \in 0..generation : WaitRequest(p, i))
         \/ (\E b \in BOOLEAN : CommitRequest(p, b))
         \/ SyncLogRequest(p) \/ AbortRequest(p) \/ EndRequest(p)
         \/ SyncLogLock(p) \/ SyncLogSuper(p) \/ HandleFsError(p)
         \/ CommitEntry(p) \/ NoExtwriters(p) \/ NoOtherWriters(p)
         \/ CommitDoing(p) \/ WriteBlocks(p) \/ CleanupWait(p)
         \/ KthreadAttach(p) \/ KthreadAttached(p) \/ KthreadError(p)
         \/ KthreadDrain(p) \/ PrevCommitted(p) \/ NoPendingOrdered(p)
         \/ CommitUnblock(p) \/ WriteSuper(p) \/ CommitFinish(p)
         \/ CleanupLock(p) \/ CleanupOne(p) \/ AbortTransaction(p)
         \/ DropExtwriter(p) \/ EndTransaction(p) \/ ChargeOrdered(p)
  PROVE  KeepsRefs(p)
  <1> USE DEF BaseInv
  <1>0. tx \in [TransIds -> TxState]
    BY DEF CoreInv, TypeOK
  <1>1. ASSUME NEW op \in Ops \ {"WAIT"}, StartRequest(p, op)
        PROVE  KeepsRefs(p)
    BY <1>1, TaskFacts
       DEF KeepsRefs, SameUse, SameRefs, BaseKept, ProcState, At, list,
               StartRequest, shared
  <1>2. ASSUME NEW i \in 0..generation, WaitRequest(p, i)
        PROVE  KeepsRefs(p)
    BY <1>2, TaskFacts
       DEF KeepsRefs, SameUse, SameRefs, BaseKept, ProcState, At, list,
               WaitRequest, shared
  <1>3. ASSUME NEW b \in BOOLEAN, CommitRequest(p, b)
        PROVE  KeepsRefs(p)
    BY <1>3, TaskFacts
       DEF KeepsRefs, SameUse, SameRefs, BaseKept, ProcState, At, list,
               CommitRequest, shared
  <1>4. CASE SyncLogRequest(p)
    BY <1>4, TaskFacts
       DEF KeepsRefs, SameUse, SameRefs, BaseKept, ProcState, At, list,
               SyncLogRequest, Goto, shared
  <1>5. CASE AbortRequest(p)
    BY <1>5, TaskFacts
       DEF KeepsRefs, SameUse, SameRefs, BaseKept, ProcState, At, list,
               AbortRequest, shared
  <1>6. CASE EndRequest(p)
    BY <1>6, TaskFacts
       DEF KeepsRefs, SameUse, SameRefs, BaseKept, ProcState, At, list,
               EndRequest, shared
  <1>7. CASE SyncLogLock(p)
    BY <1>7, TaskFacts
       DEF KeepsRefs, SameUse, SameRefs, BaseKept, ProcState, At, list,
               SyncLogLock, Goto
  <1>8. CASE SyncLogSuper(p)
    BY <1>8, TaskFacts
       DEF KeepsRefs, SameUse, SameRefs, BaseKept, ProcState, At, list,
               SyncLogSuper, Goto
  <1>9. CASE HandleFsError(p)
    BY <1>9, TaskFacts
       DEF KeepsRefs, SameUse, SameRefs, BaseKept, ProcState, At, list,
               HandleFsError, Goto
  <1>10. CASE CommitEntry(p)
    BY <1>10, TaskFacts
       DEF KeepsRefs, SameUse, SameRefs, BaseKept, ProcState, At, list,
               CommitEntry, Goto, shared
  <1>11. CASE NoExtwriters(p)
    BY <1>11, TaskFacts
       DEF KeepsRefs, SameUse, SameRefs, BaseKept, ProcState, At, list,
               NoExtwriters, GotoOrFail, Goto, Fail, shared
  <1>12. CASE NoOtherWriters(p)
    BY <1>12, TaskFacts
       DEF KeepsRefs, SameUse, SameRefs, BaseKept, ProcState, At, list,
               NoOtherWriters, Goto, Fail, shared
  <1>13. CASE CommitDoing(p)
    BY <1>13, TaskFacts
       DEF KeepsRefs, SameUse, SameRefs, BaseKept, ProcState, At, list,
               CommitDoing, Goto, Fail
  <1>14. CASE WriteBlocks(p)
    BY <1>14, TaskFacts
       DEF KeepsRefs, SameUse, SameRefs, BaseKept, ProcState, At, list,
               WriteBlocks, Goto, Fail
  <1>15. CASE CleanupWait(p)
    BY <1>15, TaskFacts
       DEF KeepsRefs, SameUse, SameRefs, BaseKept, ProcState, At, list,
               CleanupWait, Goto, shared
  <1>16. CASE KthreadAttach(p)
    BY <1>16, TaskFacts
       DEF KeepsRefs, SameUse, SameRefs, BaseKept, ProcState, At, list,
               KthreadAttach, shared
  <1>17. CASE KthreadAttached(p)
    BY <1>17, TaskFacts
       DEF KeepsRefs, SameUse, SameRefs, BaseKept, ProcState, At, list,
               KthreadAttached, shared
  <1>18. CASE KthreadError(p)
    BY <1>18, TaskFacts
       DEF KeepsRefs, SameUse, SameRefs, BaseKept, ProcState, At, list,
               KthreadError, Goto, shared
  <1>19. CASE KthreadDrain(p)
    BY <1>19, TaskFacts
       DEF KeepsRefs, SameUse, SameRefs, BaseKept, ProcState, At, list,
               KthreadDrain, Goto, shared
  <1>20. CASE PrevCommitted(p)
    <2>1. \E n : tx' = [tx EXCEPT ![proc[p].tx].state = n]
      BY <1>20 DEF PrevCommitted
    <2>2. SameUse
      BY <1>0, <2>1, UseKept
    <2>3. QED
      BY <1>20, <2>2, TaskFacts
         DEF KeepsRefs, SameRefs, BaseKept, ProcState, At, list,
                 PrevCommitted, Goto
  <1>21. CASE NoPendingOrdered(p)
    <2>1. \E n : tx' = [tx EXCEPT ![proc[p].tx].state = n]
      BY <1>21 DEF NoPendingOrdered
    <2>2. SameUse
      BY <1>0, <2>1, UseKept
    <2>3. QED
      BY <1>21, <2>2, TaskFacts
         DEF KeepsRefs, SameRefs, BaseKept, ProcState, At, list,
                 NoPendingOrdered, Goto
  <1>22. CASE CommitUnblock(p)
    <2>1. \E n : tx' = [tx EXCEPT ![proc[p].tx].state = n]
      BY <1>22 DEF CommitUnblock
    <2>2. SameUse
      BY <1>0, <2>1, UseKept
    <2>3. QED
      BY <1>22, <2>2, TaskFacts
         DEF KeepsRefs, SameRefs, BaseKept, ProcState, At, list,
                 CommitUnblock, Goto
  <1>23. CASE WriteSuper(p)
    <2>1. tx' = tx \/ \E n : tx' = [tx EXCEPT ![proc[p].tx].state = n]
      BY <1>23 DEF WriteSuper
    <2>2. SameUse
      BY <1>0, <2>1, UseKept
    <2>3. QED
      BY <1>23, <2>2, TaskFacts
         DEF KeepsRefs, SameRefs, BaseKept, ProcState, At, list,
                 WriteSuper, Goto, Fail
  <1>24. CASE CommitFinish(p)
    <2>1. \E n : tx' = [tx EXCEPT ![proc[p].tx].state = n]
      BY <1>24 DEF CommitFinish
    <2>2. SameUse
      BY <1>0, <2>1, UseKept
    <2>3. QED
      BY <1>24, <2>2, TaskFacts
         DEF KeepsRefs, SameRefs, BaseKept, ProcState, At, list,
                 CommitFinish, Goto
  <1>25. CASE CleanupLock(p)
    <2>1. tx' = tx \/ \E n : tx' = [tx EXCEPT ![proc[p].tx].state = n]
      BY <1>25 DEF CleanupLock
    <2>2. SameUse
      BY <1>0, <2>1, UseKept
    <2>3. QED
      BY <1>25, <2>2, TaskFacts
         DEF KeepsRefs, SameRefs, BaseKept, ProcState, At, list,
                 CleanupLock, Goto
  <1>26. CASE CleanupOne(p)
    <2>1. \E n : tx' = [tx EXCEPT ![proc[p].doom].state = n]
      BY <1>26 DEF CleanupOne, CleanupState
    <2>2. SameUse
      BY <1>0, <2>1, UseKept
    <2>3. QED
      BY <1>26, <2>2, TaskFacts
         DEF KeepsRefs, SameRefs, BaseKept, ProcState, At, list,
                 CleanupOne, CleanupState, Goto
  <1>27. CASE AbortTransaction(p)
    <2>1. tx' = [tx EXCEPT ![proc[p].tx].aborted = TRUE]
      BY <1>27 DEF AbortTransaction
    <2>2. SameUse
      BY <1>0, <2>1, UseKept
    <2>3. QED
      BY <1>27, <2>2, TaskFacts
         DEF KeepsRefs, SameRefs, BaseKept, ProcState, At, list,
                 AbortTransaction, Goto
  <1>28. CASE DropExtwriter(p)
    <2>1. \E n : tx' = [tx EXCEPT ![proc[p].tx].ext = n]
      BY <1>28 DEF DropExtwriter
    <2>2. SameUse
      BY <1>0, <2>1, UseKept
    <2>3. QED
      BY <1>28, <2>2, TaskFacts
         DEF KeepsRefs, SameRefs, BaseKept, ProcState, At, list,
                 DropExtwriter
  <1>29. CASE EndTransaction(p)
    <2>1. PICK m, n : tx' = [tx EXCEPT ![proc[p].tx].writers = m,
                                       ![proc[p].tx].ext = n]
      BY <1>29 DEF EndTransaction
    <2>2. SameUse
      BY <1>0, <2>1, UseKept
    <2>3. QED
      BY <1>29, <2>2, TaskFacts
         DEF KeepsRefs, SameRefs, BaseKept, ProcState, At, list,
                 EndTransaction
  <1>30. CASE ChargeOrdered(p)
    <2>1. \E n : tx' = [tx EXCEPT ![proc[p].tx].pending = n]
      BY <1>30 DEF ChargeOrdered
    <2>2. SameUse
      BY <1>0, <2>1, UseKept
    <2>3. QED
      BY <1>30, <2>2, TaskFacts
         DEF KeepsRefs, SameRefs, BaseKept, ProcState, At, list,
                 ChargeOrdered
  <1>31. QED
    BY <1>1, <1>2, <1>3, <1>4, <1>5, <1>6, <1>7, <1>8, <1>9, <1>10, <1>11,
           <1>12, <1>13, <1>14, <1>15, <1>16, <1>17, <1>18, <1>19, <1>20,
           <1>21, <1>22, <1>23, <1>24, <1>25, <1>26, <1>27, <1>28, <1>29,
           <1>30

(* A reference that p takes or drops is counted. *)
MovesRefs(p) ==
  \A i \in 1..generation :
     tx'[i].use + Refs(proc[p], i) = tx[i].use + Refs(proc'[p], i)

LEMMA RefMoves ==
  ASSUME CoreInv, NEW p \in Procs, OthersStay(p), MovesRefs(p), BaseKept(p)
  PROVE  RefFrame(p)
  <1> SUFFICES ASSUME NEW i \in 1..generation
               PROVE  tx'[i].use + Refs(proc[p], i) + One(HasBaseReference(i))
                         = tx[i].use + Refs(proc'[p], i)
                           + One(HasBaseReference(i)')
    BY DEF RefFrame
  <1>1. tx'[i].use + Refs(proc[p], i) = tx[i].use + Refs(proc'[p], i)
    BY DEF MovesRefs
  <1>2. One(HasBaseReference(i)') = One(HasBaseReference(i))
    BY SameBase
  <1>3. QED BY <1>1, <1>2

(* The pointers of a task, in the order of Refs. *)
Points4(r, a, b, c, d) == r.tx = a /\ r.ref = b /\ r.wtx = c /\ r.pin = d

(* One reference on k: 0 becomes k, or k becomes 0. *)
LEMMA RefTaken ==
  ASSUME CoreInv, NEW p \in Procs, NEW k \in TransIds, tx' = Pin(k),
         NEW a, NEW b, NEW c, NEW d,
         \/ /\ Points4(proc[p], 0, b, c, d) /\ Points4(proc'[p], k, b, c, d)
         \/ /\ Points4(proc[p], a, 0, c, d) /\ Points4(proc'[p], a, k, c, d)
         \/ /\ Points4(proc[p], a, b, 0, d) /\ Points4(proc'[p], a, b, k, d)
         \/ /\ Points4(proc[p], a, b, c, 0) /\ Points4(proc'[p], a, b, c, k)
  PROVE  MovesRefs(p)
  <1> SUFFICES ASSUME NEW i \in 1..generation
               PROVE  tx'[i].use + Refs(proc[p], i)
                         = tx[i].use + Refs(proc'[p], i)
    BY DEF MovesRefs
  <1>1. tx'[i].use = tx[i].use + One(k = i) /\ tx[i].use \in Int
    BY UseMoved
  <1>2. i # 0
    BY Created
  <1>3. QED BY <1>1, <1>2 DEF Refs, Points4, One

LEMMA RefDropped ==
  ASSUME CoreInv, NEW p \in Procs, NEW k \in TransIds, tx' = Put(k),
         NEW a, NEW b, NEW c, NEW d,
         \/ /\ Points4(proc[p], k, b, c, d) /\ Points4(proc'[p], 0, b, c, d)
         \/ /\ Points4(proc[p], a, k, c, d) /\ Points4(proc'[p], a, 0, c, d)
         \/ /\ Points4(proc[p], a, b, k, d) /\ Points4(proc'[p], a, b, 0, d)
         \/ /\ Points4(proc[p], a, b, c, k) /\ Points4(proc'[p], a, b, c, 0)
  PROVE  MovesRefs(p)
  <1> SUFFICES ASSUME NEW i \in 1..generation
               PROVE  tx'[i].use + Refs(proc[p], i)
                         = tx[i].use + Refs(proc'[p], i)
    BY DEF MovesRefs
  <1>1. tx'[i].use = tx[i].use - One(k = i) /\ tx[i].use \in Int
    BY UseMoved
  <1>2. i # 0
    BY Created
  <1>3. QED BY <1>1, <1>2 DEF Refs, Points4, One

(* The pointers that a task does not have. *)
OutPointers == {"idle", "start", "waitcur", "blocked", "join", "alloc",
                "enoent", "asyncwait", "find", "committed", "barrierdone",
                "scan"}

LEMMA RefFacts ==
  ASSUME BaseInv, NEW p \in Procs
  PROVE  /\ RefShape(proc[p]) /\ proc[p] \in ProcState
         /\ proc \in [Procs -> ProcState]
         /\ proc[p].pc \in OutPointers => proc[p].tx = 0 /\ proc[p].doom = 0
         /\ proc[p].pc \in WaitPoints =>
               /\ proc[p].cont # "prev" => proc[p].tx = 0
               /\ proc[p].doom = 0
         /\ \A k \in {proc[p].tx, proc[p].ref, proc[p].wtx, proc[p].pin} :
               k # 0 => k \in TransIds
  <1> USE DEF BaseInv
  <1>1. /\ RefShape(proc[p]) /\ proc[p] \in ProcState
        /\ proc \in [Procs -> ProcState]
    BY PointerFacts
  <1>2. ASSUME proc[p].pc \in OutPointers
        PROVE  proc[p].tx = 0 /\ proc[p].doom = 0
    <2>1. Role(proc[p]) = "out"
      BY <1>2
         DEF Role, OutPointers, HandlePoints, ErrorPoints, WaitPoints,
             WalkPoints
    <2>2. QED
      BY <1>2, <2>1, TaskFacts, RoleSets
         DEF Shape, OutPointers, WalkPoints, Holders, Committers
  <1>3. ASSUME proc[p].pc \in WaitPoints
        PROVE  /\ proc[p].cont # "prev" => proc[p].tx = 0
               /\ proc[p].doom = 0
    <2>1. proc[p].cont # "prev" => Role(proc[p]) = "out"
      BY <1>3 DEF Role, HandlePoints, ErrorPoints, WaitPoints, WalkPoints
    <2>2. QED
      BY <1>3, <2>1, TaskFacts, RoleSets
         DEF Shape, WalkPoints, WaitPoints, Holders, Committers
  <1>4. \A k \in 0..MaxTrans : k # 0 => k \in TransIds
    BY ConstantsAssumption DEF TransIds
  <1>5. /\ proc[p].tx \in 0..MaxTrans /\ proc[p].ref \in 0..MaxTrans
        /\ proc[p].wtx \in 0..MaxTrans /\ proc[p].pin \in 0..MaxTrans
    BY <1>1 DEF ProcState
  <1>6. QED BY <1>1, <1>2, <1>3, <1>4, <1>5

(* A task at the end of a call has no pointer.                             *)
NoPointers(r) == Points4(r, 0, 0, 0, 0) /\ r.doom = 0 /\ r.pc # "putbase"

LEMMA EndsWithout ==
  ASSUME BaseInv, NEW p \in Procs,
         \/ Return(p)
         \/ \E ok \in BOOLEAN : WaitOver(p, ok)
         \/ proc' = [proc EXCEPT ![p] = IdleProc]
         \/ proc' = [proc EXCEPT ![p] = Fresh("scan", "none", 0)]
  PROVE  NoPointers(proc'[p])
  <1>1. \A pc, type, goal :
           pc # "putbase" => NoPointers(Fresh(pc, type, goal))
    BY DEF Fresh, NoPointers, Points4
  <1>2. proc \in [Procs -> ProcState]
    BY RefFacts
  <1>3. CASE Return(p)
    <2>1. proc'[p] = Returned(p)
      BY <1>2, <1>3 DEF Return
    <2>2. QED BY <1>1, <2>1 DEF Returned, IdleProc
  <1>4. ASSUME NEW ok \in BOOLEAN, WaitOver(p, ok)
        PROVE  NoPointers(proc'[p])
    <2>1. \/ proc'[p] = Fresh("barrierdone", "none", proc[p].goal)
          \/ proc'[p] = Fresh("scan", "none", 0)
          \/ proc'[p] = Fresh("idle", "none", 0)
      BY <1>2, <1>4 DEF WaitOver
    <2>2. QED BY <1>1, <2>1
  <1>5. CASE proc' = [proc EXCEPT ![p] = IdleProc]
    BY <1>1, <1>2, <1>5 DEF IdleProc
  <1>6. CASE proc' = [proc EXCEPT ![p] = Fresh("scan", "none", 0)]
    BY <1>1, <1>2, <1>6
  <1>7. QED BY <1>3, <1>4, <1>5, <1>6

(* A task without pointers ends its call.                                  *)
LEMMA EmptyReturn ==
  ASSUME BaseInv, NEW p \in Procs, Return(p), UNCHANGED <<list, tx>>,
         proc[p].pc \in {"start", "join", "alloc", "enoent", "committed",
                         "barrierdone"}
  PROVE  KeepsRefs(p)
  <1>1. NoPointers(proc'[p])
    BY EndsWithout
  <1>2. Points4(proc[p], 0, 0, 0, 0) /\ proc[p].doom = 0
    BY RefFacts DEF Points4, RefShape, WaitPoints, OutPointers
  <1>3. QED
    BY <1>1, <1>2
       DEF KeepsRefs, SameUse, SameRefs, BaseKept, NoPointers, Points4, list

(* The steps up to the handle. *)
LEMMA JoinRefs ==
  ASSUME BaseInv, NEW p \in Procs, JoinRunning(p),
         proc[p].pc \in {"join", "alloc"}, UNCHANGED list
  PROVE  (KeepsRefs(p) \/ MovesRefs(p)) /\ BaseKept(p)
  <1> USE DEF BaseInv
  <1>0. /\ Points4(proc[p], 0, 0, 0, 0) /\ proc[p].doom = 0
        /\ tx \in [TransIds -> TxState] /\ running \in TransIds
        /\ proc \in [Procs -> ProcState] /\ proc[p] \in ProcState
    BY RefFacts, ConstantsAssumption
       DEF Points4, RefShape, WaitPoints, OutPointers, CoreInv, TypeOK,
           JoinRunning, TransIds
  <1>1. CASE Return(p) /\ UNCHANGED tx
    BY <1>1, EmptyReturn DEF KeepsRefs
  <1>2. CASE Goto(p, "waitcur") /\ UNCHANGED tx
    BY <1>0, <1>2
       DEF KeepsRefs, SameUse, SameRefs, BaseKept, Goto, ProcState, list
  <1>3. CASE /\ tx' = [tx EXCEPT ![running].use = @ + 1,
                                 ![running].writers = @ + 1,
                                 ![running].ext =
                                     @ + One(proc[p].type \in EXTWRITERS)]
             /\ proc' = [proc EXCEPT ![p].pc = "joined", ![p].tx = running,
                            ![p].ext = proc[p].type \in EXTWRITERS,
                            ![p].cont = "none", ![p].goal = KeptGoal(p)]
    <2>1. Points4(proc'[p], running, 0, 0, 0) /\ BaseKept(p)
      BY <1>0, <1>3 DEF Points4, BaseKept, ProcState, list
    <2>2. ASSUME NEW i \in 1..generation
          PROVE  tx'[i].use + Refs(proc[p], i) = tx[i].use + Refs(proc'[p], i)
      <3>1. i \in TransIds /\ i # 0
        BY Created
      <3>2. tx'[i].use = tx[i].use + One(running = i) /\ tx[i].use \in Int
        BY <1>0, <1>3, <3>1 DEF One, TxState
      <3>3. QED BY <1>0, <2>1, <3>1, <3>2 DEF Refs, Points4, One
    <2>3. QED BY <2>1, <2>2 DEF MovesRefs
  <1>4. QED BY <1>1, <1>2, <1>3 DEF JoinRunning

LEMMA StartRefs ==
  ASSUME BaseInv, NEW p \in Procs, OthersStay(p),
         \/ StartEntry(p) \/ WaitCurrentTrans(p) \/ CurrentTransUnblocked(p)
         \/ JoinTransaction(p) \/ (NewTransaction(p) /\ UNCHANGED list)
         \/ Joined(p) \/ NothingToJoin(p) \/ Acknowledge(p)
  PROVE  RefFrame(p)
  <1> USE DEF BaseInv
  <1>0. /\ proc \in [Procs -> ProcState] /\ proc[p] \in ProcState
        /\ running # 0 => running \in TransIds
    BY RefFacts, ConstantsAssumption DEF CoreInv, TypeOK, TransIds
  <1>a. KeepsRefs(p) => RefFrame(p)
    BY RefSame
  <1>b. MovesRefs(p) /\ BaseKept(p) => RefFrame(p)
    BY RefMoves
  <1>1. CASE StartEntry(p)
    <2>1. CASE Return(p)
      BY <1>1, <1>a, <2>1, EmptyReturn DEF StartEntry, At, shared
    <2>2. CASE ~Return(p)
      BY <1>0, <1>1, <1>a, <2>2
         DEF StartEntry, At, shared, list, Goto, KeepsRefs, SameUse, SameRefs,
             BaseKept, ProcState
    <2>3. QED BY <2>1, <2>2
  <1>2. CASE WaitCurrentTrans(p)
    <2>1. CASE running # 0 /\ IsBlocked(running)
      <3>1. /\ tx' = Pin(running) /\ BaseKept(p)
            /\ Points4(proc[p], 0, 0, 0, 0)
            /\ Points4(proc'[p], 0, running, 0, 0)
        BY <1>0, <1>2, <2>1, RefFacts
           DEF WaitCurrentTrans, At, BaseKept, list, ProcState, Points4,
               RefShape, WaitPoints, OutPointers
      <3>2. QED BY <1>0, <1>b, <2>1, <3>1, RefTaken
    <2>2. CASE ~(running # 0 /\ IsBlocked(running))
      BY <1>0, <1>2, <1>a, <2>2
         DEF WaitCurrentTrans, At, AfterWaitCurrent, list, Goto, KeepsRefs,
             SameUse, SameRefs, BaseKept, ProcState
    <2>3. QED BY <2>1, <2>2
  <1>3. CASE CurrentTransUnblocked(p)
    <2>1. /\ tx' = Put(proc[p].ref) /\ proc[p].ref \in TransIds
          /\ BaseKept(p)
          /\ Points4(proc[p], 0, proc[p].ref, 0, 0)
          /\ Points4(proc'[p], 0, 0, 0, 0)
      BY <1>0, <1>3, RefFacts
         DEF CurrentTransUnblocked, AfterWaitCurrent, At, BaseKept, list,
             ProcState, Points4, RefShape, WaitPoints, OutPointers
    <2>2. QED BY <1>b, <2>1, RefDropped
  <1>4. CASE JoinTransaction(p)
    <2>1. CASE JoinRunning(p)
      BY <1>4, <1>a, <1>b, <2>1, JoinRefs DEF JoinTransaction, At
    <2>2. CASE Return(p) /\ UNCHANGED tx
      BY <1>4, <1>a, <2>2, EmptyReturn DEF JoinTransaction, At
    <2>3. CASE UNCHANGED tx /\ (Goto(p, "enoent") \/ Goto(p, "alloc"))
      BY <1>0, <1>4, <1>a, <2>3
         DEF JoinTransaction, At, list, Goto, KeepsRefs, SameUse, SameRefs,
             BaseKept, ProcState
    <2>4. QED BY <1>4, <2>1, <2>2, <2>3 DEF JoinTransaction
  <1>5. CASE NewTransaction(p) /\ UNCHANGED list
    <2>1. CASE JoinRunning(p)
      BY <1>5, <1>a, <1>b, <2>1, JoinRefs DEF NewTransaction, At
    <2>2. CASE Return(p) /\ UNCHANGED tx
      BY <1>5, <1>a, <2>2, EmptyReturn DEF NewTransaction, At
    <2>3. generation' # generation + 1
      BY <1>5, Created DEF list
    <2>4. QED BY <1>5, <2>1, <2>2, <2>3 DEF NewTransaction
  <1>6. CASE Joined(p)
    <2>1. proc[p].tx = running
      <3>1. Role(proc[p]) = "handle" /\ Target(proc[p]) = running
        BY <1>6, RolePoints
           DEF Joined, At, HandlePoints, CoreInv, RoleInv, HandlesAreRunning,
               RoleOf, TargetOf
      <3>2. QED BY <3>1, TaskFacts, TargetOfRole DEF Holders
    <2>2. QED
      BY <1>0, <1>6, <1>a, <2>1
         DEF Joined, At, shared, list, KeepsRefs, SameUse, SameRefs, BaseKept,
             ProcState
  <1>7. CASE NothingToJoin(p)
    <2>1. CASE Return(p)
      BY <1>7, <1>a, <2>1, EmptyReturn DEF NothingToJoin, At, shared
    <2>2. CASE ~Return(p)
      BY <1>0, <1>7, <1>a, <2>2
         DEF NothingToJoin, At, shared, list, Goto, KeepsRefs, SameUse,
             SameRefs, BaseKept, ProcState
    <2>3. QED BY <2>1, <2>2
  <1>8. CASE Acknowledge(p)
    BY <1>8, <1>a, EmptyReturn DEF Acknowledge, shared
  <1>9. QED BY <1>1, <1>2, <1>3, <1>4, <1>5, <1>6, <1>7, <1>8

(* The steps that end a handle or wait for a commit. *)
LEMMA HandleRefs ==
  ASSUME BaseInv, NEW p \in Procs, OthersStay(p),
         CommitAsyncRequest(p) \/ AsyncCommitStarted(p) \/ EndPut(p)
  PROVE  RefFrame(p)
  <1> USE DEF BaseInv
  <1>0. proc \in [Procs -> ProcState] /\ proc[p] \in ProcState
    BY RefFacts
  <1>b. MovesRefs(p) /\ BaseKept(p) => RefFrame(p)
    BY RefMoves
  <1>1. CASE CommitAsyncRequest(p)
    <2>1. proc[p].tx # 0
      <3>1. Role(proc[p]) = "handle"
        BY <1>1, RolePoints DEF CommitAsyncRequest, At, HandlePoints
      <3>2. QED BY <3>1, TaskFacts, TargetOfRole DEF Holders
    <2>2. /\ tx' = Pin(proc[p].tx) /\ proc[p].tx \in TransIds
          /\ BaseKept(p)
          /\ Points4(proc[p], proc[p].tx, 0, 0, 0)
          /\ Points4(proc'[p], proc[p].tx, proc[p].tx, 0, 0)
      BY <1>0, <1>1, <2>1, RefFacts
         DEF CommitAsyncRequest, At, BaseKept, list, ProcState, Points4,
             RefShape, WaitPoints
    <2>3. QED BY <1>b, <2>2, RefTaken
  <1>2. CASE AsyncCommitStarted(p)
    <2>1. NoPointers(proc'[p])
      BY <1>2, EndsWithout DEF AsyncCommitStarted
    <2>2. /\ tx' = Put(proc[p].ref) /\ proc[p].ref \in TransIds
          /\ BaseKept(p)
          /\ Points4(proc[p], 0, proc[p].ref, 0, 0)
          /\ Points4(proc'[p], 0, 0, 0, 0)
      BY <1>2, <2>1, RefFacts
         DEF AsyncCommitStarted, At, BaseKept, list, Points4, NoPointers,
             RefShape, WaitPoints, OutPointers
    <2>3. QED BY <1>b, <2>2, RefDropped
  <1>3. CASE EndPut(p)
    <2>1. /\ proc[p].pc = "endput" /\ proc[p].tx # 0 /\ proc[p].doom = 0
          /\ proc[p].cont \in {"ret", "async", "waiter"}
      BY <1>3, TaskFacts, RolePoints
         DEF EndPut, At, Shape, WalkPoints, Holders
    <2>2. /\ tx' = Put(proc[p].tx) /\ proc[p].tx \in TransIds /\ listed' = listed
          /\ Points4(proc[p], proc[p].tx, proc[p].ref, 0, 0)
          /\ proc[p].cont = "ret" => proc[p].ref = 0
      BY <1>3, <2>1, RefFacts
         DEF EndPut, list, Points4, RefShape, WaitPoints
    <2>3. Points4(proc'[p], 0, proc[p].ref, 0, 0) /\ BaseKept(p)
      <3>1. CASE proc[p].cont = "ret"
        <4>1. Return(p)
          BY <1>3, <3>1 DEF EndPut
        <4>2. NoPointers(proc'[p])
          BY <4>1, EndsWithout
        <4>3. QED
          BY <2>1, <2>2, <3>1, <4>2 DEF NoPointers, Points4, BaseKept
      <3>2. CASE proc[p].cont \in {"async", "waiter"}
        BY <1>0, <1>3, <2>1, <2>2, <3>2
           DEF EndPut, Points4, BaseKept, ProcState
      <3>3. QED BY <2>1, <3>1, <3>2
    <2>4. QED BY <1>b, <2>2, <2>3, RefDropped
  <1>4. QED BY <1>1, <1>2, <1>3

LEMMA WaitRefs ==
  ASSUME BaseInv, NEW p \in Procs, OthersStay(p),
         FindCommit(p) \/ CommitReached(p) \/ WaitForEarlier(p)
  PROVE  RefFrame(p)
  <1> USE DEF BaseInv
  <1>0. /\ proc \in [Procs -> ProcState] /\ proc[p] \in ProcState
        /\ listed \subseteq TransIds
    BY RefFacts DEF CoreInv, TypeOK
  <1>a. KeepsRefs(p) => RefFrame(p)
    BY RefSame
  <1>b. MovesRefs(p) /\ BaseKept(p) => RefFrame(p)
    BY RefMoves
  <1>1. CASE FindCommit(p)
    <2>1. /\ Points4(proc[p], 0, 0, 0, proc[p].pin) /\ proc[p].doom = 0
          /\ proc[p].pc = "find" /\ listed' = listed
          /\ proc[p].pin # 0 => proc[p].pin \in TransIds
      BY <1>1, RefFacts
         DEF FindCommit, At, list, Points4, RefShape, WaitPoints, OutPointers
    <2>2. CASE /\ WaitOver(p, TRUE)
               /\ tx' = IF proc[p].pin = 0 THEN tx ELSE Put(proc[p].pin)
      <3>1. Points4(proc'[p], 0, 0, 0, 0) /\ BaseKept(p)
        <4>1. NoPointers(proc'[p])
          BY <2>2, EndsWithout
        <4>2. QED BY <2>1, <4>1 DEF NoPointers, BaseKept
      <3>2. CASE proc[p].pin = 0
        BY <1>a, <2>1, <2>2, <3>1, <3>2
           DEF KeepsRefs, SameUse, SameRefs, Points4
      <3>3. CASE proc[p].pin # 0
        BY <1>b, <2>1, <2>2, <3>1, <3>3, RefDropped
      <3>4. QED BY <3>2, <3>3
    <2>3. ASSUME NEW i \in CommitToWaitFor(p), tx' = Pin(i),
                 proc' = [proc EXCEPT ![p].pc = "wait", ![p].ref = i]
          PROVE  RefFrame(p)
      <3>1. i \in TransIds
        BY <1>0, <2>3 DEF CommitToWaitFor, Started
      <3>2. Points4(proc'[p], 0, i, 0, proc[p].pin) /\ BaseKept(p)
        BY <1>0, <2>1, <2>3 DEF Points4, BaseKept, ProcState
      <3>3. QED BY <1>b, <2>1, <2>3, <3>1, <3>2, RefTaken
    <2>4. QED BY <1>1, <2>2, <2>3 DEF FindCommit
  <1>2. CASE CommitReached(p)
    <2>1. /\ Points4(proc[p], proc[p].tx, proc[p].ref, proc[p].wtx,
                     proc[p].pin)
          /\ Points4(proc'[p], proc[p].tx, proc[p].ref, 0, proc[p].pin)
          /\ BaseKept(p)
          /\ proc[p].wtx # 0 => proc[p].wtx \in TransIds
      BY <1>0, <1>2, RefFacts
         DEF CommitReached, At, list, Points4, BaseKept, ProcState
    <2>2. CASE proc[p].wtx = 0
      BY <1>2, <1>a, <2>1, <2>2
         DEF CommitReached, KeepsRefs, SameUse, SameRefs, Points4
    <2>3. CASE proc[p].wtx # 0
      <3>1. tx' = Put(proc[p].wtx)
        BY <1>2, <2>3 DEF CommitReached
      <3>2. QED BY <1>b, <2>1, <2>3, <3>1, RefDropped
    <2>4. QED BY <2>2, <2>3
  <1>3. CASE WaitForEarlier(p)
    <2>1. /\ Points4(proc[p], proc[p].tx, proc[p].ref, 0, proc[p].pin)
          /\ proc[p].pc = "waitnext" /\ listed' = listed
      BY <1>3, RefFacts
         DEF WaitForEarlier, At, list, Points4, RefShape
    <2>2. ASSUME NEW i \in listed, tx' = Pin(i),
                 proc' = [proc EXCEPT ![p].pc = "wait", ![p].wtx = i]
          PROVE  RefFrame(p)
      <3>1. /\ Points4(proc'[p], proc[p].tx, proc[p].ref, i, proc[p].pin)
            /\ BaseKept(p) /\ i \in TransIds
        BY <1>0, <2>1, <2>2 DEF Points4, BaseKept, ProcState
      <3>2. QED BY <1>b, <2>1, <2>2, <3>1, RefTaken
    <2>3. CASE Goto(p, "waited") /\ UNCHANGED tx
      BY <1>0, <1>a, <2>1, <2>3
         DEF KeepsRefs, SameUse, SameRefs, BaseKept, ProcState, Goto
    <2>4. QED BY <1>3, <2>2, <2>3 DEF WaitForEarlier
  <1>4. QED BY <1>1, <1>2, <1>3

LEMMA WaitedRefs ==
  ASSUME BaseInv, NEW p \in Procs, OthersStay(p), Waited(p)
  PROVE  RefFrame(p)
  <1> USE DEF BaseInv
  <1> DEFINE i == proc[p].ref
             k == proc[p].pin
             a == proc[p].tx
  <1>0. /\ proc \in [Procs -> ProcState] /\ proc[p] \in ProcState
        /\ tx \in [TransIds -> TxState]
    BY RefFacts DEF CoreInv, TypeOK
  <1>1. /\ Points4(proc[p], a, i, 0, k) /\ proc[p].pc = "waited"
        /\ listed' = listed /\ proc[p].doom = 0
        /\ i \in TransIds /\ (k # 0 => k \in TransIds)
        /\ proc[p].cont # "prev" => a = 0
        /\ proc[p].cont # "scan" => k = 0
    BY RefFacts
       DEF Waited, At, list, Points4, RefShape, WaitPoints
  <1>2. Points4(proc'[p], a, 0, 0, 0) /\ BaseKept(p)
    <2>1. CASE proc[p].cont = "prev"
      BY <1>0, <1>1, <2>1 DEF Waited, Points4, BaseKept, ProcState
    <2>2. CASE proc[p].cont = "waiter" /\ ~Return(p)
      BY <1>0, <1>1, <2>2 DEF Waited, Points4, BaseKept, ProcState
    <2>3. CASE proc[p].cont = "waiter" /\ Return(p)
      <3>1. NoPointers(proc'[p])
        BY <2>3, EndsWithout
      <3>2. QED BY <1>1, <2>3, <3>1 DEF NoPointers, Points4, BaseKept
    <2>4. CASE proc[p].cont \notin {"prev", "waiter"}
      <3>1. WaitOver(p, ~tx[i].aborted) /\ (~tx[i].aborted) \in BOOLEAN
        BY <2>4 DEF Waited
      <3>2. NoPointers(proc'[p])
        BY <3>1, EndsWithout
      <3>3. QED BY <1>1, <2>4, <3>2 DEF NoPointers, Points4, BaseKept
    <2>5. QED BY <2>1, <2>2, <2>3, <2>4
  <1>3. MovesRefs(p)
    <2>1. CASE k = 0
      <3>1. tx' = Put(i)
        BY <2>1 DEF Waited
      <3>2. QED BY <1>1, <1>2, <2>1, <3>1, RefDropped
    <2>2. ASSUME k # 0, NEW j \in 1..generation
          PROVE  tx'[j].use + Refs(proc[p], j) = tx[j].use + Refs(proc'[p], j)
      <3>1. j \in TransIds /\ j # 0 /\ tx[j].use \in Int
        BY <1>0, Created DEF TxState
      <3>2. tx'[j].use = tx[j].use - (One(i = j) + One(k = j))
        <4>1. CASE k = i
          <5>1. tx' = [tx EXCEPT ![i].use = @ - 2]
            BY <2>2, <4>1 DEF Waited
          <5>2. QED BY <1>0, <1>1, <3>1, <4>1, <5>1 DEF One, TxState
        <4>2. CASE k # i
          <5>1. tx' = [Put(i) EXCEPT ![k].use = @ - 1]
            BY <2>2, <4>2 DEF Waited
          <5>2. QED
            BY <1>0, <1>1, <2>2, <3>1, <4>2, <5>1 DEF One, Put, TxState
        <4>3. QED BY <4>1, <4>2
      <3>3. /\ Refs(proc[p], j) = One(a = j) + One(i = j) + One(k = j)
            /\ Refs(proc'[p], j) = One(a = j)
        BY <1>1, <1>2, <3>1 DEF Refs, Points4, One
      <3>4. QED
        BY <3>1, <3>2, <3>3, OneType DEF One
    <2>3. QED BY <2>1, <2>2 DEF MovesRefs
  <1>4. QED BY <1>2, <1>3, RefMoves

(* The base reference passes from trans_list to whoever unlists.           *)
LEMMA RefBaseMoves ==
  ASSUME CoreInv, NEW p \in Procs, OthersStay(p), SameUse, SameRefs(p),
         \A i \in 1..generation :
            \/ i \in listed /\ (i \in listed' \/ BaseOf(proc'[p], i))
            \/ /\ i \in listed' <=> i \in listed
               /\ BaseOf(proc'[p], i) <=> BaseOf(proc[p], i)
  PROVE  RefFrame(p)
  <1> SUFFICES ASSUME NEW i \in 1..generation
               PROVE  tx'[i].use + Refs(proc[p], i) + One(HasBaseReference(i))
                         = tx[i].use + Refs(proc'[p], i)
                           + One(HasBaseReference(i)')
    BY DEF RefFrame
  <1>1. tx'[i].use = tx[i].use
    BY Created DEF SameUse
  <1>2. Refs(proc'[p], i) = Refs(proc[p], i)
    BY DEF SameRefs, Refs
  <1>3. One(HasBaseReference(i)') = One(HasBaseReference(i))
    <2>1. HasBaseReference(i)' <=> HasBaseReference(i)
      BY BaseMove
    <2>2. QED BY <2>1 DEF One
  <1>4. QED BY <1>1, <1>2, <1>3

(* The committer and the kthread at the start of their work. *)
LEMMA PrepRefs ==
  ASSUME BaseInv, NEW p \in Procs, OthersStay(p), CommitPrep(p)
  PROVE  RefFrame(p)
  <1> USE DEF BaseInv
  <1> DEFINE i == proc[p].tx
  <1>0. /\ proc \in [Procs -> ProcState] /\ proc[p] \in ProcState
        /\ tx \in [TransIds -> TxState] /\ listed \subseteq TransIds
    BY RefFacts DEF CoreInv, TypeOK
  <1>1. /\ Points4(proc[p], i, 0, 0, 0) /\ proc[p].pc = "prep"
        /\ listed' = listed /\ i \in TransIds
    <2>1. i # 0
      <3>1. Role(proc[p]) = "handle"
        BY RolePoints DEF CommitPrep, At, HandlePoints
      <3>2. QED BY <3>1, TaskFacts, TargetOfRole DEF Holders
    <2>2. QED
      BY <2>1, RefFacts
         DEF CommitPrep, At, list, Points4, RefShape, WaitPoints
  <1>2. CASE /\ tx' = Pin(i)
             /\ proc' = [proc EXCEPT ![p].pc = "endw", ![p].cont = "waiter",
                                     ![p].ref = i]
    <2>1. Points4(proc'[p], i, i, 0, 0) /\ BaseKept(p)
      BY <1>0, <1>1, <1>2 DEF Points4, BaseKept, ProcState
    <2>2. QED BY <1>1, <1>2, <2>1, RefTaken, RefMoves
  <1>3. ASSUME NEW k \in listed,
               tx' = [Pin(k) EXCEPT ![i].state = COMMIT_PREP],
               proc' = [proc EXCEPT ![p].pc = "wait", ![p].cont = "prev",
                                    ![p].ref = k]
        PROVE  RefFrame(p)
    <2>1. Points4(proc'[p], i, k, 0, 0) /\ BaseKept(p)
      BY <1>0, <1>1, <1>3 DEF Points4, BaseKept, ProcState
    <2>2. ASSUME NEW j \in 1..generation
          PROVE  tx'[j].use + Refs(proc[p], j) = tx[j].use + Refs(proc'[p], j)
      <3>1. j \in TransIds /\ j # 0
        BY Created
      <3>2. tx'[j].use = tx[j].use + One(k = j) /\ tx[j].use \in Int
        BY <1>0, <1>3, <3>1 DEF Pin, One, TxState
      <3>3. QED BY <1>1, <2>1, <3>1, <3>2 DEF Refs, Points4, One
    <2>3. QED BY <2>1, <2>2, RefMoves DEF MovesRefs
  <1>4. CASE /\ Fail(p) \/ Goto(p, "dropext")
             /\ \E n : tx' = [tx EXCEPT ![i].state = n]
    <2>1. SameUse
      BY <1>0, <1>4, UseKept
    <2>2. SameRefs(p) /\ BaseKept(p)
      BY <1>0, <1>1, <1>4 DEF SameRefs, BaseKept, ProcState, Fail, Goto
    <2>3. QED BY <2>1, <2>2, RefSame DEF KeepsRefs
  <1>5. \/ /\ tx' = Pin(i)
           /\ proc' = [proc EXCEPT ![p].pc = "endw", ![p].cont = "waiter",
                                   ![p].ref = i]
        \/ \E k \in listed :
              /\ tx' = [Pin(k) EXCEPT ![i].state = COMMIT_PREP]
              /\ proc' = [proc EXCEPT ![p].pc = "wait", ![p].cont = "prev",
                                      ![p].ref = k]
        \/ /\ Fail(p) \/ Goto(p, "dropext")
           /\ \E n : tx' = [tx EXCEPT ![i].state = n]
    BY DEF CommitPrep
  <1>6. QED BY <1>2, <1>3, <1>4, <1>5

LEMMA ScanRefs ==
  ASSUME BaseInv, NEW p \in Procs, OthersStay(p), KthreadScan(p)
  PROVE  RefFrame(p)
  <1> USE DEF BaseInv
  <1>0. /\ proc \in [Procs -> ProcState] /\ proc[p] \in ProcState
        /\ tx \in [TransIds -> TxState] /\ listed \subseteq TransIds
    BY RefFacts DEF CoreInv, TypeOK
  <1>1. /\ Points4(proc[p], 0, 0, 0, 0) /\ proc[p].pc = "scan"
        /\ listed' = listed /\ proc[p].doom = 0
    BY RefFacts
       DEF KthreadScan, At, list, Points4, RefShape, WaitPoints, OutPointers
  <1>2. CASE Goto(p, "idle") /\ UNCHANGED tx
    <2>1. KeepsRefs(p)
      BY <1>0, <1>1, <1>2
         DEF KeepsRefs, SameUse, SameRefs, BaseKept, ProcState, Goto
    <2>2. QED BY <2>1, RefSame
  <1>3. ASSUME NEW i \in listed, tx' = Pin(i),
               proc' = [proc EXCEPT ![p].pc = "find", ![p].cont = "scan",
                                    ![p].goal = i, ![p].pin = i]
        PROVE  RefFrame(p)
    <2>1. /\ Points4(proc'[p], 0, 0, 0, i) /\ BaseKept(p) /\ i \in TransIds
      BY <1>0, <1>1, <1>3 DEF Points4, BaseKept, ProcState
    <2>2. QED BY <1>1, <1>3, <2>1, RefTaken, RefMoves
  <1>4. ASSUME NEW i \in listed,
               proc' = [proc EXCEPT ![p].doom = i,
                          ![p].pc = IF i = running THEN "drain" ELSE "clean1"],
               tx' = IF i = running
                     THEN [tx EXCEPT ![i].state = COMMIT_DOING] ELSE tx
        PROVE  RefFrame(p)
    <2>1. SameUse
      BY <1>0, <1>4, UseKept
    <2>2. /\ SameRefs(p) /\ proc'[p].doom = i
          /\ proc'[p].pc \in {"drain", "clean1"}
      BY <1>0, <1>1, <1>4 DEF SameRefs, ProcState
    <2>3. \A j \in 1..generation :
             \/ j \in listed /\ (j \in listed' \/ BaseOf(proc'[p], j))
             \/ /\ j \in listed' <=> j \in listed
                /\ BaseOf(proc'[p], j) <=> BaseOf(proc[p], j)
      BY <1>1, <1>4, <2>2, Created DEF BaseOf
    <2>4. QED BY <2>1, <2>2, <2>3, RefBaseMoves
  <1>5. QED BY <1>2, <1>3, <1>4 DEF KthreadScan

-----------------------------------------------------------------------------
(***************************************************************************)
(* The base reference                                                      *)
(***************************************************************************)
LEMMA UnlistRefs ==
  ASSUME BaseInv, NEW p \in Procs, OthersStay(p),
         CommitUnlist(p) \/ CleanupUnlist(p)
  PROVE  RefFrame(p)
  <1> USE DEF BaseInv
  <1> DEFINE i == proc[p].tx
  <1>0. proc \in [Procs -> ProcState] /\ proc[p] \in ProcState
    BY RefFacts
  <1>1. /\ i \in listed /\ listed' = listed \ {i} /\ proc[p].doom = 0
        /\ proc[p].pc # "putbase"
    <2>1. Role(proc[p]) \in {"done", "dead"}
      BY RolePoints DEF CommitUnlist, CleanupUnlist, At
    <2>2. i \in listed
      BY <2>1, CommitterFacts
         DEF CommitUnlist, CleanupUnlist, At, CommitPoints, OwnedPlace
    <2>3. proc[p].doom = 0
      BY TaskFacts
         DEF CommitUnlist, CleanupUnlist, At, Shape, WalkPoints
    <2>4. QED BY <2>2, <2>3 DEF CommitUnlist, CleanupUnlist, At
  <1>2. SameUse /\ SameRefs(p)
    BY <1>0 DEF CommitUnlist, CleanupUnlist, SameUse, SameRefs, Goto, ProcState
  <1>3. \A j : j # 0 => (BaseOf(proc'[p], j) <=> j = i)
    <2>1. CASE CommitUnlist(p)
      <3>1. /\ proc'[p].pc = "putbase" /\ proc'[p].tx = i
            /\ proc'[p].doom = 0
        BY <1>0, <1>1, <2>1 DEF CommitUnlist, Goto, ProcState
      <3>2. QED BY <3>1 DEF BaseOf
    <2>2. CASE CleanupUnlist(p)
      <3>1. /\ proc'[p].pc = "clean1" /\ proc'[p].doom = i
        BY <1>0, <1>1, <2>2 DEF CleanupUnlist, ProcState
      <3>2. QED BY <3>1 DEF BaseOf
    <2>3. QED BY <2>1, <2>2
  <1>4. \A j \in 1..generation :
           \/ j \in listed /\ (j \in listed' \/ BaseOf(proc'[p], j))
           \/ /\ j \in listed' <=> j \in listed
              /\ BaseOf(proc'[p], j) <=> BaseOf(proc[p], j)
    <2> SUFFICES ASSUME NEW j \in 1..generation
                 PROVE  \/ /\ j \in listed
                           /\ j \in listed' \/ BaseOf(proc'[p], j)
                        \/ /\ j \in listed' <=> j \in listed
                           /\ BaseOf(proc'[p], j) <=> BaseOf(proc[p], j)
      OBVIOUS
    <2>1. j # 0
      BY Created
    <2>2. CASE j = i
      BY <1>1, <1>3, <2>1, <2>2
    <2>3. CASE j # i
      <3>1. ~BaseOf(proc'[p], j) /\ ~BaseOf(proc[p], j)
        BY <1>1, <1>3, <2>1, <2>3 DEF BaseOf
      <3>2. QED BY <1>1, <2>3, <3>1
    <2>4. QED BY <2>2, <2>3
  <1>5. QED BY <1>2, <1>4, RefBaseMoves

(* The owner of i drops the base reference, and its own if it has one.     *)
LEMMA RefBaseGone ==
  ASSUME CoreInv, NEW p \in Procs, OthersStay(p), NEW i \in TransIds,
         NEW a \in {0, i}, Points4(proc[p], a, 0, 0, 0), NoPointers(proc'[p]),
         \A j : j # 0 => (BaseOf(proc[p], j) <=> j = i),
         listed' = listed \ {i},
         IF a = i THEN tx' = [tx EXCEPT ![i].use = @ - 2] ELSE tx' = Put(i)
  PROVE  RefFrame(p)
  <1> SUFFICES ASSUME NEW j \in 1..generation
               PROVE  tx'[j].use + Refs(proc[p], j) + One(HasBaseReference(j))
                         = tx[j].use + Refs(proc'[p], j)
                           + One(HasBaseReference(j)')
    BY DEF RefFrame
  <1> DEFINE h  == One(HasBaseReference(j))
             h1 == One(HasBaseReference(j)')
  <1>0. i # 0 /\ j # 0
    BY Created DEF TransIds
  <1>1. ~BaseOf(proc'[p], j)
    BY <1>0 DEF NoPointers, BaseOf, Points4
  <1>2. h = h1 + One(i = j)
    <2>1. CASE j = i
      <3>1. HasBaseReference(j) /\ ~HasBaseReference(j)'
        BY <1>0, <1>1, <2>1, BaseGone
      <3>2. h = 1 /\ h1 = 0
        BY <3>1 DEF One
      <3>3. QED BY <2>1, <3>2 DEF One
    <2>2. CASE j # i
      <3>1. HasBaseReference(j)' <=> HasBaseReference(j)
        BY <1>0, <1>1, <2>2, BaseMove
      <3>2. h1 = h
        BY <3>1 DEF One
      <3>3. One(i = j) = 0 /\ h \in Int
        BY <2>2, OneType DEF One
      <3> HIDE DEF h, h1
      <3>4. QED BY <3>2, <3>3
    <2>3. QED BY <2>1, <2>2
  <1>3. h1 \in Int
    BY OneType
  <1>4. /\ tx[j].use \in Int
        /\ tx'[j].use = tx[j].use - (One(a = j) + One(i = j))
    <2>1. CASE a = i
      BY <2>1, UseMoved
    <2>2. CASE a # i
      <3>1. tx'[j].use = tx[j].use - One(i = j) /\ tx[j].use \in Int
        BY <2>2, UseMoved
      <3>2. a = 0
        BY <2>2
      <3>3. QED BY <1>0, <3>1, <3>2 DEF One
    <2>3. QED BY <2>1, <2>2
  <1>5. Refs(proc[p], j) = One(a = j) /\ Refs(proc'[p], j) = 0
    BY <1>0 DEF Refs, Points4, NoPointers, One
  <1>6. tx'[j].use + Refs(proc[p], j) + h = tx[j].use + Refs(proc'[p], j) + h1
    <2> HIDE DEF h, h1
    <2> QED BY <1>2, <1>3, <1>4, <1>5 DEF One
  <1>7. QED BY <1>6

LEMMA GoneRefs ==
  ASSUME BaseInv, NEW p \in Procs, OthersStay(p),
         CommitPut(p) \/ CleanupDone(p)
  PROVE  RefFrame(p)
  <1> USE DEF BaseInv
  <1>0. proc \in [Procs -> ProcState] /\ proc[p] \in ProcState
    BY RefFacts
  <1>1. CASE CommitPut(p)
    <2> DEFINE i == proc[p].tx
    <2>1. Role(proc[p]) = "gone" /\ proc[p].pc = "putbase"
      BY <1>1, RolePoints DEF CommitPut, At
    <2>2. i \in TransIds /\ i \notin listed
      BY <2>1, CommitterFacts DEF CommitPoints, OwnedPlace
    <2>3. proc[p].doom = 0 /\ Points4(proc[p], i, 0, 0, 0)
      BY <2>1, TaskFacts, RefFacts
         DEF Shape, WalkPoints, Points4, RefShape, WaitPoints
    <2>4. /\ NoPointers(proc'[p]) /\ listed' = listed \ {i}
          /\ tx' = [tx EXCEPT ![i].use = @ - 2]
      BY <1>0, <1>1, <2>2, <2>3
         DEF CommitPut, NoPointers, Points4, ProcState, list
    <2>5. \A j : j # 0 => (BaseOf(proc[p], j) <=> j = i)
      BY <2>1, <2>3 DEF BaseOf
    <2> HIDE DEF i
    <2>6. QED BY <2>2, <2>3, <2>4, <2>5, RefBaseGone
  <1>2. CASE CleanupDone(p)
    <2> DEFINE i == proc[p].doom
               a == proc[p].tx
    <2>1. /\ proc[p].pc = "cleandone" /\ listed' = listed \ {i}
          /\ IF a = i THEN tx' = [tx EXCEPT ![i].use = @ - 2]
                      ELSE tx' = Put(i)
      BY <1>2 DEF CleanupDone, At, Put
    <2>2. i \in TransIds /\ a \in {0, i}
      BY <2>1, WalkerFacts, TaskFacts DEF WalkPoints, Shape
    <2>3. Points4(proc[p], a, 0, 0, 0)
      BY <2>1, RefFacts DEF Points4, RefShape, WaitPoints
    <2>4. NoPointers(proc'[p])
      BY <1>2, EndsWithout DEF CleanupDone
    <2>5. \A j : j # 0 => (BaseOf(proc[p], j) <=> j = i)
      BY <2>1 DEF BaseOf
    <2> HIDE DEF i, a
    <2>6. QED BY <2>1, <2>2, <2>3, <2>4, <2>5, RefBaseGone
  <1>3. QED BY <1>1, <1>2

(* A new transaction has the reference of its first handle and the base. *)
LEMMA NewRefs ==
  ASSUME BaseInv, RefInv, NEW p \in Procs, OthersStay(p), NewTransaction(p),
         ~UNCHANGED list
  PROVE  RefInv'
  <1> USE DEF BaseInv
  <1>n. PICK new : new = generation + 1
    OBVIOUS
  <1>0. /\ proc \in [Procs -> ProcState] /\ proc[p] \in ProcState
        /\ tx \in [TransIds -> TxState] /\ generation \in Nat
    BY RefFacts, Created DEF CoreInv, TypeOK
  <1>1. /\ proc[p].pc = "alloc" /\ proc[p].doom = 0
        /\ Points4(proc[p], 0, 0, 0, 0)
    BY RefFacts
       DEF NewTransaction, At, Points4, RefShape, WaitPoints, OutPointers
  <1>2. /\ generation' = new /\ listed' = listed \cup {new}
        /\ generation < MaxTrans
        /\ tx' = [tx EXCEPT ![new] =
                        Tx(1, One(proc[p].type \in EXTWRITERS), 2)]
        /\ proc' = [proc EXCEPT ![p].pc = "joined", ![p].tx = new,
                                ![p].ext = proc[p].type \in EXTWRITERS,
                                ![p].cont = "none", ![p].goal = KeptGoal(p)]
    BY <1>n DEF NewTransaction, list
  <1>3. /\ Points4(proc'[p], new, 0, 0, 0) /\ proc'[p].doom = 0
        /\ proc'[p].pc = "joined"
    BY <1>0, <1>1, <1>2 DEF Points4, ProcState
  <1>4. new \in TransIds
    BY <1>n, <1>0, <1>2, ConstantsAssumption DEF TransIds
  <1>5. ASSUME NEW i \in 1..generation
        PROVE  tx'[i].use = TxCount(i)' + RefCount(i)' + WtxCount(i)'
                            + PinCount(i)' + One(HasBaseReference(i)')
    <2>1. i # 0 /\ i # new /\ i \in TransIds
      BY <1>n, <1>0, Created
    <2>2. tx'[i].use = tx[i].use
      BY <1>0, <1>2, <2>1
    <2>3. /\ TxCount(i)' = TxCount(i) /\ RefCount(i)' = RefCount(i)
          /\ WtxCount(i)' = WtxCount(i) /\ PinCount(i)' = PinCount(i)
      <3>1. \A q \in Procs : /\ proc'[q].tx = i <=> proc[q].tx = i
                             /\ proc'[q].ref = i <=> proc[q].ref = i
                             /\ proc'[q].wtx = i <=> proc[q].wtx = i
                             /\ proc'[q].pin = i <=> proc[q].pin = i
        BY <1>1, <1>3, <2>1 DEF Points4, OthersStay
      <3>2. /\ {q \in Procs : proc'[q].tx = i} = {q \in Procs : proc[q].tx = i}
            /\ {q \in Procs : proc'[q].ref = i}
                  = {q \in Procs : proc[q].ref = i}
            /\ {q \in Procs : proc'[q].wtx = i}
                  = {q \in Procs : proc[q].wtx = i}
            /\ {q \in Procs : proc'[q].pin = i}
                  = {q \in Procs : proc[q].pin = i}
        BY <3>1
      <3>3. QED BY <3>2 DEF TxCount, RefCount, WtxCount, PinCount
    <2>4. One(HasBaseReference(i)') = One(HasBaseReference(i))
      <3>1. HasBaseReference(i)' <=> HasBaseReference(i)
        BY <1>1, <1>2, <1>3, <2>1, BaseMove DEF BaseOf
      <3>2. QED BY <3>1 DEF One
    <2>5. tx[i].use = TxCount(i) + RefCount(i) + WtxCount(i) + PinCount(i)
                      + One(HasBaseReference(i))
      BY DEF RefInv, Pinning, TxCount, RefCount, WtxCount, PinCount
    <2>6. QED BY <2>2, <2>3, <2>4, <2>5
  <1>6. tx'[new].use = TxCount(new)' + RefCount(new)' + WtxCount(new)'
                       + PinCount(new)' + One(HasBaseReference(new)')
    <2>1. tx'[new].use = 2
      BY <1>0, <1>2, <1>4 DEF Tx
    <2>2. \A q \in Procs : /\ proc[q].tx # new /\ proc[q].ref # new
                           /\ proc[q].wtx # new /\ proc[q].pin # new
      BY <1>n, <1>0, PointerFacts DEF RefBounded, ProcState
    <2>3. /\ {q \in Procs : proc'[q].tx = new} = {p}
          /\ {q \in Procs : proc'[q].ref = new} = {}
          /\ {q \in Procs : proc'[q].wtx = new} = {}
          /\ {q \in Procs : proc'[q].pin = new} = {}
      <3>1. new # 0
        BY <1>n, <1>0
      <3>2. \A q \in Procs : /\ proc'[q].tx = new <=> q = p
                             /\ proc'[q].ref # new /\ proc'[q].wtx # new
                             /\ proc'[q].pin # new
        BY <1>3, <2>2, <3>1 DEF Points4, OthersStay
      <3>3. QED BY <3>2
    <2>4. HasBaseReference(new)'
      BY <1>2 DEF HasBaseReference
    <2>5. Cardinality({p}) = 1 /\ Cardinality({}) = 0
      BY FS_EmptySet, FS_Singleton
    <2>6. /\ TxCount(new)' = 1 /\ RefCount(new)' = 0
          /\ WtxCount(new)' = 0 /\ PinCount(new)' = 0
      BY <2>3, <2>5 DEF TxCount, RefCount, WtxCount, PinCount
    <2>7. One(HasBaseReference(new)') = 1
      BY <2>4 DEF One
    <2>8. QED BY <2>1, <2>6, <2>7
  <1>7. \A i \in 1..generation' : i \in 1..generation \/ i = new
    BY <1>n, <1>0, <1>2
  <1>8. QED
    BY <1>5, <1>6, <1>7
       DEF RefInv, Pinning, TxCount, RefCount, WtxCount, PinCount

(* Only a new transaction moves the generation. *)
LEMMA GenerationKept ==
  ASSUME CoreInv, PointerInv, NEW p \in Procs, Step(p), ~NewTransaction(p)
  PROVE  generation' = generation
  <1>1. CASE Calm(p)
    BY <1>1 DEF Calm, CalmShared, list
  <1>2. CASE \/ FindCommit(p) \/ EndPut(p) \/ CommitReached(p)
             \/ WaitForEarlier(p) \/ Waited(p) \/ CommitPrep(p)
             \/ PrevCommitted(p) \/ DropExtwriter(p)
    BY <1>2
       DEF list, FindCommit, EndPut, CommitReached, WaitForEarlier, Waited,
           CommitPrep, PrevCommitted, DropExtwriter
  <1>3. CASE \/ NoExtwriters(p) \/ NoPendingOrdered(p) \/ NoOtherWriters(p)
             \/ CommitDoing(p) \/ CommitUnblock(p) \/ WriteBlocks(p)
             \/ WriteSuper(p) \/ CommitFinish(p) \/ CommitUnlist(p)
             \/ CommitPut(p)
    BY <1>3
       DEF list, shared, NoExtwriters, NoPendingOrdered, NoOtherWriters,
           CommitDoing, CommitUnblock, WriteBlocks, WriteSuper, CommitFinish,
           CommitUnlist, CommitPut
  <1>4. CASE \/ CleanupLock(p) \/ CleanupWait(p) \/ CleanupUnlist(p)
             \/ CleanupOne(p) \/ CleanupDone(p) \/ KthreadScan(p)
             \/ KthreadDrain(p)
    BY <1>4
       DEF list, shared, CleanupLock, CleanupWait, CleanupUnlist, CleanupOne,
           CleanupState, CleanupDone, KthreadScan, KthreadDrain
  <1>5. CASE \/ SyncLogLock(p) \/ SyncLogSuper(p) \/ ChargeOrdered(p)
             \/ AbortTransaction(p) \/ HandleFsError(p)
    BY <1>5
       DEF list, SyncLogLock, SyncLogSuper, ChargeOrdered, AbortTransaction,
           HandleFsError
  <1>6. QED BY <1>1, <1>2, <1>3, <1>4, <1>5, StepCases DEF Special

LEMMA RefStep ==
  ASSUME BaseInv, BaseInv', RefInv, NEW p \in Procs, Step(p)
  PROVE  RefInv'
  <1>1. OthersStay(p)
    BY StepIsRegular DEF BaseInv, Regular
  <1>2. tx' \in [TransIds -> TxState]
    BY DEF BaseInv, CoreInv, TypeOK
  <1>3. CASE NewTransaction(p) /\ ~UNCHANGED list
    BY <1>1, <1>3, NewRefs
  <1>4. CASE ~(NewTransaction(p) /\ ~UNCHANGED list)
    <2>1. RefFrame(p)
      <3>1. KeepsRefs(p) => RefFrame(p)
        BY <1>1, RefSame DEF BaseInv
      <3>2. CASE Requests(p) \/ LogLocks(p)
        BY <3>1, <3>2, PlainRefs DEF Requests, LogLocks
      <3>3. CASE Release(p)
        BY <1>1, <3>1, <3>3, PlainRefs, HandleRefs DEF Release
      <3>4. CASE Proceed(p)
        BY <1>1, <1>4, <3>1, <3>4, PlainRefs, HandleRefs, StartRefs, WaitRefs,
           WaitedRefs, PrepRefs, ScanRefs, UnlistRefs, GoneRefs
           DEF Proceed
      <3>5. QED BY <3>2, <3>3, <3>4 DEF Step
    <2>2. generation' = generation
      <3>1. CASE NewTransaction(p)
        BY <1>4, <3>1 DEF list
      <3>2. CASE ~NewTransaction(p)
        BY <3>2, GenerationKept DEF BaseInv
      <3>3. QED BY <3>1, <3>2
    <2>3. QED BY <1>1, <1>2, <2>1, <2>2, RefKept
  <1>5. QED BY <1>3, <1>4

(* A step without a task. *)
LEMMA IdleRefs ==
  ASSUME BaseInv, RefInv, OrderedComplete \/ UNCHANGED vars
  PROVE  RefInv'
  <1>1. UNCHANGED <<proc, list>>
    BY IdleFacts DEF BaseInv
  <1>2. \A i \in 1..generation : tx'[i].use = tx[i].use
    <2> SUFFICES ASSUME NEW i \in 1..generation
                 PROVE  tx'[i].use = tx[i].use
      OBVIOUS
    <2>1. i \in TransIds /\ tx \in [TransIds -> TxState]
      BY Created DEF BaseInv, CoreInv, TypeOK
    <2>2. UNCHANGED tx \/ tx' = [tx EXCEPT ![running].pending = @ - 1]
      BY DEF OrderedComplete, vars, shared
    <2>3. QED BY <2>1, <2>2 DEF TxState
  <1>3. \A i : HasBaseReference(i)' <=> HasBaseReference(i)
    BY <1>1 DEF HasBaseReference, At, list
  <1>4. \A i : One(HasBaseReference(i)') = One(HasBaseReference(i))
    BY <1>3 DEF One
  <1>5. QED
    BY <1>1, <1>2, <1>4 DEF RefInv, Pinning, list

LEMMA RefInit ==
  ASSUME Init
  PROVE  RefInv
  BY DEF Init, RefInv

(* running_transaction is listed, or it is being torn down. *)
LEMMA RunningHasBase ==
  ASSUME CoreInv, running # 0
  PROVE  HasBaseReference(running)
  <1>1. CASE running \in listed
    BY <1>1 DEF HasBaseReference
  <1>2. ASSUME NEW p \in Procs, RoleOf(p) = "walk", TargetOf(p) = running
        PROVE  HasBaseReference(running)
    <2>1. proc[p].pc \in WalkPoints
      BY <1>2, RolePoints DEF RoleOf
    <2>2. proc[p].doom = running
      BY <1>2, <2>1, WalkerFacts DEF TargetOf
    <2>3. QED BY <2>2 DEF HasBaseReference
  <1>3. QED BY <1>1, <1>2 DEF CoreInv, RoleInv, RunningIsListed

(* use_count is exactly the number of pointers to the transaction: whoever *)
(* joins, waits for, commits or tears down a transaction takes and drops   *)
(* the references it should, and running_transaction is never freed.  The  *)
(* argument: no two tasks own a transaction, so that the reference of      *)
(* trans_list is dropped once.                                             *)
THEOREM RefcountCorrect == Spec => []RefcountExact
  <1>1. Init => BaseInv /\ RefInv
    BY BaseInit, RefInit
  <1>2. BaseInv /\ RefInv /\ [Next]_vars => (BaseInv /\ RefInv)'
    <2> SUFFICES ASSUME BaseInv, RefInv, [Next]_vars
                 PROVE  BaseInv' /\ RefInv'
      OBVIOUS
    <2>1. BaseInv'
      BY BaseStep
    <2>2. QED BY <2>1, RefStep, IdleRefs DEF Next
  <1>3. BaseInv /\ RefInv => RefcountExact
    BY RunningHasBase DEF BaseInv, RefInv, RefcountExact
  <1>4. QED BY <1>1, <1>2, <1>3, PTL DEF Spec
=============================================================================
