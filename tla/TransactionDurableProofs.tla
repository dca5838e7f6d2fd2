---------------------- MODULE TransactionDurableProofs ----------------------
(***************************************************************************)
(* What reaches the device: the super block points only to what was        *)
(* written, a log tree is of the transaction after it, a commit that       *)
(* returns is durable, the transactions refine CommitOrder, and without a  *)
(* fault the attach barrier finds on the device what it is about.          *)
(***************************************************************************)
EXTENDS TransactionOrderProofs

-----------------------------------------------------------------------------
(***************************************************************************)
(* The super block                                                         *)
(***************************************************************************)
SuperPoints == {"unblock", "write", "super"}
LockPoints  == {"write", "super", "logsuper"}
DonePoints  == {"finish", "unlist", "putbase"}

LEMMA DiskFacts ==
  ASSUME BaseInv
  PROVE  /\ generation \in Nat /\ running \in {0, generation}
         /\ superForCommit \in Super /\ disk \in Super
         /\ disk.gen \in Nat /\ superForCommit.gen \in Nat
         /\ \A q \in Procs : /\ q # None /\ proc[q].tx \in 0..generation
  <1>1. /\ generation \in Nat /\ running \in {0, generation}
        /\ superForCommit \in Super /\ disk \in Super
    BY DEF BaseInv, CoreInv, TypeOK, RoleInv, Bounded
  <1>2. \A q \in Procs : q # None
    BY ConstantsAssumption DEF Procs
  <1>3. \A q \in Procs : proc[q].tx \in 0..generation
    BY <1>1, PointerFacts DEF BaseInv
  <1>4. QED BY <1>1, <1>2, <1>3 DEF Super

(* tree_log_mutex is taken, released or left alone. *)
MutexMove(p) ==
  \/ treeLogMutex' = treeLogMutex
  \/ treeLogMutex = p /\ treeLogMutex' = None
  \/ treeLogMutex = None /\ treeLogMutex' = p

LEMMA MutexKept ==
  ASSUME BaseInv, SuperIsLocked, NEW p \in Procs, OthersStay(p), MutexMove(p),
         proc'[p].pc \in LockPoints => treeLogMutex' = p
  PROVE  SuperIsLocked'
  <1>1. ASSUME NEW q \in Procs, q # p, proc[q].pc \in LockPoints
        PROVE  treeLogMutex' = q
    BY <1>1, DiskFacts DEF SuperIsLocked, MutexMove, LockPoints
  <1>2. QED BY <1>1 DEF SuperIsLocked, OthersStay, LockPoints

(* p has nothing to do with the super block in this step, or it failed. *)
OffDisk(p) ==
  /\ UNCHANGED <<generation, superForCommit, disk, written>>
  /\ MutexMove(p)
  /\ running' = running \/ (running' = 0 /\ fsError')
  /\ proc[p].pc \in SuperPoints => fsError'
  /\ proc'[p].pc \notin SuperPoints \cup {"logsuper"}
  /\ proc'[p].pc \in DonePoints =>
        proc[p].pc \in DonePoints /\ proc'[p].tx = proc[p].tx

LEMMA OffDiskKept ==
  ASSUME BaseInv, DiskInv, NEW p \in Procs, Regular(p), OffDisk(p)
  PROVE  DiskInv'
  <1>1. /\ OthersStay(p) /\ (fsError => fsError')
        /\ disk' = disk /\ superForCommit' = superForCommit
        /\ generation' = generation /\ written' = written
    BY DEF Regular, OffDisk
  <1>2. \A q \in Procs : q # p => proc'[q] = proc[q]
    BY <1>1 DEF OthersStay
  <1>3. SuperIsLocked'
    BY <1>1, MutexKept DEF OffDisk, DiskInv, SuperPoints, LockPoints
  <1>4. SuperIsPrepared'
    BY <1>1, <1>2 DEF SuperIsPrepared, DiskInv, OffDisk, SuperPoints, At,
                      SuperOf
  <1>5. DiskIsNext'
    <2>1. disk'.gen <= generation' /\ (running' # 0 => disk'.gen < running')
      BY <1>1 DEF DiskIsNext, DiskInv, OffDisk
    <2>2. ASSUME NEW q \in Procs
          PROVE  /\ proc'[q].pc = "write" => disk'.gen < proc'[q].tx
                 /\ proc'[q].pc = "logsuper" => proc'[q].tx = disk'.gen + 1
                 /\ proc'[q].pc = "super" => /\ disk'.gen = proc'[q].tx - 1
                                             /\ proc'[q].tx \in written'
                 /\ proc'[q].pc \in DonePoints => proc'[q].tx <= disk'.gen
      BY <1>1, <1>2
         DEF DiskIsNext, DiskInv, OffDisk, SuperPoints, DonePoints, At
    <2>3. QED BY <2>1, <2>2 DEF DiskIsNext, At, DonePoints
  <1>6. NothingForgotten'
    <2>1. CASE fsError'
      BY <2>1 DEF NothingForgotten
    <2>2. CASE ~fsError'
      <3>1. running' = running /\ ~fsError /\ proc[p].pc \notin SuperPoints
        BY <1>1, <2>2 DEF OffDisk
      <3>2. QED
        BY <1>1, <1>2, <3>1 DEF NothingForgotten, DiskInv, SuperPoints
    <2>3. QED BY <2>1, <2>2
  <1>7. BlocksBeforeSuper' /\ LogFollowsSuper'
    BY <1>1 DEF BlocksBeforeSuper, LogFollowsSuper, DiskInv
  <1>8. QED
    BY <1>3, <1>4, <1>5, <1>6, <1>7 DEF DiskInv

(* Nobody else holds the super block when p has the mutex or is free to    *)
(* take it.                                                                *)
LEMMA LockExcludes ==
  ASSUME BaseInv, SuperIsLocked, NEW p \in Procs, treeLogMutex \in {p, None}
  PROVE  \A q \in Procs \ {p} : proc[q].pc \notin LockPoints
  BY DiskFacts DEF SuperIsLocked, LockPoints

LEMMA DiskNew ==
  ASSUME BaseInv, DiskInv, NEW p \in Procs, NewTransaction(p), running = 0
  PROVE  DiskInv'
  <1> USE DEF BaseInv
  <1>1. /\ proc[p].pc = "alloc" /\ OthersStay(p) /\ UNCHANGED <<fsError, durable>>
        /\ Regular(p)
    BY TaskFacts, NewTransactionKind DEF NewTransaction, At, Regular
  <1>2. UNCHANGED <<superForCommit, disk, written, treeLogMutex>>
    BY <1>1 DEF durable
  <1>3. CASE Return(p) /\ UNCHANGED <<list, tx>>
    <2>1. proc'[p].pc \in {"idle", "waitcur"}
      BY <1>3, TaskFacts DEF Return, Returned, IdleProc, Fresh
    <2>2. OffDisk(p)
      BY <1>1, <1>2, <1>3, <2>1
         DEF OffDisk, MutexMove, SuperPoints, DonePoints, list
    <2>3. QED BY <1>1, <2>2, OffDiskKept
  <1>4. CASE ~(Return(p) /\ UNCHANGED <<list, tx>>)
    <2>1. /\ generation' = generation + 1 /\ running' = generation + 1
          /\ proc'[p].pc = "joined"
      BY <1>4, TaskFacts DEF NewTransaction, JoinRunning, ProcState
    <2>2. \A q \in Procs : q # p => proc'[q] = proc[q]
      BY <1>1 DEF OthersStay
    <2>3. SuperIsLocked'
      BY <1>1, <1>2, <2>1, MutexKept DEF MutexMove, DiskInv, LockPoints
    <2>4. SuperIsPrepared'
      BY <1>1, <1>2, <2>1, <2>2 DEF SuperIsPrepared, DiskInv, At, SuperOf
    <2>5. DiskIsNext'
      <3>1. disk.gen < generation + 1 /\ generation + 1 # 0
        BY DiskFacts DEF DiskInv, DiskIsNext
      <3>2. QED
        BY <1>2, <2>1, <2>2, <3>1, DiskFacts DEF DiskIsNext, DiskInv, At
    <2>6. NothingForgotten'
      <3>1. CASE fsError
        BY <1>1, <3>1 DEF NothingForgotten
      <3>2. CASE ~fsError
        <4>1. ASSUME NEW i \in 1..generation', i # running'
              PROVE  \/ i <= disk'.gen
                     \/ \E q \in Procs : /\ proc'[q].tx = i
                                         /\ proc'[q].pc \in {"write", "super"}
          <5>1. i \in 1..generation /\ i # running
            BY <2>1, <4>1, DiskFacts
          <5>2. \/ i <= disk.gen
                \/ \E q \in Procs : /\ proc[q].tx = i
                                    /\ proc[q].pc \in {"write", "super"}
            BY <3>2, <5>1 DEF DiskInv, NothingForgotten
          <5>3. QED BY <1>1, <1>2, <2>2, <5>2
        <4>2. QED BY <4>1 DEF NothingForgotten
      <3>3. QED BY <3>1, <3>2
    <2>7. BlocksBeforeSuper' /\ LogFollowsSuper'
      BY <1>2 DEF BlocksBeforeSuper, LogFollowsSuper, DiskInv
    <2>8. QED BY <2>3, <2>4, <2>5, <2>6, <2>7 DEF DiskInv
  <1>5. QED BY <1>3, <1>4

(* A handle is on the running transaction and excludes that it is sealed.  *)
LEMMA HandleExcludes ==
  ASSUME BaseInv, NEW p \in Procs, RoleOf(p) = "handle",
         NEW q \in Procs, proc[q].pc = "unblock"
  PROVE  FALSE
  <1>1. RoleOf(q) = "alone" /\ q # p
    BY RolePoints DEF RoleOf
  <1>2. TargetOf(q) = running
    BY <1>1
       DEF BaseInv, CoreInv, RoleInv, Owned, OwnedPlace, Owners, Committers
  <1>3. TargetOf(p) = running
    BY DEF BaseInv, CoreInv, RoleInv, HandlesAreRunning
  <1>4. RoleOf(p) = "put"
    BY <1>1, <1>2, <1>3, SealedAgainst DEF BaseInv, CoreInv, Sealers
  <1>5. QED BY <1>4

LEMMA DiskLogLock ==
  ASSUME BaseInv, DiskInv, NEW p \in Procs, SyncLogLock(p)
  PROVE  DiskInv'
  <1> USE DEF BaseInv
  <1>1. /\ proc[p].pc = "loglock" /\ OthersStay(p) /\ Regular(p)
        /\ treeLogMutex = None /\ treeLogMutex' = p
        /\ UNCHANGED <<list, tx, fsError, disk, written>>
    BY TaskFacts, SyncLogKind DEF SyncLogLock, At, Regular
  <1>2. CASE ~LogMayCommit
    <2>1. proc'[p].pc = "abort" /\ UNCHANGED superForCommit
      BY <1>2, TaskFacts DEF SyncLogLock, ProcState
    <2>2. OffDisk(p)
      BY <1>1, <2>1 DEF OffDisk, MutexMove, SuperPoints, DonePoints, list
    <2>3. QED BY <1>1, <2>2, OffDiskKept
  <1>3. CASE LogMayCommit
    <2>1. /\ proc'[p].pc = "logsuper" /\ proc'[p].tx = proc[p].tx /\ ~fsError
          /\ superForCommit' = [superForCommit EXCEPT !.log = proc[p].tx]
      BY <1>3, TaskFacts DEF SyncLogLock, Goto, ProcState, LogMayCommit
    <2>2. \A q \in Procs : q # p => proc'[q] = proc[q]
      BY <1>1 DEF OthersStay
    <2>3. /\ RoleOf(p) = "handle" /\ proc[p].tx = running /\ running # 0
          /\ running = generation
      <3>1. RoleOf(p) = "handle"
        BY <1>1, RolePoints DEF RoleOf, HandlePoints
      <3>2. TargetOf(p) = proc[p].tx /\ proc[p].tx # 0
        BY <3>1, TaskFacts, TargetOfRole DEF TargetOf, RoleOf, Holders
      <3>3. QED
        BY <3>1, <3>2, DiskFacts DEF CoreInv, RoleInv, HandlesAreRunning
    <2>4. \A q \in Procs :
             proc[q].pc \notin {"unblock", "write", "super", "logsuper"}
      <3>1. \A q \in Procs : proc[q].pc \notin LockPoints
        BY <1>1, LockExcludes DEF DiskInv, LockPoints
      <3>2. \A q \in Procs : proc[q].pc # "unblock"
        BY <2>3, HandleExcludes
      <3>3. QED BY <3>1, <3>2 DEF LockPoints
    <2>5. superForCommit.gen = disk.gen
      BY <2>1, <2>4 DEF DiskInv, SuperIsPrepared
    <2>6. proc[p].tx = disk.gen + 1
      <3>1. disk.gen < running /\ disk.gen \in Nat /\ generation \in Nat
        BY <2>3, DiskFacts DEF DiskInv, DiskIsNext
      <3>2. CASE disk.gen + 1 < running
        <4>1. disk.gen + 1 \in 1..generation
          BY <2>3, <3>1, <3>2
        <4>2. ~(disk.gen + 1 <= disk.gen) /\ disk.gen + 1 # running
          BY <3>1, <3>2, DiskFacts
        <4>3. QED
          BY <2>1, <2>4, <4>1, <4>2 DEF DiskInv, NothingForgotten
      <3>3. QED BY <2>3, <3>1, <3>2
    <2>7. superForCommit' = [gen |-> disk.gen, log |-> proc[p].tx]
      BY <2>1, <2>5, DiskFacts DEF Super
    <2>8. SuperIsLocked'
      BY <1>1, MutexKept DEF MutexMove, DiskInv
    <2>9. SuperIsPrepared'
      <3>1. superForCommit'.gen = disk'.gen /\ disk' = disk
        BY <1>1, <2>7
      <3>2. ASSUME NEW q \in Procs
            PROVE  /\ proc'[q].pc \notin {"unblock", "write", "super"}
                   /\ proc'[q].pc = "logsuper" => q = p
        BY <2>1, <2>2, <2>4
      <3>3. \A q \in Procs : proc'[q].pc = "logsuper" =>
               superForCommit' = [gen |-> disk'.gen, log |-> proc'[q].tx]
        BY <2>1, <2>7, <3>1, <3>2
      <3>4. QED BY <3>1, <3>2, <3>3 DEF SuperIsPrepared, At
    <2>10. DiskIsNext'
      BY <1>1, <2>1, <2>2, <2>6 DEF DiskIsNext, DiskInv, At, list
    <2>11. NothingForgotten'
      BY <1>1, <2>2, <1>1 DEF NothingForgotten, DiskInv, list
    <2>12. BlocksBeforeSuper' /\ LogFollowsSuper'
      BY <1>1 DEF BlocksBeforeSuper, LogFollowsSuper, DiskInv
    <2>13. QED
      BY <2>8, <2>9, <2>10, <2>11, <2>12 DEF DiskInv
  <1>4. QED BY <1>2, <1>3

LEMMA DiskLogSuper ==
  ASSUME BaseInv, DiskInv, NEW p \in Procs, SyncLogSuper(p)
  PROVE  DiskInv'
  <1> USE DEF BaseInv
  <1>1. /\ proc[p].pc = "logsuper" /\ OthersStay(p) /\ Regular(p)
        /\ proc'[p].pc \in {"held", "abort"} /\ (fsError => fsError')
        /\ treeLogMutex = p /\ treeLogMutex' = None
        /\ disk' \in {disk, superForCommit}
        /\ UNCHANGED <<list, tx, superForCommit, written>>
    BY TaskFacts, SyncLogKind
       DEF SyncLogSuper, At, Regular, Goto, ProcState, DiskInv, SuperIsLocked
  <1>2. superForCommit = [gen |-> disk.gen, log |-> proc[p].tx]
        /\ proc[p].tx = disk.gen + 1
    BY <1>1 DEF DiskInv, SuperIsPrepared, DiskIsNext, At
  <1>3. disk'.gen = disk.gen /\ disk'.log \in {disk.log, disk.gen + 1}
    BY <1>1, <1>2
  <1>4. /\ \A q \in Procs : q # p => proc'[q] = proc[q]
        /\ \A q \in Procs : q # p => proc[q].pc \notin LockPoints
    BY <1>1, LockExcludes DEF OthersStay, DiskInv
  <1>5. SuperIsLocked'
    BY <1>1, MutexKept DEF MutexMove, DiskInv, LockPoints
  <1>6. SuperIsPrepared'
    BY <1>1, <1>2, <1>3, <1>4 DEF SuperIsPrepared, DiskInv, At, LockPoints,
                                  SuperOf
  <1>7. DiskIsNext'
    BY <1>1, <1>3, <1>4 DEF DiskIsNext, DiskInv, At, LockPoints, list
  <1>8. NothingForgotten'
    BY <1>1, <1>3, <1>4 DEF NothingForgotten, DiskInv, list
  <1>9. BlocksBeforeSuper' /\ LogFollowsSuper'
    BY <1>1, <1>3 DEF BlocksBeforeSuper, LogFollowsSuper, DiskInv
  <1>10. QED BY <1>5, <1>6, <1>7, <1>8, <1>9 DEF DiskInv

(* Nobody holds the super block of another transaction while the trees of  *)
(* p's are switched.                                                       *)
LEMMA SwitchExcludes ==
  ASSUME BaseInv, NEW p \in Procs, proc[p].pc = "doing",
         NEW q \in Procs \ {p},
         proc[q].pc \in {"unblock", "write", "super", "logsuper"}
  PROVE  FALSE
  <1> USE DEF BaseInv
  <1> DEFINE i == proc[p].tx
             j == proc[q].tx
  <1>1. /\ RoleOf(p) = "alone" /\ TargetOf(p) = i /\ i = running
        /\ tx[i].state = COMMIT_DOING /\ i \in listed
    <2>1. Role(proc[p]) = "alone"
      BY RolePoints
    <2>2. QED
      BY <2>1, CommitterFacts
         DEF CommitPoints, RoleOf, TargetOf, OwnedState, OwnedPlace
  <1>2. CASE proc[q].pc = "logsuper"
    <2>1. RoleOf(q) = "handle"
      BY <1>2, RolePoints DEF RoleOf, HandlePoints
    <2>2. TargetOf(q) = running
      BY <2>1 DEF CoreInv, RoleInv, HandlesAreRunning
    <2>3. RoleOf(q) = "put"
      BY <1>1, <2>2, SealedAgainst DEF CoreInv, Sealers
    <2>4. QED BY <2>1, <2>3
  <1>3. CASE proc[q].pc = "unblock"
    <2>1. RoleOf(q) = "alone"
      BY <1>3, RolePoints DEF RoleOf
    <2>2. TargetOf(q) = running
      BY <2>1 DEF CoreInv, RoleInv, Owned, OwnedPlace, Owners, Committers
    <2>3. QED
      BY <1>1, <2>1, <2>2
         DEF CoreInv, RoleInv, OneOwner, Owners, Committers
  <1>4. CASE proc[q].pc \in {"write", "super"}
    <2>1. Role(proc[q]) = "writing"
      BY <1>4, RolePoints
    <2>2. /\ tx[j].state = UNBLOCKED /\ j # running /\ j \in listed
      BY <1>4, <2>1, CommitterFacts
         DEF CommitPoints, OwnedState, OwnedPlace
    <2>3. /\ i \in 1..generation /\ j \in 1..generation /\ i = generation
          /\ j < i
      BY <1>1, <2>2, DiskFacts, Created
    <2>4. Ready(i)
      BY <1>1, StateValues DEF Ready
    <2>5. tx[j].state >= SUPER_COMMITTED
      BY <2>2, <2>3, <2>4 DEF OrderInv, EarlierSettled
    <2>6. QED BY <2>2, <2>5, StateValues
  <1>5. QED BY <1>2, <1>3, <1>4

LEMMA DiskDoing ==
  ASSUME BaseInv, DiskInv, NEW p \in Procs, CommitDoing(p)
  PROVE  DiskInv'
  <1> USE DEF BaseInv
  <1>1. /\ proc[p].pc = "doing" /\ OthersStay(p) /\ Regular(p)
        /\ UNCHANGED <<list, tx, fsError, disk, written, treeLogMutex>>
    BY TaskFacts, CommitDoingKind DEF CommitDoing, At, Regular
  <1>2. CASE UNCHANGED superForCommit /\ Fail(p)
    <2>1. proc'[p].pc = "abort"
      BY <1>2, TaskFacts DEF Fail, ProcState
    <2>2. OffDisk(p)
      BY <1>1, <1>2, <2>1
         DEF OffDisk, MutexMove, SuperPoints, DonePoints, list
    <2>3. QED BY <1>1, <2>2, OffDiskKept
  <1>3. CASE superForCommit' = SuperOf(proc[p].tx) /\ Goto(p, "unblock")
    <2>1. proc'[p].pc = "unblock" /\ proc'[p].tx = proc[p].tx
      BY <1>3, TaskFacts DEF Goto, ProcState
    <2>2. \A q \in Procs : q # p => proc'[q] = proc[q]
      BY <1>1 DEF OthersStay
    <2>3. \A q \in Procs : q # p =>
             proc'[q].pc \notin {"unblock", "write", "super", "logsuper"}
      BY <1>1, <2>2, SwitchExcludes
    <2>4. SuperIsLocked'
      BY <1>1, <2>1, MutexKept DEF MutexMove, DiskInv, LockPoints
    <2>5. SuperIsPrepared'
      BY <1>3, <2>1, <2>3 DEF SuperIsPrepared, At, SuperOf
    <2>6. DiskIsNext'
      BY <1>1, <2>1, <2>2 DEF DiskIsNext, DiskInv, At, list
    <2>7. NothingForgotten'
      BY <1>1, <2>2 DEF NothingForgotten, DiskInv, list
    <2>8. BlocksBeforeSuper' /\ LogFollowsSuper'
      BY <1>1 DEF BlocksBeforeSuper, LogFollowsSuper, DiskInv
    <2>9. QED BY <2>4, <2>5, <2>6, <2>7, <2>8 DEF DiskInv
  <1>4. QED BY <1>2, <1>3 DEF CommitDoing

LEMMA DiskUnblock ==
  ASSUME BaseInv, DiskInv, NEW p \in Procs, CommitUnblock(p)
  PROVE  DiskInv'
  <1> USE DEF BaseInv
  <1>1. /\ proc[p].pc = "unblock" /\ OthersStay(p)
        /\ proc'[p].pc = "write" /\ proc'[p].tx = proc[p].tx
        /\ treeLogMutex = None /\ treeLogMutex' = p /\ running' = 0
        /\ UNCHANGED <<generation, fsError, superForCommit, disk, written>>
    BY TaskFacts, CommitUnblockKind
       DEF CommitUnblock, At, Regular, Goto, ProcState
  <1>2. proc[p].tx = running /\ running # 0
    <2>1. Role(proc[p]) = "alone"
      BY <1>1, RolePoints
    <2>2. QED
      BY <1>1, <2>1, CommitterFacts, ConstantsAssumption
         DEF CommitPoints, OwnedPlace, TransIds
  <1>3. /\ \A q \in Procs : q # p => proc'[q] = proc[q]
        /\ \A q \in Procs : proc[q].pc \notin LockPoints
    BY <1>1, LockExcludes DEF OthersStay, DiskInv, LockPoints
  <1>4. SuperIsLocked'
    BY <1>1, MutexKept DEF MutexMove, DiskInv
  <1>5. SuperIsPrepared'
    <2>1. \A q \in Procs : proc'[q].pc \in {"unblock", "write", "super"} =>
             superForCommit' = SuperOf(proc'[q].tx)
      BY <1>1, <1>3 DEF SuperIsPrepared, DiskInv, SuperOf
    <2>2. \A q \in Procs : proc'[q].pc # "logsuper"
      BY <1>1, <1>3 DEF LockPoints
    <2>3. QED
      BY <1>1, <2>1, <2>2 DEF SuperIsPrepared, At, SuperOf
  <1>6. DiskIsNext'
    <2>1. disk'.gen <= generation' /\ disk'.gen < proc'[p].tx
      BY <1>1, <1>2 DEF DiskIsNext, DiskInv
    <2>2. QED
      BY <1>1, <1>3, <2>1 DEF DiskIsNext, DiskInv, At, LockPoints
  <1>7. NothingForgotten'
    <2>1. CASE fsError
      BY <1>1, <2>1 DEF NothingForgotten
    <2>2. CASE ~fsError
      <3>1. ASSUME NEW i \in 1..generation, ~(i <= disk.gen)
            PROVE  i = proc'[p].tx
        BY <1>1, <1>2, <1>3, <2>2, <3>1
           DEF NothingForgotten, DiskInv, LockPoints
      <3>2. QED BY <1>1, <3>1 DEF NothingForgotten
    <2>3. QED BY <2>1, <2>2
  <1>8. BlocksBeforeSuper' /\ LogFollowsSuper'
    BY <1>1 DEF BlocksBeforeSuper, LogFollowsSuper, DiskInv
  <1>9. QED BY <1>4, <1>5, <1>6, <1>7, <1>8 DEF DiskInv

(* Without an error, the transaction whose blocks are written follows the  *)
(* super block on the device: no earlier one is on its way.                *)
LEMMA WrittenIsNext ==
  ASSUME BaseInv, DiskInv, NEW p \in Procs, proc[p].pc = "write", ~fsError
  PROVE  disk.gen = proc[p].tx - 1
  <1> DEFINE i == proc[p].tx
  <1>1. disk.gen < i /\ disk.gen \in Nat /\ i \in 0..generation
        /\ generation \in Nat
    BY DiskFacts DEF DiskInv, DiskIsNext, At
  <1>2. CASE disk.gen + 1 < i
    <2>1. /\ disk.gen + 1 \in 1..generation /\ ~(disk.gen + 1 <= disk.gen)
      BY <1>1, <1>2
    <2>2. disk.gen + 1 # running
      BY <1>1, <1>2, DiskFacts
    <2>3. PICK q \in Procs : /\ proc[q].tx = disk.gen + 1
                             /\ proc[q].pc \in {"write", "super"}
      BY <2>1, <2>2 DEF DiskInv, NothingForgotten
    <2>4. q = p
      BY <2>3 DEF DiskInv, SuperIsLocked
    <2>5. QED BY <1>1, <1>2, <2>3, <2>4
  <1>3. QED BY <1>1, <1>2

LEMMA DiskBlocks ==
  ASSUME BaseInv, DiskInv, NEW p \in Procs, WriteBlocks(p)
  PROVE  DiskInv'
  <1> USE DEF BaseInv
  <1>1. /\ proc[p].pc = "write" /\ OthersStay(p) /\ Regular(p)
        /\ treeLogMutex = p
        /\ UNCHANGED <<list, tx, superForCommit, disk>>
    BY TaskFacts, WriteBlocksKind
       DEF WriteBlocks, At, Regular, DiskInv, SuperIsLocked
  <1>2. CASE ~MetadataWritable \/ ~(proc'[p].pc = "super")
    <2>1. /\ fsError' = TRUE /\ treeLogMutex' = None /\ proc'[p].pc = "abort"
          /\ written' = written
      BY <1>2, TaskFacts DEF WriteBlocks, Goto, Fail, ProcState
    <2>2. OffDisk(p)
      BY <1>1, <2>1 DEF OffDisk, MutexMove, SuperPoints, DonePoints, list
    <2>3. QED BY <1>1, <2>2, OffDiskKept
  <1>3. CASE MetadataWritable /\ proc'[p].pc = "super"
    <2>1. /\ ~fsError /\ written' = written \cup {proc[p].tx}
          /\ fsError' = fsError /\ treeLogMutex' = treeLogMutex
          /\ proc'[p].tx = proc[p].tx
      BY <1>3, TaskFacts
         DEF WriteBlocks, Goto, Fail, ProcState, MetadataWritable
    <2>2. disk.gen = proc[p].tx - 1
      BY <1>1, <2>1, WrittenIsNext
    <2>3. \A q \in Procs : q # p => proc'[q] = proc[q]
      BY <1>1 DEF OthersStay
    <2>4. SuperIsLocked'
      BY <1>1, <2>1, MutexKept DEF MutexMove, DiskInv
    <2>5. SuperIsPrepared'
      BY <1>1, <1>3, <2>1, <2>3 DEF SuperIsPrepared, DiskInv, At, SuperOf
    <2>6. DiskIsNext'
      BY <1>1, <1>3, <2>1, <2>2, <2>3 DEF DiskIsNext, DiskInv, At, list
    <2>7. NothingForgotten'
      BY <1>1, <1>3, <2>1, <2>3 DEF NothingForgotten, DiskInv, list
    <2>8. BlocksBeforeSuper' /\ LogFollowsSuper'
      BY <1>1, <2>1 DEF BlocksBeforeSuper, LogFollowsSuper, DiskInv
    <2>9. QED BY <2>4, <2>5, <2>6, <2>7, <2>8 DEF DiskInv
  <1>4. QED BY <1>2, <1>3

LEMMA DiskSuper ==
  ASSUME BaseInv, DiskInv, NEW p \in Procs, WriteSuper(p)
  PROVE  DiskInv'
  <1> USE DEF BaseInv
  <1> DEFINE i == proc[p].tx
  <1>1. /\ proc[p].pc = "super" /\ OthersStay(p)
        /\ treeLogMutex = p /\ treeLogMutex' = None
        /\ disk' \in {disk, superForCommit}
        /\ UNCHANGED <<list, superForCommit, written>>
        /\ (fsError => fsError')
        /\ \/ fsError' = fsError /\ disk' = superForCommit
              /\ proc'[p].pc = "finish" /\ proc'[p].tx = i
           \/ fsError' = TRUE /\ proc'[p].pc = "abort"
    BY TaskFacts, WriteSuperKind
       DEF WriteSuper, At, Regular, Goto, Fail, ProcState, DiskInv,
           SuperIsLocked
  <1>2. superForCommit = [gen |-> i, log |-> 0] /\ disk.gen = i - 1
        /\ i \in written
    BY <1>1 DEF DiskInv, SuperIsPrepared, DiskIsNext, At, SuperOf
  <1>3. /\ i \in 1..generation /\ i # running /\ (running # 0 => i < running)
    <2>1. Role(proc[p]) = "writing"
      BY <1>1, RolePoints
    <2>2. i \in TransIds /\ i # running
      BY <1>1, <2>1, CommitterFacts DEF CommitPoints, OwnedPlace
    <2>3. i \in 0..generation /\ i # 0
      BY <2>2, DiskFacts, ConstantsAssumption DEF TransIds
    <2>4. QED BY <2>2, <2>3, DiskFacts
  <1>4. disk'.gen \in {i - 1, i} /\ disk.gen \in Nat /\ generation \in Nat
    BY <1>1, <1>2, DiskFacts
  <1>5. /\ \A q \in Procs : q # p => proc'[q] = proc[q]
        /\ \A q \in Procs : q # p => proc[q].pc \notin LockPoints
    BY <1>1, LockExcludes DEF OthersStay, DiskInv
  <1>6. SuperIsLocked'
    BY <1>1, MutexKept DEF MutexMove, DiskInv, LockPoints
  <1>7. SuperIsPrepared'
    <2>1. \A q \in Procs : proc'[q].pc \in {"unblock", "write", "super"} =>
             superForCommit' = SuperOf(proc'[q].tx)
      BY <1>1, <1>5 DEF SuperIsPrepared, DiskInv, SuperOf
    <2>2. \A q \in Procs : proc'[q].pc # "logsuper"
      BY <1>1, <1>5 DEF LockPoints
    <2>3. fsError' \/ superForCommit'.gen = disk'.gen
      BY <1>1
    <2>4. QED BY <2>1, <2>2, <2>3 DEF SuperIsPrepared, At, SuperOf
  <1>8. DiskIsNext'
    <2>1. disk'.gen <= generation' /\ (running' # 0 => disk'.gen < running')
      BY <1>1, <1>3, <1>4, DiskFacts DEF list
    <2>2. \A q \in Procs : proc'[q].pc \notin LockPoints
      BY <1>1, <1>5 DEF LockPoints
    <2>3. ASSUME NEW q \in Procs, proc'[q].pc \in {"finish", "unlist", "putbase"}
          PROVE  proc'[q].tx <= disk'.gen
      <3>1. CASE q = p
        BY <1>1, <1>2, <2>3, <3>1, <1>3
      <3>2. CASE q # p
        <4>1. proc[q].tx <= disk.gen /\ proc'[q] = proc[q]
          BY <1>5, <2>3, <3>2 DEF DiskInv, DiskIsNext
        <4>2. QED BY <1>2, <1>4, <4>1, <1>3, DiskFacts
      <3>3. QED BY <3>1, <3>2
    <2>4. QED BY <2>1, <2>2, <2>3 DEF DiskIsNext, At, LockPoints
  <1>9. NothingForgotten'
    <2>1. CASE fsError'
      BY <2>1 DEF NothingForgotten
    <2>2. CASE ~fsError'
      <3>1. disk'.gen = i /\ ~fsError
        BY <1>1, <1>2, <2>2
      <3>2. ASSUME NEW j \in 1..generation, j # running, j > i
            PROVE  \E q \in Procs : /\ proc'[q].tx = j
                                    /\ proc'[q].pc \in {"write", "super"}
        <4>1. ~(j <= disk.gen)
          BY <1>2, <1>3, <3>2
        <4>2. PICK q \in Procs : /\ proc[q].tx = j
                                 /\ proc[q].pc \in {"write", "super"}
          BY <3>1, <3>2, <4>1 DEF DiskInv, NothingForgotten
        <4>3. QED BY <1>3, <1>5, <3>2, <4>2
      <3>3. \A j \in 1..generation : j <= i \/ j > i
        BY <1>3
      <3>4. QED
        BY <1>1, <3>1, <3>2, <3>3 DEF NothingForgotten, list
    <2>3. QED BY <2>1, <2>2
  <1>10. BlocksBeforeSuper'
    <2>1. ASSUME NEW j \in 1..disk'.gen
          PROVE  j \in written
      <3>1. j \in 1..disk.gen \/ j = i
        BY <1>2, <1>3, <1>4, <2>1
      <3>2. QED BY <1>2, <3>1 DEF DiskInv, BlocksBeforeSuper
    <2>2. QED BY <1>1, <2>1 DEF BlocksBeforeSuper
  <1>11. LogFollowsSuper'
    <2>1. disk' = disk \/ disk'.log = 0
      BY <1>1, <1>2
    <2>2. QED BY <2>1 DEF LogFollowsSuper, DiskInv
  <1>12. QED
    BY <1>6, <1>7, <1>8, <1>9, <1>10, <1>11 DEF DiskInv

LEMMA CalmOffDisk ==
  ASSUME NEW p \in Procs, Calm(p)
  PROVE  OffDisk(p)
  BY DEF Calm, CalmShared, CalmTask, CalmPoints, OffDisk, MutexMove, list,
         SuperPoints, DonePoints

LEMMA AsideOffDisk ==
  ASSUME NEW p \in Procs, UNCHANGED <<list, superForCommit, disk, written>>,
         UNCHANGED treeLogMutex, proc[p].pc \notin SuperPoints,
         proc'[p].pc \notin SuperPoints \cup {"logsuper"} \cup DonePoints
  PROVE  OffDisk(p)
  BY DEF OffDisk, MutexMove, list

LEMMA RestOffDisk ==
  ASSUME BaseInv, NEW p \in Procs, Special(p),
         ~(NewTransaction(p) /\ running = 0), ~SyncLogLock(p),
         ~SyncLogSuper(p),
         ~CommitDoing(p), ~CommitUnblock(p), ~WriteBlocks(p), ~WriteSuper(p)
  PROVE  OffDisk(p)
  <1> USE DEF BaseInv
  <1> DEFINE Points1 == Points \ (SuperPoints \cup {"logsuper"} \cup DonePoints)
  <1>0. ASSUME UNCHANGED <<list, durable>>, proc[p].pc \notin SuperPoints,
               proc'[p].pc \in Points1
        PROVE  OffDisk(p)
    BY <1>0, AsideOffDisk DEF durable
  <1>1. CASE FindCommit(p) /\ proc'[p].pc = "wait"
    BY <1>0, <1>1 DEF FindCommit, At, SuperPoints, DonePoints, Points
  <1>2. CASE EndPut(p) /\ proc[p].cont = "waiter"
    <2>1. proc'[p].pc = "wait"
      BY <1>2, TaskFacts DEF EndPut, ProcState
    <2>2. QED
      BY <1>0, <1>2, <2>1 DEF EndPut, At, SuperPoints, DonePoints, Points
  <1>3. CASE CommitReached(p) \/ WaitForEarlier(p)
    <2>1. proc'[p].pc \in WaitPoints /\ proc[p].pc \in WaitPoints
      BY <1>3, TaskFacts
         DEF CommitReached, WaitForEarlier, Goto, ProcState, At, WaitPoints
    <2>2. UNCHANGED <<list, durable>>
      BY <1>3 DEF CommitReached, WaitForEarlier
    <2>3. QED
      BY <1>0, <2>1, <2>2 DEF WaitPoints, SuperPoints, DonePoints, Points
  <1>4. CASE Waited(p) /\ proc'[p].pc \in {"abort", "prevdone", "committed"}
    BY <1>0, <1>4 DEF Waited, At, SuperPoints, DonePoints, Points
  <1>5. CASE CommitPrep(p)
    <2>1. proc'[p].pc \in {"endw", "wait", "abort", "dropext"}
      BY <1>5, CommitPrepCases
    <2>2. UNCHANGED <<list, durable>> /\ proc[p].pc = "prep"
      BY <1>5 DEF CommitPrep, At
    <2>3. QED
      BY <1>0, <2>1, <2>2 DEF SuperPoints, DonePoints, Points
  <1>6. CASE PrevCommitted(p) \/ NoPendingOrdered(p)
    BY <1>0, <1>6, TaskFacts
       DEF PrevCommitted, NoPendingOrdered, Goto, ProcState, At, SuperPoints,
           DonePoints, Points
  <1>7. CASE DropExtwriter(p)
    BY <1>0, <1>7, TaskFacts
       DEF DropExtwriter, ProcState, At, SuperPoints, DonePoints, Points
  <1>8. CASE NoExtwriters(p) \/ NoOtherWriters(p)
    <2>1. proc'[p].pc \in {"ordwait", "abort", "doing"}
      BY <1>8, TaskFacts
         DEF NoExtwriters, NoOtherWriters, GotoOrFail, Goto, Fail, ProcState
    <2>2. UNCHANGED <<list, durable>> /\ proc[p].pc \in {"extwait", "wrwait"}
      BY <1>8 DEF NoExtwriters, NoOtherWriters, At, shared
    <2>3. QED
      BY <1>0, <2>1, <2>2 DEF SuperPoints, DonePoints, Points
  <1>9. CASE CommitFinish(p)
    BY <1>9, TaskFacts
       DEF CommitFinish, Goto, ProcState, At, OffDisk, MutexMove, list,
           SuperPoints, DonePoints
  <1>10. CASE CommitUnlist(p)
    BY <1>10, TaskFacts
       DEF CommitUnlist, Goto, ProcState, At, OffDisk, MutexMove, durable,
           SuperPoints, DonePoints
  <1>11. CASE CommitPut(p)
    BY <1>0, <1>11, TaskFacts
       DEF CommitPut, ProcState, At, SuperPoints, DonePoints, Points
  <1>12. CASE CleanupLock(p)
    <2>1. proc'[p].pc \in {"cleanwait", "cleandel"}
      BY <1>12, TaskFacts DEF CleanupLock, Goto, ProcState
    <2>2. QED
      BY <1>0, <1>12, <2>1 DEF CleanupLock, At, SuperPoints, DonePoints, Points
  <1>13. CASE CleanupWait(p) \/ KthreadDrain(p)
    BY <1>0, <1>13, TaskFacts
       DEF CleanupWait, KthreadDrain, Goto, ProcState, At, shared, SuperPoints,
           DonePoints, Points
  <1>14. CASE CleanupUnlist(p)
    BY <1>14, TaskFacts
       DEF CleanupUnlist, ProcState, At, OffDisk, MutexMove, durable,
           SuperPoints, DonePoints
  <1>15. CASE CleanupOne(p)
    <2>1. /\ UNCHANGED <<list, durable>> /\ proc[p].pc \in WalkPoints
          /\ proc'[p].pc \in WalkPoints
      BY <1>15, TaskFacts
         DEF CleanupOne, CleanupState, Goto, ProcState, At, WalkPoints
    <2>2. QED
      BY <1>0, <2>1 DEF WalkPoints, SuperPoints, DonePoints, Points
  <1>16. CASE CleanupDone(p)
    <2>1. proc[p].pc = "cleandone" /\ fsError /\ UNCHANGED <<fsError, durable>>
          /\ generation' = generation /\ running' \in {running, 0}
      BY <1>16, TaskFacts DEF CleanupDone, At, AfterError, WalkPoints
    <2>2. proc'[p].pc \in {"idle", "waitcur", "scan"}
      <3>1. CASE Return(p)
        BY <3>1, TaskFacts DEF Return, Returned, IdleProc, Fresh
      <3>2. CASE proc' = [proc EXCEPT ![p] = Fresh("scan", "none", 0)]
        BY <3>2, TaskFacts DEF Fresh
      <3>3. QED BY <1>16, <3>1, <3>2 DEF CleanupDone
    <2>3. QED
      BY <2>1, <2>2 DEF OffDisk, MutexMove, durable, SuperPoints, DonePoints
  <1>17. CASE KthreadScan(p) /\ proc'[p].pc \in {"drain", "clean1"}
    BY <1>0, <1>17 DEF KthreadScan, At, SuperPoints, DonePoints, Points
  <1>18. CASE ChargeOrdered(p)
    BY <1>18, AsideOffDisk
       DEF ChargeOrdered, At, SuperPoints, DonePoints
  <1>19. CASE AbortTransaction(p)
    BY <1>0, <1>19, TaskFacts
       DEF AbortTransaction, Goto, ProcState, At, SuperPoints, DonePoints,
           Points
  <1>20. CASE HandleFsError(p)
    <2>1. proc'[p].pc \in {"cleanlock", "endw", "held"}
      BY <1>20, TaskFacts DEF HandleFsError, Goto, ProcState
    <2>2. QED
      BY <1>20, <2>1
         DEF HandleFsError, At, OffDisk, MutexMove, list, SuperPoints,
             DonePoints
  <1>21. QED
    BY <1>1, <1>2, <1>3, <1>4, <1>5, <1>6, <1>7, <1>8, <1>9, <1>10, <1>11,
       <1>12, <1>13, <1>14, <1>15, <1>16, <1>17, <1>18, <1>19, <1>20
       DEF Special

LEMMA DiskStep ==
  ASSUME BaseInv, DiskInv, NEW p \in Procs, Step(p)
  PROVE  DiskInv'
  <1>1. Regular(p) /\ (Calm(p) \/ Special(p))
    BY StepIsRegular, StepCases DEF BaseInv
  <1>2. CASE OffDisk(p)
    BY <1>1, <1>2, OffDiskKept
  <1>3. CASE \/ SyncLogLock(p) \/ SyncLogSuper(p) \/ CommitDoing(p)
             \/ CommitUnblock(p) \/ WriteBlocks(p) \/ WriteSuper(p)
    BY <1>3, DiskLogLock, DiskLogSuper, DiskDoing, DiskUnblock, DiskBlocks,
       DiskSuper
  <1>4. CASE NewTransaction(p) /\ running = 0
    BY <1>4, DiskNew
  <1>5. QED
    BY <1>1, <1>2, <1>3, <1>4, CalmOffDisk, RestOffDisk

LEMMA DiskNext ==
  ASSUME BaseInv, DiskInv, [Next]_vars
  PROVE  DiskInv'
  <1>1. ASSUME NEW p \in Procs, Step(p)
        PROVE  DiskInv'
    BY <1>1, DiskStep
  <1>2. CASE OrderedComplete \/ UNCHANGED vars
    <2>1. /\ UNCHANGED <<proc, fsError, superForCommit, disk, written,
                         treeLogMutex>>
          /\ running' = running /\ generation' = generation
      BY <1>2, IdleFacts DEF BaseInv, list
    <2>2. SuperIsLocked' /\ SuperIsPrepared' /\ DiskIsNext'
      BY <2>1
         DEF DiskInv, SuperIsLocked, SuperIsPrepared, DiskIsNext, At, SuperOf
    <2>3. NothingForgotten' /\ BlocksBeforeSuper' /\ LogFollowsSuper'
      BY <2>1 DEF DiskInv, NothingForgotten, BlocksBeforeSuper, LogFollowsSuper
    <2>4. QED BY <2>2, <2>3 DEF DiskInv
  <1>3. QED BY <1>1, <1>2 DEF Next

LEMMA DiskInit ==
  ASSUME Init
  PROVE  DiskInv
  <1>1. /\ generation = 0 /\ disk = [gen |-> 0, log |-> 0]
        /\ superForCommit = [gen |-> 0, log |-> 0] /\ running = 0
        /\ \A p \in Procs : proc[p].pc = "idle"
    BY DEF Init, IdleProc, Fresh
  <1>2. SuperIsLocked /\ SuperIsPrepared /\ DiskIsNext
    BY <1>1 DEF SuperIsLocked, SuperIsPrepared, DiskIsNext, At
  <1>3. NothingForgotten /\ BlocksBeforeSuper /\ LogFollowsSuper
    BY <1>1 DEF NothingForgotten, BlocksBeforeSuper, LogFollowsSuper
  <1>4. QED BY <1>2, <1>3 DEF DiskInv

(* The mutex protocol of the super block (tree_log_mutex), what is in      *)
(* super_for_commit while somebody is about to write it, and that every    *)
(* transaction is open, on the device, on its way or lost to an error.     *)
THEOREM DiskInvariant == Spec => [](BaseInv /\ DiskInv)
  <1>1. Init => BaseInv /\ DiskInv
    BY BaseInit, DiskInit
  <1>2. BaseInv /\ DiskInv /\ [Next]_vars => (BaseInv /\ DiskInv)'
    BY BaseStep, DiskNext
  <1>3. QED BY <1>1, <1>2, PTL DEF Spec

(* The super block on the device never points to a block that is not       *)
(* there, whoever wrote it, write_all_supers in a commit or in             *)
(* btrfs_sync_log, and whatever failed before.                             *)
THEOREM SuperAfterBlocks == Spec => []BlocksBeforeSuper
  <1>1. DiskInv => BlocksBeforeSuper
    BY DEF DiskInv
  <1>2. QED BY <1>1, DiskInvariant, PTL

(* A tree log that a crash would replay belongs to the transaction after   *)
(* the generation of the super block (btrfs_sync_log under the             *)
(* tree_log_mutex, and the log root cleared by the next commit).           *)
THEOREM LogIsNext == Spec => []LogFollowsSuper
  <1>1. DiskInv => LogFollowsSuper
    BY DEF DiskInv
  <1>2. QED BY <1>1, DiskInvariant, PTL

-----------------------------------------------------------------------------
(***************************************************************************)
(* Those who wait for a commit                                             *)
(***************************************************************************)
(* A transaction whose commit began does not start over, and a teardown    *)
(* by the kthread starts with one whose commit did not begin.              *)
LEMMA StartedStays ==
  ASSUME BaseInv, NEW p \in Procs, Regular(p)
  PROVE  /\ \A i \in 1..generation :
               tx[i].state >= COMMIT_PREP => tx'[i].state >= COMMIT_PREP
         /\ NewRole(p) \in Reapers =>
               \/ RoleOf(p) \in Reapers /\ TargetOf(p) = NewTarget(p)
               \/ tx[NewTarget(p)].state < COMMIT_PREP
  <1>1. Kind(p) /\ \A i \in 1..generation : i \in TransIds /\ i # generation + 1
    BY Created DEF Regular, BaseInv
  <1>2. CASE Stays(p)
    BY <1>1, <1>2 DEF Stays, SameStates
  <1>3. CASE Joins(p) \/ Leaves(p) \/ Drops(p)
    BY <1>1, <1>3 DEF Joins, Leaves, Drops, SameStates, Reapers
  <1>4. CASE Opens(p)
    BY <1>1, <1>4 DEF Opens, Reapers
  <1>5. CASE Takes(p)
    BY <1>1, <1>5 DEF Takes, SameStatesBut, OwnedState
  <1>6. CASE MovesOn(p)
    <2>1. NewRole(p) \in Reapers => RoleOf(p) \in Reapers
      BY <1>6, RoleSets DEF MovesOn
    <2>2. QED BY <1>1, <1>6, <2>1 DEF MovesOn, SameStatesBut, OwnedState
  <1>7. QED BY <1>1, <1>2, <1>3, <1>4, <1>5, <1>6 DEF Kind

(* The steps that keep WaiterInv: a transaction looks settled only when it *)
(* is aborted, on the device or torn down by the kthread.                  *)
Settles(i) ==
  \/ tx'[i].aborted \/ i <= disk'.gen
  \/ i <= generation /\ (tx[i].state >= SUPER_COMMITTED \/ TornDown(i))

WaitsOn(p) ==
  \/ /\ proc[p].cont = "waiter" /\ proc'[p].ref = proc[p].ref
     /\ \/ proc'[p].pc \in {"endw", "endput"}
        \/ /\ proc[p].pc \notin {"endw", "endput"}
           /\ proc'[p].err = proc[p].err
        \/ proc'[p].err = fsError /\ fsError' = fsError
  \/ /\ proc'[p].pc \in {"endw", "endput"}
     /\ tx'[proc'[p].ref].state >= COMMIT_PREP

WaiterBooks ==
  /\ \A i \in 1..generation : tx[i].aborted => tx'[i].aborted
  /\ \A i \in 1..generation' : tx'[i].state >= SUPER_COMMITTED => Settles(i)

WaiterTask(p) ==
  /\ proc'[p].cont = "waiter" => WaitsOn(p)
  /\ FailedIsAborted(p)'
  /\ proc'[p].pc = "committed" => proc'[p].goal <= disk'.gen

WaiterFrame(p) == disk.gen <= disk'.gen /\ WaiterBooks /\ WaiterTask(p)

TornNext(i) ==
  \E q \in Procs : Role(proc'[q]) \in Reapers /\ Target(proc'[q]) = i
LostNext(i) ==
  tx'[i].state >= SUPER_COMMITTED /\ ~tx'[i].aborted /\ i > disk'.gen

(* WaiterKnows(p)' *)
KnowsNext(p) ==
  proc'[p].cont = "waiter" =>
    /\ tx'[proc'[p].ref].state >= COMMIT_PREP
    /\ TornNext(proc'[p].ref) \/ LostNext(proc'[p].ref) =>
          proc'[p].err \/ proc'[p].pc \in {"endw", "endput"}

LEMMA TornDownFails ==
  ASSUME CoreInv, NEW i, TornDown(i)
  PROVE  fsError
  <1>1. PICK p \in Procs : RoleOf(p) \in Reapers
    BY DEF TornDown
  <1>2. proc[p].pc \in WalkPoints \cup {"drain"}
    BY <1>1, RolePoints DEF RoleOf, Reapers
  <1>3. QED BY <1>2, WalkerFacts

LEMMA WaiterKept ==
  ASSUME BaseInv, BaseInv', DiskInv, DiskInv', WaiterInv, NEW p \in Procs,
         Regular(p), WaiterFrame(p)
  PROVE  WaiterInv'
  <1> USE DEF BaseInv
  <1>1. /\ OthersStay(p) /\ (fsError => fsError') /\ generation \in Nat
        /\ generation' \in {generation, generation + 1}
    BY RegularFacts DEF Regular
  <1>2. \A q \in Procs \ {p} :
           /\ proc'[q] = proc[q]
           /\ RoleOf(q)' = RoleOf(q) /\ TargetOf(q)' = TargetOf(q)
    BY <1>1, OthersRoles DEF OthersStay
  <1>3. disk.gen \in Nat /\ disk'.gen \in Nat /\ disk.gen <= disk'.gen
        /\ generation' \in Nat
    <2>1. disk \in Super /\ disk' \in Super /\ generation' \in 0..MaxTrans
      BY DEF CoreInv, TypeOK
    <2>2. QED BY <2>1, ConstantsAssumption DEF Super, WaiterFrame
  <1>4. ASSUME NEW i \in 1..generation', LostNext(i)
        PROVE  i \in 1..generation /\ (Lost(i) \/ TornDown(i))
    <2>1. tx'[i].state >= SUPER_COMMITTED /\ ~tx'[i].aborted /\ i > disk'.gen
      BY <1>4 DEF LostNext
    <2>2. Settles(i)
      BY <2>1 DEF WaiterFrame, WaiterBooks
    <2>3. /\ i \in 1..generation
          /\ tx[i].state >= SUPER_COMMITTED \/ TornDown(i)
      BY <1>1, <1>3, <2>1, <2>2 DEF Settles
    <2>4. ~tx[i].aborted
      BY <2>1, <2>3 DEF WaiterFrame, WaiterBooks
    <2>5. i > disk.gen
      BY <1>3, <2>1
    <2>6. QED BY <2>3, <2>4, <2>5 DEF Lost
  <1>5. \A i \in 1..generation' : LostNext(i) => fsError'
    <2>1. \A i \in 1..generation : Lost(i) => fsError
      BY DEF WaiterInv
    <2>2. QED BY <1>1, <1>4, <2>1, TornDownFails
  <1>6. ASSUME NEW i \in 1..generation, tx[i].state >= COMMIT_PREP,
               TornNext(i) \/ LostNext(i)
        PROVE  TornDown(i) \/ Lost(i)
    <2>1. CASE LostNext(i)
      BY <1>1, <1>4, <2>1
    <2>2. ASSUME NEW q \in Procs, Role(proc'[q]) \in Reapers,
                 Target(proc'[q]) = i
          PROVE  TornDown(i)
      <3>1. CASE q # p
        BY <1>2, <2>2, <3>1 DEF TornDown, RoleOf, TargetOf
      <3>2. CASE q = p
        <4>1. NewRole(p) \in Reapers /\ NewTarget(p) = i
          BY <2>2, <3>2 DEF NewRole, NewTarget
        <4>2. tx[i].state \in 0..6
          BY Created
        <4>3. ~(tx[i].state < COMMIT_PREP)
          BY <1>6, <4>2, StateValues
        <4>4. RoleOf(p) \in Reapers /\ TargetOf(p) = i
          BY <4>1, <4>3, StartedStays
        <4>5. QED BY <4>4 DEF TornDown
      <3>3. QED BY <3>1, <3>2
    <2>3. QED BY <1>6, <2>1, <2>2 DEF TornNext
  <1>7. ASSUME NEW q \in Procs, proc[q].cont = "waiter"
        PROVE  proc[q].ref \in 1..generation
    <2>1. proc[q].ref # 0 /\ proc[q].ref \in 0..MaxTrans
          /\ proc[q].ref <= generation
      BY <1>7, PointerFacts DEF RefShape, RefBounded, ProcState, WaitPoints
    <2>2. QED BY <1>1, <2>1, ConstantsAssumption
  <1>8. ASSUME NEW q \in Procs, proc[q].cont = "waiter"
        PROVE  tx'[proc[q].ref].state >= COMMIT_PREP
    BY <1>7, <1>8, StartedStays DEF WaiterInv, WaiterKnows
  <1>9. ASSUME NEW q \in Procs, proc[q].cont = "waiter",
               proc[q].pc \notin {"endw", "endput"},
               TornNext(proc[q].ref) \/ LostNext(proc[q].ref)
        PROVE  proc[q].err
    <2>1. proc[q].ref \in 1..generation
          /\ tx[proc[q].ref].state >= COMMIT_PREP
      BY <1>7, <1>9 DEF WaiterInv, WaiterKnows
    <2>2. TornDown(proc[q].ref) \/ Lost(proc[q].ref)
      BY <1>6, <1>9, <2>1
    <2>3. QED BY <1>9, <2>2 DEF WaiterInv, WaiterKnows
  <1>10. ASSUME NEW q \in Procs
         PROVE  KnowsNext(q)
    <2>1. CASE q # p
      BY <1>2, <1>8, <1>9, <2>1 DEF KnowsNext
    <2>2. CASE q = p
      <3> SUFFICES ASSUME proc'[p].cont = "waiter"
                   PROVE  KnowsNext(p)
        BY <2>2 DEF KnowsNext
      <3>1. WaitsOn(p)
        BY DEF WaiterFrame, WaiterTask
      <3>2. CASE /\ proc'[p].pc \in {"endw", "endput"}
                 /\ tx'[proc'[p].ref].state >= COMMIT_PREP
        BY <3>2 DEF KnowsNext
      <3>3. CASE /\ proc[p].cont = "waiter" /\ proc'[p].ref = proc[p].ref
                 /\ \/ proc'[p].pc \in {"endw", "endput"}
                    \/ /\ proc[p].pc \notin {"endw", "endput"}
                       /\ proc'[p].err = proc[p].err
        BY <1>8, <1>9, <3>3 DEF KnowsNext
      <3>4. CASE /\ proc[p].cont = "waiter" /\ proc'[p].ref = proc[p].ref
                 /\ proc'[p].err = fsError /\ fsError' = fsError
        <4>1. TornNext(proc[p].ref) => fsError'
          <5>1. ASSUME NEW i, TornNext(i)
                PROVE  fsError'
            <6>1. PICK q1 \in Procs : Role(proc'[q1]) \in Reapers
              BY <5>1 DEF TornNext
            <6>2. proc'[q1].pc \in WalkPoints \cup {"drain"}
              BY <6>1, RolePoints DEF Reapers
            <6>3. AfterError(proc'[q1])
              BY <6>2 DEF AfterError
            <6>4. QED BY <6>3 DEF CoreInv, TeardownAfterError
          <5>2. QED BY <5>1
        <4>2. proc[p].ref \in 1..generation'
          BY <1>1, <1>7, <3>4
        <4>3. QED
          BY <1>5, <1>8, <3>4, <4>1, <4>2 DEF KnowsNext
      <3>5. QED BY <3>1, <3>2, <3>3, <3>4 DEF WaitsOn
    <2>3. QED BY <2>1, <2>2
  <1>11. ASSUME NEW q \in Procs
         PROVE  FailedIsAborted(q)'
    <2>1. CASE q = p
      BY <2>1 DEF WaiterFrame, WaiterTask
    <2>2. CASE q # p
      <3>1. proc'[q] = proc[q] /\ RoleOf(q)' = RoleOf(q)
        BY <1>2, <2>2
      <3>2. SUFFICES ASSUME \/ At(q, "fserror") /\ proc[q].cont = "clean"
                            \/ proc[q].pc \in {"cleanlock", "cleanwait",
                                               "cleandel"}
                            \/ RoleOf(q) = "walk"
                     PROVE  tx'[proc[q].tx].aborted
        BY <3>1 DEF FailedIsAborted, At
      <3>3. tx[proc[q].tx].aborted
        BY <3>2 DEF WaiterInv, FailedIsAborted
      <3>4. Role(proc[q]) \in {"fail", "failwait", "dead", "walk"}
        BY <3>2, RolePoints DEF RoleOf, At, ErrorPoints
      <3>5. proc[q].tx # 0
        BY <3>4, TaskFacts DEF Shape, Holders, Committers
      <3>6. proc[q].tx \in 1..generation
        BY <3>5, PointerFacts
      <3>7. QED BY <3>3, <3>6 DEF WaiterFrame, WaiterBooks
    <2>3. QED BY <2>1, <2>2
  <1>12. CommitReturnIsDurable'
    <2>1. ASSUME NEW q \in Procs, proc'[q].pc = "committed"
          PROVE  proc'[q].goal <= disk'.gen
      <3>1. CASE q = p
        BY <2>1, <3>1 DEF WaiterFrame, WaiterTask
      <3>2. CASE q # p
        <4>1. proc[q].goal <= disk.gen /\ proc[q].goal \in 0..MaxTrans
          BY <1>2, <2>1, <3>2, TaskFacts
             DEF WaiterInv, CommitReturnIsDurable, At, ProcState
        <4>2. QED BY <1>2, <1>3, <3>2, <4>1, ConstantsAssumption
      <3>3. QED BY <3>1, <3>2
    <2>2. QED BY <2>1 DEF CommitReturnIsDurable, At
  <1>13. \A q \in Procs : WaiterKnows(q)'
    BY <1>10
       DEF WaiterKnows, KnowsNext, TornDown, TornNext, Lost, LostNext, RoleOf,
           TargetOf
  <1>14. \A i \in 1..generation' : Lost(i)' => fsError'
    BY <1>5 DEF Lost, LostNext
  <1>15. QED
    BY <1>11, <1>12, <1>13, <1>14 DEF WaiterInv

LEMMA SameBooksWaiter ==
  ASSUME BaseInv, generation' = generation,
         \A i \in TransIds : /\ tx'[i].state = tx[i].state
                             /\ tx[i].aborted => tx'[i].aborted
  PROVE  WaiterBooks
  <1>1. \A i \in 1..generation : i \in TransIds /\ i <= generation
    BY Created DEF BaseInv
  <1>2. QED BY <1>1 DEF WaiterBooks, Settles

LEMMA OneBookWaiter ==
  ASSUME BaseInv, generation' = generation, NEW i \in TransIds,
         \A j \in TransIds : /\ j # i => tx'[j].state = tx[j].state
                             /\ tx[j].aborted => tx'[j].aborted,
         tx'[i].state >= SUPER_COMMITTED => Settles(i)
  PROVE  WaiterBooks
  <1>1. \A j \in 1..generation : j \in TransIds /\ j <= generation
    BY Created DEF BaseInv
  <1>2. ASSUME NEW j \in 1..generation, tx'[j].state >= SUPER_COMMITTED
        PROVE  Settles(j)
    BY <1>1, <1>2 DEF Settles
  <1>3. QED BY <1>1, <1>2 DEF WaiterBooks

LEMMA StateBook ==
  ASSUME BaseInv, generation' = generation, NEW i \in TransIds,
         NEW s \in 0..6, tx' = [tx EXCEPT ![i].state = s],
         s >= SUPER_COMMITTED => Settles(i)
  PROVE  WaiterBooks
  <1>1. tx \in [TransIds -> TxState]
    BY DEF BaseInv, CoreInv, TypeOK
  <1>2. \A j \in TransIds : tx'[j].aborted = tx[j].aborted
    BY <1>1 DEF TxState
  <1>3. tx'[i].state = s /\ \A j \in TransIds : j # i => tx'[j].state = tx[j].state
    BY <1>1, StateSet DEF SameStatesBut
  <1>4. QED BY <1>2, <1>3, OneBookWaiter

(* Where nothing is claimed for those who wait. *)
QuietPoints == Points \ {"cleanlock", "cleanwait", "cleandel", "clean1",
                         "clean2", "clean3", "cleandone", "committed"}

LEMMA QuietTask ==
  ASSUME NEW p, proc'[p].pc \in QuietPoints,
         proc'[p].pc = "fserror" => proc'[p].cont # "clean",
         proc'[p].cont = "waiter" => WaitsOn(p)
  PROVE  WaiterTask(p)
  <1>1. Role(proc'[p]) # "walk"
    BY RolePoints DEF QuietPoints, WalkPoints
  <1>2. FailedIsAborted(p)'
    BY <1>1 DEF FailedIsAborted, RoleOf, At, QuietPoints
  <1>3. QED BY <1>2 DEF WaiterTask, QuietPoints

LEMMA CalmWaiter ==
  ASSUME BaseInv, DiskInv, NEW p \in Procs, Calm(p)
  PROVE  WaiterFrame(p)
  <1>1. /\ generation' = generation /\ disk' = disk
        /\ \A i \in TransIds : /\ tx'[i].state = tx[i].state
                               /\ tx[i].aborted => tx'[i].aborted
    BY DEF Calm, CalmShared, SameLedger, Kept, list
  <1>2. WaiterBooks
    BY <1>1, SameBooksWaiter
  <1>3. WaiterTask(p)
    <2>1. /\ proc'[p].pc \in QuietPoints
          /\ proc'[p].pc = "fserror" => proc'[p].cont # "clean"
      BY DEF Calm, CalmTask, CalmPoints, QuietPoints, Points, ErrorPoints
    <2>2. proc'[p].cont = "waiter" => WaitsOn(p)
      BY DEF Calm, CalmTask, WaitsOn
    <2>3. QED BY <2>1, <2>2, QuietTask
  <1>4. QED BY <1>1, <1>2, <1>3, DiskFacts DEF WaiterFrame

LEMMA WaiterWaiting ==
  ASSUME BaseInv, DiskInv, NEW p \in Procs,
         \/ FindCommit(p) /\ proc'[p].pc = "wait"
         \/ EndPut(p) /\ proc[p].cont = "waiter"
         \/ CommitReached(p) \/ WaitForEarlier(p)
  PROVE  WaiterFrame(p)
  <1> USE DEF BaseInv
  <1>0. tx \in [TransIds -> TxState]
    BY DEF CoreInv, TypeOK
  <1>a. ASSUME \/ UNCHANGED tx
               \/ \E k : tx' = Pin(k)
               \/ \E k : tx' = Put(k)
        PROVE  SameLedger
    BY <1>a, Ledger DEF CoreInv
  <1>1. SameLedger
    <2>1. CASE FindCommit(p) /\ proc'[p].pc = "wait"
      <3>1. \/ UNCHANGED tx
            \/ \E k : tx' = Pin(k)
            \/ \E k : tx' = Put(k)
        BY <2>1 DEF FindCommit
      <3>2. QED BY <1>a, <3>1
    <2>2. CASE EndPut(p)
      BY <1>a, <2>2 DEF EndPut
    <2>3. CASE CommitReached(p)
      <3>1. \/ UNCHANGED tx
            \/ \E k : tx' = Pin(k)
            \/ \E k : tx' = Put(k)
        BY <2>3 DEF CommitReached
      <3>2. QED BY <1>a, <3>1
    <2>4. CASE WaitForEarlier(p)
      <3>1. \/ UNCHANGED tx
            \/ \E k : tx' = Pin(k)
            \/ \E k : tx' = Put(k)
        BY <2>4 DEF WaitForEarlier
      <3>2. QED BY <1>a, <3>1
    <2>5. QED BY <2>1, <2>2, <2>3, <2>4
  <1>2. UNCHANGED <<list, fsError, durable>>
    BY DEF FindCommit, EndPut, CommitReached, WaitForEarlier
  <1>3. WaiterBooks
    BY <1>1, <1>2, SameBooksWaiter DEF SameLedger, Kept, list
  <1>4. proc'[p].pc \in WaitPoints /\ (proc'[p].cont = "waiter" => WaitsOn(p))
    <2>1. CASE FindCommit(p) /\ proc'[p].pc = "wait"
      <3>1. proc[p].pc = "find" /\ proc[p].cont # "waiter"
        BY <2>1, PointerFacts DEF FindCommit, At, RefShape, WaitPoints
      <3>2. proc'[p].cont # "waiter"
        BY <2>1, <3>1, TaskFacts
           DEF FindCommit, WaitOver, Fresh, ProcState
      <3>3. QED BY <2>1, <3>2 DEF WaitPoints
    <2>2. CASE EndPut(p) /\ proc[p].cont = "waiter"
      <3>1. proc' = [proc EXCEPT ![p].pc = "wait", ![p].tx = 0,
                                 ![p].err = EndError]
        BY <2>2 DEF EndPut
      <3>2. /\ proc'[p].pc = "wait" /\ proc'[p].ref = proc[p].ref
            /\ proc'[p].err = fsError
        BY <3>1, TaskFacts DEF ProcState, EndError
      <3>3. QED BY <1>2, <2>2, <3>2 DEF WaitsOn, WaitPoints
    <2>3. CASE CommitReached(p) \/ WaitForEarlier(p)
      <3>1. /\ proc[p].pc \in WaitPoints /\ proc'[p].pc \in WaitPoints
            /\ proc'[p].cont = proc[p].cont /\ proc'[p].ref = proc[p].ref
            /\ proc'[p].err = proc[p].err
        BY <2>3, TaskFacts
           DEF CommitReached, WaitForEarlier, Goto, At, ProcState, WaitPoints
      <3>2. QED BY <3>1 DEF WaitsOn, WaitPoints
    <2>4. QED BY <2>1, <2>2, <2>3
  <1>5. WaiterTask(p)
    BY <1>4, QuietTask DEF QuietPoints, Points, WaitPoints
  <1>6. QED
    BY <1>2, <1>3, <1>5, DiskFacts DEF WaiterFrame, durable

LEMMA WaiterWaited ==
  ASSUME BaseInv, DiskInv, WaiterInv, NEW p \in Procs, Waited(p),
         proc'[p].pc \in {"abort", "prevdone", "committed"}
  PROVE  WaiterFrame(p)
  <1> USE DEF BaseInv
  <1> DEFINE i == proc[p].ref
             k == proc[p].pin
  <1>1. SameLedger
    <2>1. \/ tx' = Put(i)
          \/ tx' = [tx EXCEPT ![i].use = @ - 2]
          \/ tx' = [Put(i) EXCEPT ![k].use = @ - 1]
      BY DEF Waited
    <2>2. QED BY <2>1, Ledger DEF CoreInv
  <1>2. UNCHANGED <<list, fsError, durable>> /\ proc[p].pc = "waited"
    BY DEF Waited, At
  <1>3. WaiterBooks
    BY <1>1, <1>2, SameBooksWaiter DEF SameLedger, Kept, list
  <1>4. CASE proc[p].cont = "prev"
    <2>1. /\ proc'[p].pc \in {"abort", "prevdone"}
          /\ proc'[p].cont \in {"clean", "none"}
      BY <1>4, TaskFacts DEF Waited, ProcState
    <2>2. WaiterTask(p)
      BY <2>1, QuietTask DEF QuietPoints, Points
    <2>3. QED BY <1>2, <1>3, <2>2, DiskFacts DEF WaiterFrame, durable
  <1>5. CASE proc[p].cont = "waiter"
    <2>1. ~Return(p)
      BY TaskFacts DEF Return, Returned, IdleProc, Fresh
    <2>2. /\ ~tx[i].aborted /\ ~proc[p].err
          /\ proc' = [proc EXCEPT ![p].pc = "committed", ![p].ref = 0,
                                  ![p].goal = i, ![p].cont = "none"]
      BY <1>5, <2>1 DEF Waited
    <2>3. /\ proc'[p].pc = "committed" /\ proc'[p].goal = i
          /\ proc'[p].cont = "none"
      BY <2>2, TaskFacts DEF ProcState
    <2>4. tx[i].state >= SUPER_COMMITTED
      BY <1>2 DEF OrderInv, WaitsForPrevious, Reached
    <2>5. ~Lost(i)
      BY <1>2, <1>5, <2>2 DEF WaiterInv, WaiterKnows
    <2>6. i <= disk.gen
      BY <2>2, <2>4, <2>5, DiskFacts, TaskFacts, ConstantsAssumption
         DEF Lost, ProcState
    <2>7. FailedIsAborted(p)'
      <3>1. Role(proc'[p]) # "walk"
        BY <2>3, RolePoints DEF WalkPoints
      <3>2. QED BY <2>3, <3>1 DEF FailedIsAborted, RoleOf, At
    <2>8. WaiterTask(p)
      BY <1>2, <2>3, <2>6, <2>7 DEF WaiterTask, durable
    <2>9. QED BY <1>2, <1>3, <2>8, DiskFacts DEF WaiterFrame, durable
  <1>6. CASE proc[p].cont \notin {"prev", "waiter"}
    <2>1. WaitOver(p, ~tx[i].aborted)
      BY <1>6 DEF Waited
    <2>2. proc'[p].pc \in {"barrierdone", "scan", "idle"}
      BY <2>1, TaskFacts DEF WaitOver, Fresh
    <2>3. QED BY <2>2
  <1>7. QED BY <1>4, <1>5, <1>6

LEMMA WaiterPrep ==
  ASSUME BaseInv, DiskInv, WaiterInv, NEW p \in Procs, CommitPrep(p)
  PROVE  WaiterFrame(p)
  <1> USE DEF BaseInv
  <1> DEFINE i == proc[p].tx
  <1>1. proc[p].pc = "prep" /\ UNCHANGED <<list, fsError, durable>>
    BY CommitPrepCases
  <1>2. i \in TransIds /\ tx \in [TransIds -> TxState] /\ tx[i].state \in 0..6
    <2>1. i = running /\ running \in listed
      BY <1>1, TaskFacts, HandleShape, HandleIsListed DEF HandlePoints
    <2>2. QED BY <2>1, Created DEF CoreInv, TypeOK
  <1>3. CASE /\ CommitHasStarted(i) /\ tx' = Pin(i)
             /\ proc'[p].pc = "endw" /\ proc'[p].cont = "waiter"
             /\ proc'[p].ref = i
    <2>1. SameLedger
      BY <1>3, Ledger DEF CoreInv
    <2>2. WaiterBooks
      BY <1>1, <2>1, SameBooksWaiter DEF SameLedger, Kept, list
    <2>3. tx'[i].state >= COMMIT_PREP
      BY <1>2, <1>3, <2>1 DEF SameLedger, Kept, CommitHasStarted
    <2>4. WaiterTask(p)
      BY <1>3, <2>3, QuietTask DEF QuietPoints, Points, WaitsOn
    <2>5. QED BY <1>1, <2>2, <2>4, DiskFacts DEF WaiterFrame, durable
  <1>4. ASSUME NEW k \in listed, k < i,
               tx' = [Pin(k) EXCEPT ![i].state = COMMIT_PREP],
               proc'[p].pc = "wait" /\ proc'[p].cont = "prev"
        PROVE  WaiterFrame(p)
    <2>1. \A j \in TransIds : tx'[j].aborted = tx[j].aborted
      BY <1>2, <1>4 DEF Pin, TxState
    <2>2. \A j \in TransIds : j # i => tx'[j].state = tx[j].state
      BY <1>2, <1>4 DEF Pin, TxState
    <2>3. tx'[i].state = COMMIT_PREP
      BY <1>2, <1>4 DEF Pin, TxState
    <2>4. generation' = generation
      BY <1>1 DEF list
    <2>5. WaiterBooks
      <3> HIDE DEF i
      <3> QED
        BY <1>2, <2>1, <2>2, <2>3, <2>4, StateValues, OneBookWaiter
    <2>6. WaiterTask(p)
      BY <1>4, QuietTask DEF QuietPoints, Points
    <2>7. QED BY <1>1, <2>5, <2>6, DiskFacts DEF WaiterFrame, durable
  <1>5. ASSUME NEW s \in {COMMIT_PREP, COMMIT_START},
               tx' = [tx EXCEPT ![i].state = s],
               \/ proc'[p].pc = "abort" /\ proc'[p].cont = "clean"
               \/ proc'[p].pc = "dropext" /\ proc'[p].cont = proc[p].cont
        PROVE  WaiterFrame(p)
    <2>1. generation' = generation /\ s \in 0..6 /\ ~(s >= SUPER_COMMITTED)
      BY <1>1, StateValues DEF list
    <2>2. WaiterBooks
      <3> HIDE DEF i
      <3> QED BY <1>2, <1>5, <2>1, StateBook
    <2>3. proc[p].cont # "waiter"
      BY <1>1, PointerFacts DEF RefShape, WaitPoints
    <2>4. WaiterTask(p)
      BY <1>5, <2>3, QuietTask DEF QuietPoints, Points
    <2>5. QED BY <1>1, <2>2, <2>4, DiskFacts DEF WaiterFrame, durable
  <1>6. QED BY <1>3, <1>4, <1>5, CommitPrepCases

LEMMA WaiterCommit ==
  ASSUME BaseInv, DiskInv, WaiterInv, NEW p \in Procs,
         \/ PrevCommitted(p) \/ DropExtwriter(p) \/ NoExtwriters(p)
         \/ NoPendingOrdered(p) \/ NoOtherWriters(p) \/ CommitDoing(p)
         \/ CommitUnblock(p) \/ WriteBlocks(p)
  PROVE  WaiterFrame(p)
  <1> USE DEF BaseInv
  <1> DEFINE i == proc[p].tx
  <1>1. /\ proc[p].pc \in {"prevdone", "dropext", "extwait", "ordwait",
                           "wrwait", "doing", "unblock", "write"}
        /\ generation' = generation /\ disk' = disk
    BY DEF PrevCommitted, DropExtwriter, NoExtwriters, NoPendingOrdered,
           NoOtherWriters, CommitDoing, CommitUnblock, WriteBlocks, At, list,
           shared, durable
  <1>2. i \in TransIds /\ tx \in [TransIds -> TxState]
    BY <1>1, CommitterFacts DEF CommitPoints
  <1>3. proc[p].cont # "waiter"
    BY <1>1, PointerFacts DEF RefShape, WaitPoints
  <1>4. ASSUME NEW s \in {COMMIT_START, COMMIT_DOING, UNBLOCKED},
               tx' = [tx EXCEPT ![i].state = s]
        PROVE  WaiterBooks
    <2>1. s \in 0..6 /\ ~(s >= SUPER_COMMITTED)
      BY StateValues
    <2>2. QED
      <3> HIDE DEF i
      <3> QED BY <1>1, <1>2, <1>4, <2>1, StateBook
  <1>5. ASSUME \/ UNCHANGED tx
               \/ \E n : tx' = [tx EXCEPT ![i].ext = n]
        PROVE  WaiterBooks
    <2>1. \A j \in TransIds : /\ tx'[j].state = tx[j].state
                              /\ tx'[j].aborted = tx[j].aborted
      <3>1. ASSUME NEW n, tx' = [tx EXCEPT ![i].ext = n], NEW j \in TransIds
            PROVE  /\ tx'[j].state = tx[j].state
                   /\ tx'[j].aborted = tx[j].aborted
        BY <1>2, <3>1 DEF TxState
      <3>2. QED BY <1>5, <3>1
    <2>2. QED BY <1>1, <2>1, SameBooksWaiter
  <1>6. WaiterBooks
    <2>1. CASE PrevCommitted(p)
      BY <1>4, <2>1 DEF PrevCommitted
    <2>2. CASE DropExtwriter(p)
      BY <1>5, <2>2 DEF DropExtwriter
    <2>3. CASE \/ NoExtwriters(p) \/ NoOtherWriters(p) \/ CommitDoing(p)
               \/ WriteBlocks(p)
      BY <1>5, <2>3
         DEF NoExtwriters, NoOtherWriters, CommitDoing, WriteBlocks, shared
    <2>4. CASE NoPendingOrdered(p)
      BY <1>4, <2>4 DEF NoPendingOrdered
    <2>5. CASE CommitUnblock(p)
      BY <1>4, <2>5 DEF CommitUnblock
    <2>6. QED BY <2>1, <2>2, <2>3, <2>4, <2>5
  <1>7. /\ proc'[p].pc \in {"dropext", "extwait", "ordwait", "wrwait", "doing",
                            "unblock", "write", "super", "abort"}
        /\ proc'[p].cont \in {proc[p].cont, "clean"}
    <2>1. CASE Fail(p)
      BY <2>1, TaskFacts DEF Fail, ProcState
    <2>2. ASSUME NEW pc \in {"dropext", "extwait", "ordwait", "wrwait",
                             "doing", "unblock", "write", "super"}, Goto(p, pc)
          PROVE  proc'[p].pc = pc /\ proc'[p].cont = proc[p].cont
      BY <2>2, TaskFacts DEF Goto, ProcState
    <2>3. CASE DropExtwriter(p)
      BY <2>3, TaskFacts DEF DropExtwriter, ProcState
    <2>4. CASE PrevCommitted(p)
      BY <2>2, <2>4 DEF PrevCommitted
    <2>5. CASE NoExtwriters(p)
      BY <2>1, <2>2, <2>5 DEF NoExtwriters, GotoOrFail
    <2>6. CASE NoPendingOrdered(p)
      BY <2>2, <2>6 DEF NoPendingOrdered
    <2>7. CASE NoOtherWriters(p)
      BY <2>1, <2>2, <2>7 DEF NoOtherWriters
    <2>8. CASE CommitDoing(p)
      BY <2>1, <2>2, <2>8 DEF CommitDoing
    <2>9. CASE CommitUnblock(p)
      BY <2>2, <2>9 DEF CommitUnblock
    <2>10. CASE WriteBlocks(p)
      BY <2>1, <2>2, <2>10 DEF WriteBlocks
    <2>11. QED
      BY <2>3, <2>4, <2>5, <2>6, <2>7, <2>8, <2>9, <2>10
  <1>8. WaiterTask(p)
    BY <1>3, <1>7, QuietTask DEF QuietPoints, Points
  <1>9. QED BY <1>1, <1>6, <1>8, DiskFacts DEF WaiterFrame

LEMMA WaiterSuper ==
  ASSUME BaseInv, DiskInv, WaiterInv, NEW p \in Procs, WriteSuper(p)
  PROVE  WaiterFrame(p)
  <1> USE DEF BaseInv
  <1> DEFINE i == proc[p].tx
  <1>1. /\ proc[p].pc = "super" /\ generation' = generation
        /\ disk' \in {disk, superForCommit}
        /\ superForCommit.gen = i /\ disk.gen = i - 1
    BY DEF WriteSuper, At, list, DiskInv, SuperIsPrepared, DiskIsNext, SuperOf
  <1>2. i \in TransIds /\ tx \in [TransIds -> TxState] /\ i \in Nat
    BY <1>1, CommitterFacts DEF CommitPoints, TransIds
  <1>3. disk.gen <= disk'.gen
    BY <1>1, <1>2, DiskFacts
  <1>4. proc[p].cont # "waiter"
    BY <1>1, PointerFacts DEF RefShape, WaitPoints
  <1>5. CASE /\ disk' = superForCommit /\ Goto(p, "finish")
             /\ tx' = [tx EXCEPT ![i].state = SUPER_COMMITTED]
    <2>1. SUPER_COMMITTED \in 0..6 /\ Settles(i)
      BY <1>1, <1>2, <1>5, StateValues DEF Settles
    <2>2. WaiterBooks
      <3> HIDE DEF i
      <3> QED BY <1>1, <1>2, <1>5, <2>1, StateBook
    <2>3. proc'[p].pc = "finish" /\ proc'[p].cont = proc[p].cont
      BY <1>5, TaskFacts DEF Goto, ProcState
    <2>4. WaiterTask(p)
      BY <1>4, <2>3, QuietTask DEF QuietPoints, Points
    <2>5. QED BY <1>3, <2>2, <2>4 DEF WaiterFrame
  <1>6. CASE Fail(p) /\ UNCHANGED tx
    <2>1. WaiterBooks
      BY <1>1, <1>6, SameBooksWaiter
    <2>2. proc'[p].pc = "abort" /\ proc'[p].cont = "clean"
      BY <1>6, TaskFacts DEF Fail, ProcState
    <2>3. WaiterTask(p)
      BY <2>2, QuietTask DEF QuietPoints, Points
    <2>4. QED BY <1>3, <2>1, <2>3 DEF WaiterFrame
  <1>7. QED BY <1>5, <1>6 DEF WriteSuper

LEMMA WaiterDone ==
  ASSUME BaseInv, DiskInv, WaiterInv, NEW p \in Procs,
         CommitFinish(p) \/ CommitUnlist(p) \/ CommitPut(p)
  PROVE  WaiterFrame(p)
  <1> USE DEF BaseInv
  <1> DEFINE i == proc[p].tx
  <1>1. /\ proc[p].pc \in {"finish", "unlist", "putbase"}
        /\ generation' = generation /\ disk' = disk /\ i <= disk.gen
    BY DEF CommitFinish, CommitUnlist, CommitPut, At, list, durable, DiskInv,
           DiskIsNext
  <1>2. i \in TransIds /\ tx \in [TransIds -> TxState]
    BY <1>1, CommitterFacts DEF CommitPoints
  <1>3. proc[p].cont # "waiter"
    BY <1>1, PointerFacts DEF RefShape, WaitPoints
  <1>4. WaiterBooks
    <2>1. CASE CommitFinish(p)
      <3>1. /\ tx' = [tx EXCEPT ![i].state = COMPLETED]
            /\ COMPLETED \in 0..6 /\ Settles(i)
        BY <1>1, <2>1, StateValues DEF CommitFinish, Settles
      <3>2. QED
        <4> HIDE DEF i
        <4> QED BY <1>1, <1>2, <3>1, StateBook
    <2>2. CASE CommitUnlist(p)
      BY <1>1, <2>2, SameBooksWaiter DEF CommitUnlist
    <2>3. CASE CommitPut(p)
      <3>1. SameLedger
        BY <2>3, Ledger DEF CommitPut, CoreInv
      <3>2. QED BY <1>1, <3>1, SameBooksWaiter DEF SameLedger, Kept
    <2>4. QED BY <2>1, <2>2, <2>3
  <1>5. WaiterTask(p)
    <2>1. CASE CommitFinish(p) \/ CommitUnlist(p)
      <3>1. /\ proc'[p].pc \in {"unlist", "putbase"}
            /\ proc'[p].cont = proc[p].cont
        BY <2>1, TaskFacts DEF CommitFinish, CommitUnlist, Goto, ProcState
      <3>2. QED BY <1>3, <3>1, QuietTask DEF QuietPoints, Points
    <2>2. CASE CommitPut(p)
      <3>1. /\ proc'[p].pc = "committed" /\ proc'[p].goal = i
            /\ proc'[p].cont = proc[p].cont
        BY <2>2, TaskFacts DEF CommitPut, ProcState
      <3>2. FailedIsAborted(p)'
        <4>1. Role(proc'[p]) # "walk"
          BY <3>1, RolePoints DEF WalkPoints
        <4>2. QED BY <3>1, <4>1 DEF FailedIsAborted, RoleOf, At
      <3>3. QED BY <1>1, <1>3, <3>1, <3>2 DEF WaiterTask
    <2>3. QED BY <2>1, <2>2
  <1>6. QED BY <1>1, <1>4, <1>5, DiskFacts DEF WaiterFrame

LEMMA WaiterClean ==
  ASSUME BaseInv, DiskInv, WaiterInv, NEW p \in Procs,
         \/ AbortTransaction(p) /\ proc[p].cont = "clean"
         \/ HandleFsError(p) /\ proc[p].cont = "clean"
         \/ CleanupLock(p) \/ CleanupWait(p) \/ CleanupUnlist(p)
  PROVE  WaiterFrame(p)
  <1> USE DEF BaseInv
  <1> DEFINE i == proc[p].tx
  <1>1. /\ \/ proc[p].pc \in ErrorPoints /\ proc[p].cont = "clean"
           \/ proc[p].pc \in {"cleanlock", "cleanwait", "cleandel"}
        /\ generation' = generation /\ disk' = disk
    <2>1. CASE AbortTransaction(p) /\ proc[p].cont = "clean"
      BY <2>1 DEF AbortTransaction, At, list, durable, ErrorPoints
    <2>2. CASE HandleFsError(p) /\ proc[p].cont = "clean"
      BY <2>2 DEF HandleFsError, At, list, ErrorPoints
    <2>3. CASE CleanupLock(p)
      BY <2>3 DEF CleanupLock, At, list, durable
    <2>4. CASE CleanupWait(p)
      BY <2>4 DEF CleanupWait, At, list, durable, shared
    <2>5. CASE CleanupUnlist(p)
      BY <2>5 DEF CleanupUnlist, At, durable
    <2>6. QED BY <2>1, <2>2, <2>3, <2>4, <2>5
  <1>2. i \in TransIds /\ tx \in [TransIds -> TxState]
    BY <1>1, CommitterFacts DEF CommitPoints
  <1>3. proc[p].cont # "waiter"
    BY <1>1, PointerFacts DEF RefShape, WaitPoints, ErrorPoints
  <1>4. /\ proc'[p].pc \in {"fserror", "cleanlock", "cleanwait", "cleandel",
                            "clean1"}
        /\ proc'[p].cont = proc[p].cont /\ proc'[p].tx = i
    <2>1. CASE AbortTransaction(p) /\ proc[p].cont = "clean"
      BY <2>1, TaskFacts DEF AbortTransaction, Goto, ProcState
    <2>2. CASE HandleFsError(p) /\ proc[p].cont = "clean"
      BY <2>2, TaskFacts DEF HandleFsError, Goto, ProcState
    <2>3. CASE CleanupLock(p)
      BY <2>3, TaskFacts DEF CleanupLock, Goto, ProcState
    <2>4. CASE CleanupWait(p)
      BY <2>4, TaskFacts DEF CleanupWait, Goto, ProcState
    <2>5. CASE CleanupUnlist(p)
      BY <2>5, TaskFacts DEF CleanupUnlist, ProcState
    <2>6. QED BY <2>1, <2>2, <2>3, <2>4, <2>5
  <1>5. CASE AbortTransaction(p)
    <2>1. tx' = [tx EXCEPT ![i].aborted = TRUE]
      BY <1>5 DEF AbortTransaction
    <2>2. SameLedger
      BY <2>1, Ledger DEF CoreInv
    <2>3. WaiterBooks
      BY <1>1, <2>2, SameBooksWaiter DEF SameLedger, Kept
    <2>4. tx'[i].aborted
      BY <1>2, <2>1 DEF TxState
    <2>5. WaiterTask(p)
      BY <1>3, <1>4, <2>4 DEF WaiterTask, FailedIsAborted
    <2>6. QED BY <1>1, <2>3, <2>5, DiskFacts DEF WaiterFrame
  <1>6. CASE ~AbortTransaction(p)
    <2>1. tx[i].aborted
      BY <1>1, <1>6
         DEF WaiterInv, FailedIsAborted, At, HandleFsError, CleanupLock,
             CleanupWait, CleanupUnlist
    <2>2. WaiterBooks
      <3>1. CASE tx' = [tx EXCEPT ![i].state = COMMIT_DOING]
        <4>1. COMMIT_DOING \in 0..6 /\ ~(COMMIT_DOING >= SUPER_COMMITTED)
          BY StateValues
        <4>2. QED
          <5> HIDE DEF i
          <5> QED BY <1>1, <1>2, <3>1, <4>1, StateBook
      <3>2. CASE UNCHANGED tx
        BY <1>1, <3>2, SameBooksWaiter
      <3>3. QED
        BY <1>6, <3>1, <3>2
           DEF HandleFsError, CleanupLock, CleanupWait, CleanupUnlist, shared
    <2>3. i \in 1..generation
      BY <1>2, DiskFacts, ConstantsAssumption DEF TransIds
    <2>4. tx'[i].aborted
      BY <2>1, <2>2, <2>3 DEF WaiterBooks
    <2>5. WaiterTask(p)
      BY <1>3, <1>4, <2>4 DEF WaiterTask, FailedIsAborted
    <2>6. QED BY <1>1, <2>2, <2>5, DiskFacts DEF WaiterFrame
  <1>7. QED BY <1>5, <1>6

LEMMA WaiterWalk ==
  ASSUME BaseInv, DiskInv, WaiterInv, NEW p \in Procs,
         CleanupOne(p) \/ KthreadDrain(p)
  PROVE  WaiterFrame(p)
  <1> USE DEF BaseInv
  <1> DEFINE i == proc[p].doom
  <1>1. /\ proc[p].pc \in {"drain", "clean1", "clean2", "clean3"}
        /\ generation' = generation /\ disk' = disk
    BY DEF CleanupOne, CleanupState, KthreadDrain, At, list, durable, shared
  <1>2. /\ i \in TransIds /\ tx \in [TransIds -> TxState]
        /\ TargetOf(p) = i /\ RoleOf(p) \in {"walk", "kwalk", "kdrain"}
        /\ i \in 1..generation
    <2>1. /\ i \in TransIds /\ tx \in [TransIds -> TxState] /\ i # 0
          /\ TargetOf(p) = i /\ RoleOf(p) \in {"walk", "kwalk", "kdrain"}
      BY <1>1, WalkerFacts DEF WalkPoints, TargetOf, RoleOf
    <2>2. i <= generation
      BY <2>1 DEF CoreInv, RoleInv, Bounded
    <2>3. QED BY <2>1, <2>2, DiskFacts DEF TransIds
  <1>3. proc[p].cont # "waiter"
    BY <1>1, PointerFacts DEF RefShape, WaitPoints
  <1>4. /\ proc'[p].pc \in WalkPoints /\ proc'[p].cont = proc[p].cont
        /\ proc'[p].tx = proc[p].tx
    <2>1. CASE KthreadDrain(p)
      BY <2>1, TaskFacts DEF KthreadDrain, Goto, ProcState, WalkPoints
    <2>2. ASSUME NEW pc \in WalkPoints, Goto(p, pc)
          PROVE  /\ proc'[p].pc \in WalkPoints /\ proc'[p].cont = proc[p].cont
                 /\ proc'[p].tx = proc[p].tx
      BY <2>2, TaskFacts DEF Goto, ProcState
    <2>3. QED
      BY <2>1, <2>2 DEF CleanupOne, CleanupState, WalkPoints
  <1>5. RoleOf(p) = "walk" => /\ tx[i].aborted /\ proc[p].tx = i
    <2>1. ASSUME RoleOf(p) = "walk"
          PROVE  tx[i].aborted /\ proc[p].tx = i
      <3>1. proc[p].tx = i
        BY <2>1, TaskFacts, TargetOfRole, <1>2
           DEF RoleOf, TargetOf, Holders, Committers
      <3>2. QED BY <2>1, <3>1 DEF WaiterInv, FailedIsAborted
    <2>2. QED BY <2>1
  <1>6. TornDown(i) \/ tx[i].aborted
    BY <1>2, <1>5 DEF TornDown, Reapers
  <1>7. ASSUME NEW s \in {COMMIT_START, UNBLOCKED, COMPLETED},
               tx' = [tx EXCEPT ![i].state = s]
        PROVE  WaiterBooks
    <2>1. s \in 0..6
      BY StateValues
    <2>2. tx[i].aborted => tx'[i].aborted
      BY <1>2, <1>7 DEF TxState
    <2>3. Settles(i)
      BY <1>2, <1>6, <2>2 DEF Settles
    <2>4. QED
      <3> HIDE DEF i
      <3> QED BY <1>1, <1>2, <1>7, <2>1, <2>3, StateBook
  <1>8. WaiterBooks
    <2>1. CASE KthreadDrain(p)
      BY <1>1, <2>1, SameBooksWaiter DEF KthreadDrain, shared
    <2>2. CASE CleanupOne(p)
      BY <1>7, <2>2 DEF CleanupOne, CleanupState
    <2>3. QED BY <2>1, <2>2
  <1>9. WaiterTask(p)
    <2>1. FailedIsAborted(p)'
      <3>1. CASE proc[p].tx # 0
        <4>1. RoleOf(p) = "walk"
          BY <1>2, <3>1, TaskFacts
             DEF RoleOf, Shape, Holders, Committers
        <4>2. tx'[i].aborted /\ proc'[p].tx = i
          BY <1>2, <1>4, <1>5, <1>8, <4>1 DEF WaiterBooks
        <4>3. QED BY <4>2 DEF FailedIsAborted
      <3>2. CASE proc[p].tx = 0
        <4>1. Role(proc'[p]) # "walk"
          BY <1>4, <3>2, RolePoints
        <4>2. QED
          BY <1>4, <4>1 DEF FailedIsAborted, At, RoleOf, WalkPoints
      <3>3. QED BY <3>1, <3>2
    <2>2. QED
      BY <1>3, <1>4, <2>1 DEF WaiterTask, WalkPoints
  <1>10. QED BY <1>1, <1>8, <1>9, DiskFacts DEF WaiterFrame

LEMMA WaiterRest ==
  ASSUME BaseInv, DiskInv, WaiterInv, NEW p \in Procs,
         \/ CleanupDone(p)
         \/ KthreadScan(p) /\ proc'[p].pc \in {"drain", "clean1"}
         \/ SyncLogLock(p) \/ ChargeOrdered(p)
  PROVE  WaiterFrame(p)
  <1> USE DEF BaseInv
  <1>0. tx \in [TransIds -> TxState]
    BY DEF CoreInv, TypeOK
  <1>1. CASE CleanupDone(p)
    <2>1. generation' = generation /\ disk' = disk
      BY <1>1 DEF CleanupDone, durable
    <2>2. WaiterBooks
      <3>1. PICK n : tx' = [tx EXCEPT ![proc[p].doom].use = n]
        BY <1>1 DEF CleanupDone
      <3>2. \A k \in TransIds : Kept(k)
        BY <1>0, <3>1, KeptByUse
      <3>3. QED BY <2>1, <3>2, SameBooksWaiter DEF Kept
    <2>3. proc'[p].pc \in {"idle", "waitcur", "scan"} /\ proc'[p].cont = "none"
      BY <1>1, TaskFacts DEF CleanupDone, Return, Returned, IdleProc, Fresh
    <2>4. WaiterTask(p)
      BY <2>3, QuietTask DEF QuietPoints, Points
    <2>5. QED BY <2>1, <2>2, <2>4, DiskFacts DEF WaiterFrame
  <1>2. CASE KthreadScan(p) /\ proc'[p].pc \in {"drain", "clean1"}
    <2> DEFINE i == running
    <2>1. /\ proc'[p].pc = "drain" /\ proc'[p].cont = "none"
          /\ tx' = [tx EXCEPT ![i].state = COMMIT_DOING] /\ i # 0
      BY <1>2, OrderScan
    <2>2. generation' = generation /\ disk' = disk
      BY <1>2 DEF KthreadScan, list, durable
    <2>3. i \in TransIds
      BY <2>1, Created, DiskFacts DEF CoreInv, TypeOK
    <2>4. WaiterBooks
      <3>1. COMMIT_DOING \in 0..6 /\ ~(COMMIT_DOING >= SUPER_COMMITTED)
        BY StateValues
      <3>2. QED
        <4> HIDE DEF i
        <4> QED BY <2>1, <2>2, <2>3, <3>1, StateBook
    <2>5. WaiterTask(p)
      BY <2>1, QuietTask DEF QuietPoints, Points
    <2>6. QED BY <2>2, <2>4, <2>5, DiskFacts DEF WaiterFrame
  <1>3. CASE SyncLogLock(p)
    <2>1. generation' = generation /\ disk' = disk /\ proc[p].pc = "loglock"
          /\ tx' = tx
      BY <1>3 DEF SyncLogLock, list, At
    <2>2. WaiterBooks
      BY <2>1, SameBooksWaiter
    <2>3. proc[p].cont # "waiter"
      BY <2>1, PointerFacts DEF RefShape, WaitPoints
    <2>4. /\ proc'[p].pc \in {"logsuper", "abort"}
          /\ proc'[p].cont \in {proc[p].cont, "held"}
      BY <1>3, TaskFacts DEF SyncLogLock, Goto, ProcState
    <2>5. WaiterTask(p)
      BY <2>3, <2>4, QuietTask DEF QuietPoints, Points
    <2>6. QED BY <2>1, <2>2, <2>5, DiskFacts DEF WaiterFrame
  <1>4. CASE ChargeOrdered(p)
    <2>1. generation' = generation /\ disk' = disk /\ proc' = proc
          /\ proc[p].pc = "held"
      BY <1>4 DEF ChargeOrdered, list, At
    <2>2. WaiterBooks
      <3>1. \A j \in TransIds : /\ tx'[j].state = tx[j].state
                                /\ tx'[j].aborted = tx[j].aborted
        BY <1>0, <1>4 DEF ChargeOrdered, TxState
      <3>2. QED BY <2>1, <3>1, SameBooksWaiter
    <2>3. proc[p].cont # "waiter"
      BY <2>1, PointerFacts DEF RefShape, WaitPoints
    <2>4. WaiterTask(p)
      BY <2>1, <2>3, QuietTask DEF QuietPoints, Points
    <2>5. QED BY <2>1, <2>2, <2>4, DiskFacts DEF WaiterFrame
  <1>5. QED BY <1>1, <1>2, <1>3, <1>4

LEMMA WaiterLogSuper ==
  ASSUME BaseInv, DiskInv, WaiterInv, NEW p \in Procs, SyncLogSuper(p)
  PROVE  WaiterFrame(p)
  <1> USE DEF BaseInv
  <1>1. /\ proc[p].pc = "logsuper" /\ generation' = generation /\ tx' = tx
        /\ disk' \in {disk, superForCommit}
        /\ superForCommit.gen = disk.gen
    BY DEF SyncLogSuper, At, list, DiskInv, SuperIsPrepared
  <1>2. disk.gen <= disk'.gen
    BY <1>1, DiskFacts
  <1>3. WaiterBooks
    BY <1>1, SameBooksWaiter
  <1>4. proc[p].cont # "waiter"
    BY <1>1, PointerFacts DEF RefShape, WaitPoints
  <1>5. /\ proc'[p].pc \in {"held", "abort"}
        /\ proc'[p].cont \in {proc[p].cont, "held"}
    BY TaskFacts DEF SyncLogSuper, Goto, ProcState
  <1>6. WaiterTask(p)
    BY <1>4, <1>5, QuietTask DEF QuietPoints, Points
  <1>7. QED BY <1>2, <1>3, <1>6 DEF WaiterFrame

LEMMA WaiterNew ==
  ASSUME BaseInv, DiskInv, WaiterInv, NEW p \in Procs, NewTransaction(p),
         running = 0
  PROVE  WaiterFrame(p)
  <1> USE DEF BaseInv
  <1>0. disk' = disk /\ proc[p].pc = "alloc"
    BY DEF NewTransaction, durable, At
  <1>1. CASE Return(p) /\ UNCHANGED <<list, tx>>
    <2>1. proc'[p].pc \in {"idle", "waitcur"} /\ proc'[p].cont = "none"
      BY <1>1, TaskFacts DEF Return, Returned, IdleProc, Fresh
    <2>2. WaiterBooks
      BY <1>1, SameBooksWaiter DEF list
    <2>3. WaiterTask(p)
      BY <2>1, QuietTask DEF QuietPoints, Points
    <2>4. QED BY <1>0, <2>2, <2>3, DiskFacts DEF WaiterFrame
  <1>2. CASE ~(Return(p) /\ UNCHANGED <<list, tx>>)
    <2>1. /\ generation' = generation + 1 /\ generation < MaxTrans
          /\ tx' = [tx EXCEPT ![generation + 1] =
                       Tx(1, One(proc[p].type \in EXTWRITERS), 2)]
          /\ proc'[p].pc = "joined" /\ proc'[p].cont = "none"
      BY <1>2, TaskFacts DEF NewTransaction, JoinRunning, ProcState
    <2>2. generation + 1 \in TransIds /\ tx \in [TransIds -> TxState]
      BY <2>1, Created, ConstantsAssumption DEF TransIds, CoreInv, TypeOK
    <2>3. ~(tx'[generation + 1].state >= SUPER_COMMITTED)
      BY <2>1, <2>2, StateValues DEF Tx
    <2>4. \A k \in 1..generation : tx'[k] = tx[k]
      BY <2>1, <2>2, Created
    <2>5. WaiterBooks
      BY <2>1, <2>3, <2>4, Created DEF WaiterBooks, Settles
    <2>6. WaiterTask(p)
      BY <2>1, QuietTask DEF QuietPoints, Points
    <2>7. QED BY <1>0, <2>5, <2>6, DiskFacts DEF WaiterFrame
  <1>3. QED BY <1>1, <1>2

LEMMA WaiterFrames ==
  ASSUME BaseInv, DiskInv, WaiterInv, NEW p \in Procs, Step(p)
  PROVE  WaiterFrame(p)
  <1>1. Calm(p) \/ Special(p)
    BY StepIsRegular, StepCases DEF BaseInv
  <1>2. CASE Calm(p)
    BY <1>2, CalmWaiter
  <1>3. CASE Special(p)
    BY <1>3, WaiterNew, WaiterWaiting, WaiterWaited, WaiterPrep,
       WaiterCommit, WaiterSuper, WaiterDone, WaiterClean, WaiterWalk,
       WaiterRest, WaiterLogSuper
       DEF Special
  <1>4. QED BY <1>1, <1>2, <1>3

LEMMA WaiterStep ==
  ASSUME BaseInv, BaseInv', DiskInv, DiskInv', WaiterInv,
         NEW p \in Procs, Step(p)
  PROVE  WaiterInv'
  BY StepIsRegular, WaiterFrames, WaiterKept DEF BaseInv

LEMMA WaiterIdle ==
  ASSUME BaseInv, WaiterInv, OrderedComplete \/ UNCHANGED vars
  PROVE  WaiterInv'
  <1>1. /\ UNCHANGED <<proc, fsError, disk>> /\ generation' = generation
        /\ \A i \in TransIds : /\ tx'[i].state = tx[i].state
                               /\ tx'[i].aborted = tx[i].aborted
    BY IdleFacts DEF BaseInv, list, SameStates
  <1>2. \A i \in 1..generation : i \in TransIds
    BY Created DEF BaseInv
  <1>3. \A i \in TransIds : /\ Lost(i)' <=> Lost(i)
                            /\ TornDown(i)' <=> TornDown(i)
    BY <1>1 DEF Lost, TornDown, RoleOf, TargetOf
  <1>4. ASSUME NEW q \in Procs
        PROVE  WaiterKnows(q)' /\ FailedIsAborted(q)'
    <2>1. proc[q].cont = "waiter" => proc[q].ref \in TransIds
      BY PointerFacts, <1>2, DiskFacts
         DEF BaseInv, RefShape, RefBounded, ProcState, WaitPoints
    <2>2. WaiterKnows(q)'
      BY <1>1, <1>3, <2>1 DEF WaiterInv, WaiterKnows
    <2>3. ASSUME \/ At(q, "fserror") /\ proc[q].cont = "clean"
                 \/ proc[q].pc \in {"cleanlock", "cleanwait", "cleandel"}
                 \/ RoleOf(q) = "walk"
          PROVE  proc[q].tx \in TransIds
      <3>1. Role(proc[q]) \in {"fail", "failwait", "dead", "walk"}
        BY <2>3, RolePoints DEF RoleOf, At, ErrorPoints
      <3>2. proc[q].tx # 0
        BY <3>1, TaskFacts DEF BaseInv, Shape, Holders, Committers
      <3>3. QED BY <1>2, <3>2, PointerFacts DEF BaseInv
    <2>4. FailedIsAborted(q)'
      BY <1>1, <2>3 DEF WaiterInv, FailedIsAborted, At, RoleOf
    <2>5. QED BY <2>2, <2>4
  <1>5. CommitReturnIsDurable'
    BY <1>1 DEF WaiterInv, CommitReturnIsDurable, At
  <1>6. \A i \in 1..generation' : Lost(i)' => fsError'
    BY <1>1, <1>2, <1>3 DEF WaiterInv
  <1>7. QED BY <1>4, <1>5, <1>6 DEF WaiterInv

LEMMA WaiterInit ==
  ASSUME Init
  PROVE  WaiterInv
  <1>1. /\ generation = 0
        /\ \A p \in Procs : proc[p].pc = "idle" /\ proc[p].cont = "none"
    BY DEF Init, IdleProc, Fresh
  <1>2. \A p \in Procs : RoleOf(p) # "walk"
    BY <1>1, RolePoints DEF RoleOf, WalkPoints
  <1>3. \A p \in Procs : WaiterKnows(p) /\ FailedIsAborted(p)
    BY <1>1, <1>2 DEF WaiterKnows, FailedIsAborted, At
  <1>4. CommitReturnIsDurable
    BY <1>1 DEF CommitReturnIsDurable, At
  <1>5. QED BY <1>1, <1>3, <1>4 DEF WaiterInv

(* What somebody who waits for a commit can rely on: when the transaction  *)
(* looks settled it is on the device, or its abort or the error recorded   *)
(* at the end of the waiter's handle says that it is not.                  *)
THEOREM WaiterInvariant == Spec => [](BaseInv /\ DiskInv /\ WaiterInv)
  <1>1. Init => BaseInv /\ DiskInv /\ WaiterInv
    BY BaseInit, DiskInit, WaiterInit
  <1>2. ASSUME BaseInv, DiskInv, WaiterInv, [Next]_vars
        PROVE  (BaseInv /\ DiskInv /\ WaiterInv)'
    <2>1. BaseInv' /\ DiskInv'
      BY <1>2, BaseStep, DiskNext
    <2>2. WaiterInv'
      BY <1>2, <2>1, WaiterStep, WaiterIdle DEF Next
    <2>3. QED BY <2>1, <2>2
  <1>3. QED BY <1>1, <1>2, PTL DEF Spec

(* When btrfs_commit_transaction() returns 0, to the task that committed   *)
(* or to one that only waited for another task's commit, the transaction   *)
(* is on the device, whatever was aborted or torn down in the meantime.    *)
THEOREM CommitReturn == Spec => []CommitReturnIsDurable
  <1>1. WaiterInv => CommitReturnIsDurable
    BY DEF WaiterInv
  <1>2. QED BY <1>1, WaiterInvariant, PTL

-----------------------------------------------------------------------------
(***************************************************************************)
(* The transactions refine CommitOrder                                     *)
(***************************************************************************)
SameAborts == \A k \in TransIds : tx'[k].aborted = tx[k].aborted

LEMMA AbortsKept ==
  ASSUME tx \in [TransIds -> TxState], NEW i, NEW k, NEW m, NEW n,
         \/ tx' = tx
         \/ tx' = Pin(i)
         \/ tx' = Put(i)
         \/ tx' = [tx EXCEPT ![i].use = @ - 2]
         \/ tx' = [Put(i) EXCEPT ![k].use = @ - 1]
         \/ tx' = [Pin(k) EXCEPT ![i].state = n]
         \/ tx' = [tx EXCEPT ![i].state = n]
         \/ tx' = [tx EXCEPT ![i].ext = n]
         \/ tx' = [tx EXCEPT ![i].pending = n]
         \/ tx' = [tx EXCEPT ![i].writers = m, ![i].ext = n]
  PROVE  SameAborts
  <1> SUFFICES ASSUME NEW j \in TransIds
               PROVE  tx'[j].aborted = tx[j].aborted
    BY DEF SameAborts
  <1>1. CASE tx' = tx
    BY <1>1 DEF TxState
  <1>2. CASE tx' = Pin(i)
    BY <1>2 DEF Pin, TxState
  <1>3. CASE tx' = Put(i)
    BY <1>3 DEF Put, TxState
  <1>4. CASE tx' = [tx EXCEPT ![i].use = @ - 2]
    BY <1>4 DEF TxState
  <1>5. CASE tx' = [Put(i) EXCEPT ![k].use = @ - 1]
    BY <1>5 DEF Put, TxState
  <1>6. CASE tx' = [Pin(k) EXCEPT ![i].state = n]
    BY <1>6 DEF Pin, TxState
  <1>7. CASE tx' = [tx EXCEPT ![i].state = n]
    BY <1>7 DEF TxState
  <1>8. CASE tx' = [tx EXCEPT ![i].ext = n]
    BY <1>8 DEF TxState
  <1>9. CASE tx' = [tx EXCEPT ![i].pending = n]
    BY <1>9 DEF TxState
  <1>10. CASE tx' = [tx EXCEPT ![i].writers = m, ![i].ext = n]
    BY <1>10 DEF TxState
  <1>11. QED
    BY <1>1, <1>2, <1>3, <1>4, <1>5, <1>6, <1>7, <1>8, <1>9, <1>10

SameEpochs ==
  /\ running' = running /\ generation' = generation /\ disk' = disk
  /\ fsError' = fsError /\ SameAborts

LEMMA JoinAborts ==
  ASSUME TypeOK, NEW p \in Procs, JoinRunning(p)
  PROVE  SameAborts
  <1>1. tx \in [TransIds -> TxState]
    BY DEF TypeOK
  <1>2. CASE UNCHANGED tx
    BY <1>2 DEF SameAborts
  <1>3. CASE tx' = [tx EXCEPT ![running].use = @ + 1,
                              ![running].writers = @ + 1,
                              ![running].ext =
                                 @ + One(proc[p].type \in EXTWRITERS)]
    BY <1>1, <1>3 DEF SameAborts, TxState
  <1>4. QED BY <1>2, <1>3 DEF JoinRunning

LEMMA QuietEpochs ==
  ASSUME CoreInv, NEW p \in Procs,
         \/ (\E op \in Ops \ {"WAIT"} : StartRequest(p, op))
         \/ (\E i \in 0..generation : WaitRequest(p, i))
         \/ (\E b \in BOOLEAN : CommitRequest(p, b))
         \/ SyncLogRequest(p) \/ AbortRequest(p) \/ EndRequest(p)
         \/ StartEntry(p) \/ Joined(p) \/ NothingToJoin(p) \/ Acknowledge(p)
         \/ CommitEntry(p) \/ NoExtwriters(p) \/ NoOtherWriters(p)
         \/ CleanupWait(p) \/ KthreadAttach(p) \/ KthreadAttached(p)
         \/ KthreadError(p) \/ KthreadDrain(p) \/ SyncLogLock(p)
         \/ CommitDoing(p) \/ CommitUnlist(p) \/ CleanupUnlist(p)
         \/ WaitCurrentTrans(p) \/ CurrentTransUnblocked(p)
         \/ CommitAsyncRequest(p) \/ AsyncCommitStarted(p) \/ EndPut(p)
         \/ FindCommit(p) \/ CommitReached(p) \/ WaitForEarlier(p)
         \/ Waited(p) \/ CommitPut(p) \/ PrevCommitted(p)
         \/ NoPendingOrdered(p) \/ CommitFinish(p) \/ CleanupLock(p)
         \/ CleanupOne(p) \/ DropExtwriter(p) \/ ChargeOrdered(p)
         \/ CommitPrep(p) \/ KthreadScan(p) \/ EndTransaction(p)
         \/ JoinTransaction(p)
  PROVE  SameEpochs
  <1>0. tx \in [TransIds -> TxState]
    BY DEF CoreInv, TypeOK
  <1>a. UNCHANGED shared => SameEpochs
    BY DEF SameEpochs, SameAborts, shared, list, durable
  <1>b. UNCHANGED <<list, fsError, disk>> /\ SameAborts => SameEpochs
    BY DEF SameEpochs, list
  <1>1. ASSUME NEW op \in Ops \ {"WAIT"}, StartRequest(p, op)
        PROVE  SameEpochs
    BY <1>1, <1>a DEF StartRequest
  <1>2. ASSUME NEW i \in 0..generation, WaitRequest(p, i)
        PROVE  SameEpochs
    BY <1>2, <1>a DEF WaitRequest
  <1>3. ASSUME NEW b \in BOOLEAN, CommitRequest(p, b)
        PROVE  SameEpochs
    BY <1>3, <1>a DEF CommitRequest
  <1>4. CASE SyncLogRequest(p)
    BY <1>4, <1>a DEF SyncLogRequest
  <1>5. CASE AbortRequest(p)
    BY <1>5, <1>a DEF AbortRequest
  <1>6. CASE EndRequest(p)
    BY <1>6, <1>a DEF EndRequest
  <1>7. CASE StartEntry(p)
    BY <1>7, <1>a DEF StartEntry
  <1>8. CASE Joined(p)
    BY <1>8, <1>a DEF Joined
  <1>9. CASE NothingToJoin(p)
    BY <1>9, <1>a DEF NothingToJoin
  <1>10. CASE Acknowledge(p)
    BY <1>10, <1>a DEF Acknowledge
  <1>11. CASE CommitEntry(p)
    BY <1>11, <1>a DEF CommitEntry
  <1>12. CASE NoExtwriters(p)
    BY <1>12, <1>a DEF NoExtwriters
  <1>13. CASE NoOtherWriters(p)
    BY <1>13, <1>a DEF NoOtherWriters
  <1>14. CASE CleanupWait(p)
    BY <1>14, <1>a DEF CleanupWait
  <1>15. CASE KthreadAttach(p)
    BY <1>15, <1>a DEF KthreadAttach
  <1>16. CASE KthreadAttached(p)
    BY <1>16, <1>a DEF KthreadAttached
  <1>17. CASE KthreadError(p)
    BY <1>17, <1>a DEF KthreadError
  <1>18. CASE KthreadDrain(p)
    BY <1>18, <1>a DEF KthreadDrain
  <1>19. CASE SyncLogLock(p)
    BY <1>19 DEF SyncLogLock, SameEpochs, SameAborts, list
  <1>20. CASE CommitDoing(p)
    BY <1>20 DEF CommitDoing, SameEpochs, SameAborts, list
  <1>21. CASE CommitUnlist(p)
    BY <1>21 DEF CommitUnlist, SameEpochs, SameAborts, durable
  <1>22. CASE CleanupUnlist(p)
    BY <1>22 DEF CleanupUnlist, SameEpochs, SameAborts, durable
  <1>23. CASE WaitCurrentTrans(p)
    <2>1. tx' = tx \/ tx' = Pin(running)
      BY <1>23 DEF WaitCurrentTrans
    <2>2. UNCHANGED <<list, fsError, disk>>
      BY <1>23 DEF WaitCurrentTrans, durable
    <2>3. QED BY <1>0, <1>b, <2>1, <2>2, AbortsKept
  <1>24. CASE CurrentTransUnblocked(p)
    <2>1. tx' = Put(proc[p].ref)
      BY <1>24 DEF CurrentTransUnblocked
    <2>2. UNCHANGED <<list, fsError, disk>>
      BY <1>24 DEF CurrentTransUnblocked, durable
    <2>3. QED BY <1>0, <1>b, <2>1, <2>2, AbortsKept
  <1>25. CASE CommitAsyncRequest(p)
    <2>1. tx' = Pin(proc[p].tx)
      BY <1>25 DEF CommitAsyncRequest
    <2>2. UNCHANGED <<list, fsError, disk>>
      BY <1>25 DEF CommitAsyncRequest, durable
    <2>3. QED BY <1>0, <1>b, <2>1, <2>2, AbortsKept
  <1>26. CASE AsyncCommitStarted(p)
    <2>1. tx' = Put(proc[p].ref)
      BY <1>26 DEF AsyncCommitStarted
    <2>2. UNCHANGED <<list, fsError, disk>>
      BY <1>26 DEF AsyncCommitStarted, durable
    <2>3. QED BY <1>0, <1>b, <2>1, <2>2, AbortsKept
  <1>27. CASE EndPut(p)
    <2>1. tx' = Put(proc[p].tx)
      BY <1>27 DEF EndPut
    <2>2. UNCHANGED <<list, fsError, disk>>
      BY <1>27 DEF EndPut, durable
    <2>3. QED BY <1>0, <1>b, <2>1, <2>2, AbortsKept
  <1>28. CASE FindCommit(p)
    <2>1. \/ tx' = tx \/ tx' = Put(proc[p].pin)
          \/ \E i : tx' = Pin(i)
      BY <1>28 DEF FindCommit
    <2>2. UNCHANGED <<list, fsError, disk>>
      BY <1>28 DEF FindCommit, durable
    <2>3. QED BY <1>0, <1>b, <2>1, <2>2, AbortsKept
  <1>29. CASE CommitReached(p)
    <2>1. tx' = tx \/ tx' = Put(proc[p].wtx)
      BY <1>29 DEF CommitReached
    <2>2. UNCHANGED <<list, fsError, disk>>
      BY <1>29 DEF CommitReached, durable
    <2>3. QED BY <1>0, <1>b, <2>1, <2>2, AbortsKept
  <1>30. CASE WaitForEarlier(p)
    <2>1. tx' = tx \/ \E i : tx' = Pin(i)
      BY <1>30 DEF WaitForEarlier
    <2>2. UNCHANGED <<list, fsError, disk>>
      BY <1>30 DEF WaitForEarlier, durable
    <2>3. QED BY <1>0, <1>b, <2>1, <2>2, AbortsKept
  <1>31. CASE Waited(p)
    <2>1. \/ tx' = Put(proc[p].ref)
          \/ tx' = [tx EXCEPT ![proc[p].ref].use = @ - 2]
          \/ tx' = [Put(proc[p].ref) EXCEPT ![proc[p].pin].use = @ - 1]
      BY <1>31 DEF Waited
    <2>2. UNCHANGED <<list, fsError, disk>>
      BY <1>31 DEF Waited, durable
    <2>3. QED BY <1>0, <1>b, <2>1, <2>2, AbortsKept
  <1>32. CASE CommitPut(p)
    <2>1. tx' = [tx EXCEPT ![proc[p].tx].use = @ - 2]
      BY <1>32 DEF CommitPut
    <2>2. UNCHANGED <<list, fsError, disk>>
      BY <1>32 DEF CommitPut, durable
    <2>3. QED BY <1>0, <1>b, <2>1, <2>2, AbortsKept
  <1>33. CASE PrevCommitted(p)
    <2>1. \E n : tx' = [tx EXCEPT ![proc[p].tx].state = n]
      BY <1>33 DEF PrevCommitted
    <2>2. UNCHANGED <<list, fsError, disk>>
      BY <1>33 DEF PrevCommitted, durable
    <2>3. QED BY <1>0, <1>b, <2>1, <2>2, AbortsKept
  <1>34. CASE NoPendingOrdered(p)
    <2>1. \E n : tx' = [tx EXCEPT ![proc[p].tx].state = n]
      BY <1>34 DEF NoPendingOrdered
    <2>2. UNCHANGED <<list, fsError, disk>>
      BY <1>34 DEF NoPendingOrdered, durable
    <2>3. QED BY <1>0, <1>b, <2>1, <2>2, AbortsKept
  <1>35. CASE CommitFinish(p)
    <2>1. \E n : tx' = [tx EXCEPT ![proc[p].tx].state = n]
      BY <1>35 DEF CommitFinish
    <2>2. UNCHANGED <<list, fsError, disk>>
      BY <1>35 DEF CommitFinish, durable
    <2>3. QED BY <1>0, <1>b, <2>1, <2>2, AbortsKept
  <1>36. CASE CleanupLock(p)
    <2>1. tx' = tx \/ \E n : tx' = [tx EXCEPT ![proc[p].tx].state = n]
      BY <1>36 DEF CleanupLock
    <2>2. UNCHANGED <<list, fsError, disk>>
      BY <1>36 DEF CleanupLock, durable
    <2>3. QED BY <1>0, <1>b, <2>1, <2>2, AbortsKept
  <1>37. CASE CleanupOne(p)
    <2>1. \E n : tx' = [tx EXCEPT ![proc[p].doom].state = n]
      BY <1>37 DEF CleanupOne, CleanupState
    <2>2. UNCHANGED <<list, fsError, disk>>
      BY <1>37 DEF CleanupOne, CleanupState, durable
    <2>3. QED BY <1>0, <1>b, <2>1, <2>2, AbortsKept
  <1>38. CASE DropExtwriter(p)
    <2>1. \E n : tx' = [tx EXCEPT ![proc[p].tx].ext = n]
      BY <1>38 DEF DropExtwriter
    <2>2. UNCHANGED <<list, fsError, disk>>
      BY <1>38 DEF DropExtwriter, durable
    <2>3. QED BY <1>0, <1>b, <2>1, <2>2, AbortsKept
  <1>39. CASE ChargeOrdered(p)
    <2>1. \E n : tx' = [tx EXCEPT ![proc[p].tx].pending = n]
      BY <1>39 DEF ChargeOrdered
    <2>2. UNCHANGED <<list, fsError, disk>>
      BY <1>39 DEF ChargeOrdered, durable
    <2>3. QED BY <1>0, <1>b, <2>1, <2>2, AbortsKept
  <1>40. CASE CommitPrep(p)
    <2>1. \/ tx' = Pin(proc[p].tx)
          \/ \E j \in listed :
                tx' = [Pin(j) EXCEPT ![proc[p].tx].state = COMMIT_PREP]
          \/ tx' = [tx EXCEPT ![proc[p].tx].state = COMMIT_PREP]
          \/ tx' = [tx EXCEPT ![proc[p].tx].state = COMMIT_START]
      BY <1>40, CommitPrepCases
    <2>2. UNCHANGED <<list, fsError, disk>>
      BY <1>40 DEF CommitPrep, durable
    <2>3. QED BY <1>0, <1>b, <2>1, <2>2, AbortsKept
  <1>41. CASE KthreadScan(p)
    <2>1. \/ tx' = tx \/ \E i : tx' = Pin(i)
          \/ \E i : tx' = [tx EXCEPT ![i].state = COMMIT_DOING]
      BY <1>41 DEF KthreadScan
    <2>2. UNCHANGED <<list, fsError, disk>>
      BY <1>41 DEF KthreadScan, durable
    <2>3. QED BY <1>0, <1>b, <2>1, <2>2, AbortsKept
  <1>42. CASE EndTransaction(p)
    <2>1. PICK m, n : tx' = [tx EXCEPT ![proc[p].tx].writers = m,
                                       ![proc[p].tx].ext = n]
      BY <1>42 DEF EndTransaction
    <2>2. UNCHANGED <<list, fsError, disk>>
      BY <1>42 DEF EndTransaction, durable
    <2>3. QED BY <1>0, <1>b, <2>1, <2>2, AbortsKept
  <1>43. CASE JoinTransaction(p)
    <2>1. SameAborts
      <3>1. CASE tx' = tx
        BY <3>1 DEF SameAborts
      <3>2. CASE tx' # tx
        BY <1>43, <3>2, JoinAborts DEF JoinTransaction, CoreInv
      <3>3. QED BY <3>1, <3>2
    <2>2. UNCHANGED <<list, fsError, disk>>
      BY <1>43 DEF JoinTransaction, durable
    <2>3. QED BY <1>b, <2>1, <2>2
  <1>44. QED
    BY <1>1, <1>2, <1>3, <1>4, <1>5, <1>6, <1>7, <1>8, <1>9, <1>10, <1>11,
       <1>12, <1>13, <1>14, <1>15, <1>16, <1>17, <1>18, <1>19, <1>20,
       <1>21, <1>22, <1>23, <1>24, <1>25, <1>26, <1>27, <1>28, <1>29,
       <1>30, <1>31, <1>32, <1>33, <1>34, <1>35, <1>36, <1>37, <1>38,
       <1>39, <1>40, <1>41, <1>42, <1>43

LEMMA QuietStutters ==
  ASSUME SameEpochs
  PROVE  UNCHANGED Abstract!vars
  <1>1. {i \in TransIds : tx'[i].aborted} = {i \in TransIds : tx[i].aborted}
    BY DEF SameEpochs, SameAborts
  <1>2. QED BY <1>1 DEF SameEpochs, Abstract!vars

(* Nobody aborts a transaction whose trees were switched. *)
LEMMA AbortExcludes ==
  ASSUME BaseInv, NEW p \in Procs, AbortTransaction(p),
         NEW q \in Procs, proc[q].pc \in SuperPoints
  PROVE  /\ proc[p].tx # proc[q].tx
         /\ proc[q].tx \in TransIds
  <1> USE DEF BaseInv
  <1>1. proc[p].pc = "abort"
    BY DEF AbortTransaction, At
  <1>2. /\ RoleOf(q) \in {"alone", "writing"} /\ proc[q].tx \in TransIds
        /\ TargetOf(q) = proc[q].tx
        /\ RoleOf(q) = "writing" => proc[q].tx # running
    <2>1. Role(proc[q]) \in {"alone", "writing"}
      BY RolePoints DEF SuperPoints
    <2>2. QED
      BY <2>1, CommitterFacts
         DEF SuperPoints, CommitPoints, OwnedPlace, RoleOf, TargetOf
  <1>3. RoleOf(p) \in {"handle", "fail"} /\ TargetOf(p) = proc[p].tx
    <2>1. Role(proc[p]) \in {"handle", "fail"}
      BY <1>1, RolePoints DEF ErrorPoints
    <2>2. QED
      BY <2>1, TaskFacts, TargetOfRole
         DEF RoleOf, TargetOf, Holders, Committers
  <1>4. CASE RoleOf(p) = "handle"
    <2>1. proc[p].tx = running
      BY <1>3, <1>4 DEF CoreInv, RoleInv, HandlesAreRunning
    <2>2. CASE RoleOf(q) = "alone"
      <3>1. proc[q].pc = "unblock"
        BY <2>2, RolePoints DEF SuperPoints, RoleOf
      <3>2. QED BY <1>4, <3>1, HandleExcludes
    <2>3. QED BY <1>2, <2>1, <2>2
  <1>5. CASE RoleOf(p) = "fail"
    BY <1>2, <1>3, <1>5 DEF CoreInv, RoleInv, OneOwner, Owners, Committers
  <1>6. QED BY <1>2, <1>3, <1>4, <1>5

(* Only created transactions are aborted, and none whose super block is    *)
(* about to be written.                                                    *)
AbortInv ==
  /\ \A i \in TransIds : tx[i].aborted => i <= generation
  /\ \A q \in Procs : proc[q].pc \in SuperPoints => ~tx[proc[q].tx].aborted

(* The steps that are one of CommitOrder. *)
LEMMA MovedAborts ==
  ASSUME CoreInv, NEW p \in Procs,
         \/ HandleFsError(p) \/ CommitUnblock(p) \/ WriteBlocks(p)
         \/ WriteSuper(p) \/ SyncLogSuper(p) \/ CleanupDone(p)
  PROVE  SameAborts /\ generation' = generation
  <1>0. tx \in [TransIds -> TxState]
    BY DEF CoreInv, TypeOK
  <1>1. CASE HandleFsError(p)
    BY <1>1 DEF HandleFsError, SameAborts, list
  <1>2. CASE CommitUnblock(p)
    BY <1>0, <1>2, AbortsKept DEF CommitUnblock
  <1>3. CASE WriteBlocks(p)
    BY <1>3 DEF WriteBlocks, SameAborts, list
  <1>4. CASE WriteSuper(p)
    <2>1. tx' = tx \/ \E n : tx' = [tx EXCEPT ![proc[p].tx].state = n]
      BY <1>4 DEF WriteSuper
    <2>2. QED BY <1>0, <1>4, <2>1, AbortsKept DEF WriteSuper, list
  <1>5. CASE SyncLogSuper(p)
    BY <1>5 DEF SyncLogSuper, SameAborts, list
  <1>6. CASE CleanupDone(p)
    <2>1. \/ tx' = [tx EXCEPT ![proc[p].doom].use = @ - 2]
          \/ tx' = Put(proc[p].doom)
      BY <1>6 DEF CleanupDone, Put
    <2>2. QED BY <1>0, <1>6, <2>1, AbortsKept DEF CleanupDone
  <1>7. QED BY <1>1, <1>2, <1>3, <1>4, <1>5, <1>6

LEMMA SameAbortInv ==
  ASSUME BaseInv, AbortInv, NEW p \in Procs, OthersStay(p), SameAborts,
         generation' = generation,
         proc'[p].pc \in SuperPoints =>
            /\ proc'[p].tx \in TransIds
            /\ ~tx[proc'[p].tx].aborted
  PROVE  AbortInv'
  <1>1. \A i \in TransIds : tx'[i].aborted => i <= generation'
    BY DEF AbortInv, SameAborts
  <1>2. ASSUME NEW q \in Procs, proc'[q].pc \in SuperPoints
        PROVE  ~tx'[proc'[q].tx].aborted
    <2>1. CASE q = p
      BY <1>2, <2>1 DEF SameAborts
    <2>2. CASE q # p
      <3>1. proc'[q] = proc[q]
        BY <2>2 DEF OthersStay
      <3>2. proc[q].tx \in TransIds
        BY <1>2, <3>1, CommitterFacts DEF BaseInv, SuperPoints, CommitPoints
      <3>3. QED BY <1>2, <3>1, <3>2 DEF AbortInv, SameAborts
    <2>3. QED BY <2>1, <2>2
  <1>3. QED BY <1>1, <1>2 DEF AbortInv

LEMMA EpochCases ==
  ASSUME CoreInv, NEW p \in Procs, Step(p)
  PROVE  \/ SameEpochs
         \/ NewTransaction(p) \/ AbortTransaction(p) \/ HandleFsError(p)
         \/ CommitUnblock(p) \/ WriteBlocks(p) \/ WriteSuper(p)
         \/ SyncLogSuper(p) \/ CleanupDone(p)
  <1>1. CASE Requests(p) \/ LogLocks(p)
    BY <1>1, QuietEpochs DEF Requests, LogLocks
  <1>2. CASE Release(p)
    BY <1>2, QuietEpochs DEF Release
  <1>3. CASE Proceed(p)
    BY <1>3, QuietEpochs DEF Proceed
  <1>4. QED BY <1>1, <1>2, <1>3 DEF Step

(* A new transaction opens an epoch, or nothing happens. *)
LEMMA NewEpoch ==
  ASSUME BaseInv, AbortInv, NEW p \in Procs, NewTransaction(p)
  PROVE  SameEpochs \/ (Abstract!Open /\ SameAborts)
  <1> USE DEF BaseInv
  <1>1. fsError' = fsError /\ disk' = disk
    BY DEF NewTransaction, durable
  <1>2. CASE UNCHANGED list
    <2>1. SameAborts
      <3>1. CASE tx' = tx
        BY <3>1 DEF SameAborts
      <3>2. CASE tx' # tx
        <4>1. generation' = generation /\ generation \in Nat
          BY <1>2, Created DEF list
        <4>2. JoinRunning(p)
          BY <3>2, <4>1 DEF NewTransaction
        <4>3. QED BY <4>2, JoinAborts DEF CoreInv
      <3>3. QED BY <3>1, <3>2
    <2>2. QED BY <1>1, <1>2, <2>1 DEF SameEpochs, list
  <1>3. CASE ~UNCHANGED list
    <2>1. /\ ~fsError /\ running = 0 /\ generation < MaxTrans
          /\ generation' = generation + 1 /\ running' = generation + 1
          /\ tx' = [tx EXCEPT ![generation + 1] =
                           Tx(1, One(proc[p].type \in EXTWRITERS), 2)]
      BY <1>3 DEF NewTransaction, list
    <2>2. generation \in Nat /\ tx \in [TransIds -> TxState]
      BY Created DEF CoreInv, TypeOK
    <2>3. SameAborts
      <3> SUFFICES ASSUME NEW k \in TransIds
                   PROVE  tx'[k].aborted = tx[k].aborted
        BY DEF SameAborts
      <3>1. CASE k # generation + 1
        BY <2>1, <2>2, <3>1
      <3>2. CASE k = generation + 1
        <4>1. tx'[k].aborted = FALSE
          BY <2>1, <2>2, <3>2 DEF Tx
        <4>2. ~(k <= generation)
          BY <2>2, <3>2
        <4>3. tx[k].aborted = FALSE
          BY <2>2, <4>2 DEF AbortInv, TxState
        <4>4. QED BY <4>1, <4>3
      <3>3. QED BY <3>1, <3>2
    <2>4. {i \in TransIds : tx'[i].aborted} = {i \in TransIds : tx[i].aborted}
      BY <2>3 DEF SameAborts
    <2>5. Abstract!Open
      BY <1>1, <2>1, <2>4 DEF Abstract!Open
    <2>6. QED BY <2>3, <2>5
  <1>4. QED BY <1>2, <1>3

LEMMA AbortStep ==
  ASSUME BaseInv, DiskInv, AbortInv, NEW p \in Procs, Step(p)
  PROVE  AbortInv'
  <1> USE DEF BaseInv
  <1>1. /\ Regular(p) /\ OthersStay(p) /\ (Calm(p) \/ Special(p))
    BY StepIsRegular, StepCases DEF Regular
  <1>2. /\ generation \in Nat /\ tx \in [TransIds -> TxState]
        /\ proc \in [Procs -> ProcState] /\ proc[p] \in ProcState
    BY Created, TaskFacts DEF CoreInv, TypeOK
  <1>3. proc'[p].pc \in SuperPoints =>
           proc'[p].tx \in TransIds /\ ~tx[proc'[p].tx].aborted
    <2>1. CASE OffDisk(p)
      BY <2>1 DEF OffDisk
    <2>2. CASE SyncLogLock(p) \/ SyncLogSuper(p)
      BY <1>2, <2>2 DEF SyncLogLock, SyncLogSuper, Goto, ProcState, SuperPoints
    <2>3. CASE NewTransaction(p) /\ running = 0
      <3>1. proc'[p].pc \in {"joined", "idle", "waitcur"}
        BY <1>2, <2>3
           DEF NewTransaction, JoinRunning, Return, Returned, IdleProc, Fresh,
               ProcState
      <3>2. QED BY <3>1 DEF SuperPoints
    <2>4. CASE CommitDoing(p)
      <3>1. proc[p].tx \in TransIds
        BY <2>4, CommitterFacts DEF CommitDoing, At, CommitPoints
      <3>2. CASE ~tx[proc[p].tx].aborted
        BY <1>2, <2>4, <3>1, <3>2 DEF CommitDoing, Goto, Fail, ProcState
      <3>3. CASE tx[proc[p].tx].aborted
        BY <1>2, <2>4, <3>3 DEF CommitDoing, Fail, ProcState, SuperPoints
      <3>4. QED BY <3>2, <3>3
    <2>5. CASE CommitUnblock(p) \/ WriteBlocks(p) \/ WriteSuper(p)
      <3>1. proc[p].pc \in SuperPoints
        BY <2>5 DEF CommitUnblock, WriteBlocks, WriteSuper, At, SuperPoints
      <3>2. proc[p].tx \in TransIds /\ ~tx[proc[p].tx].aborted
        BY <3>1, CommitterFacts DEF SuperPoints, CommitPoints, AbortInv
      <3>3. proc'[p].tx = proc[p].tx
        BY <1>2, <2>5
           DEF CommitUnblock, WriteBlocks, WriteSuper, Goto, Fail, ProcState
      <3>4. QED BY <3>2, <3>3
    <2>6. QED
      BY <1>1, <2>1, <2>2, <2>3, <2>4, <2>5, CalmOffDisk, RestOffDisk
  <1>4. CASE SameAborts /\ generation' = generation
    BY <1>1, <1>3, <1>4, SameAbortInv
  <1>5. CASE NewTransaction(p)
    <2>1. CASE SameEpochs
      BY <1>4, <2>1 DEF SameEpochs
    <2>2. CASE ~SameEpochs
      <3>1. SameAborts /\ generation' = generation + 1
        BY <1>5, <2>2, NewEpoch DEF Abstract!Open
      <3>2. \A i \in TransIds : tx'[i].aborted => i <= generation'
        BY <1>2, <3>1 DEF SameAborts, AbortInv, TransIds
      <3>3. ASSUME NEW q \in Procs, proc'[q].pc \in SuperPoints
            PROVE  ~tx'[proc'[q].tx].aborted
        <4>1. CASE q = p
          BY <1>3, <3>1, <3>3, <4>1 DEF SameAborts
        <4>2. CASE q # p
          <5>1. proc'[q] = proc[q]
            BY <1>1, <4>2 DEF OthersStay
          <5>2. proc[q].tx \in TransIds
            BY <3>3, <5>1, CommitterFacts DEF SuperPoints, CommitPoints
          <5>3. QED BY <3>1, <3>3, <5>1, <5>2 DEF AbortInv, SameAborts
        <4>3. QED BY <4>1, <4>2
      <3>4. QED BY <3>2, <3>3 DEF AbortInv
    <2>3. QED BY <2>1, <2>2
  <1>6. CASE AbortTransaction(p)
    <2> DEFINE i == proc[p].tx
    <2>1. /\ tx' = [tx EXCEPT ![i].aborted = TRUE]
          /\ generation' = generation /\ proc'[p].pc = "fserror"
      BY <1>2, <1>6 DEF AbortTransaction, Goto, list, ProcState
    <2>2. i <= generation
      BY <1>2, PointerFacts DEF ProcState
    <2>3. ASSUME NEW k \in TransIds
          PROVE  /\ k # i => tx'[k].aborted = tx[k].aborted
                 /\ tx'[k].aborted => k <= generation
      BY <1>2, <2>1, <2>2, <2>3 DEF AbortInv, TxState
    <2>4. ASSUME NEW q \in Procs, proc'[q].pc \in SuperPoints
          PROVE  ~tx'[proc'[q].tx].aborted
      <3>1. q # p
        BY <2>1, <2>4 DEF SuperPoints
      <3>2. proc'[q] = proc[q]
        BY <1>1, <3>1 DEF OthersStay
      <3>3. proc[q].tx # i /\ proc[q].tx \in TransIds
        BY <1>6, <2>4, <3>2, AbortExcludes
      <3>4. QED BY <2>3, <2>4, <3>2, <3>3 DEF AbortInv
    <2>5. QED BY <2>1, <2>3, <2>4 DEF AbortInv
  <1>7. QED
    BY <1>4, <1>5, <1>6, EpochCases, MovedAborts DEF SameEpochs

LEMMA EpochStep ==
  ASSUME BaseInv, DiskInv, AbortInv, NEW p \in Procs, Step(p)
  PROVE  Abstract!Next \/ UNCHANGED Abstract!vars
  <1> USE DEF BaseInv
  <1>0. /\ generation \in Nat /\ tx \in [TransIds -> TxState]
        /\ proc \in [Procs -> ProcState] /\ proc[p] \in ProcState
    BY Created, TaskFacts DEF CoreInv, TypeOK
  <1> DEFINE gone(t) == {i \in TransIds : t[i].aborted}
  <1>a. SameAborts => gone(tx') = gone(tx)
    BY DEF SameAborts
  <1>1. CASE SameEpochs
    BY <1>1, QuietStutters
  <1>2. CASE NewTransaction(p)
    BY <1>2, NewEpoch, QuietStutters DEF Abstract!Next
  <1>3. CASE AbortTransaction(p)
    <2> DEFINE i == proc[p].tx
    <2>1. i \in 1..generation
      <3>1. Role(proc[p]) \in {"handle", "fail"}
        BY <1>3, RolePoints DEF AbortTransaction, At, ErrorPoints
      <3>2. i # 0
        BY <3>1, TaskFacts, TargetOfRole DEF Holders, Committers
      <3>3. QED BY <3>2, PointerFacts
    <2>2. /\ tx' = [tx EXCEPT ![i].aborted = TRUE] /\ i \in TransIds
          /\ UNCHANGED <<running, generation, fsError, disk>>
      BY <1>3, <2>1, Created DEF AbortTransaction, list, durable
    <2>3. gone(tx') = gone(tx) \cup {i}
      <3>1. \A k \in TransIds : tx'[k].aborted <=> tx[k].aborted \/ k = i
        BY <1>0, <2>2 DEF TxState
      <3>2. QED BY <2>2, <3>1
    <2>4. PICK k \in 1..generation : k = i
      BY <2>1
    <2>5. Abstract!Lose(k)
      BY <2>2, <2>3, <2>4 DEF Abstract!Lose
    <2>6. QED BY <2>5 DEF Abstract!Next
  <1>4. CASE HandleFsError(p)
    <2>1. Abstract!Die
      BY <1>4, <1>a, MovedAborts DEF HandleFsError, list, Abstract!Die
    <2>2. QED BY <2>1 DEF Abstract!Next
  <1>5. CASE CommitUnblock(p)
    <2>1. running # 0
      <3>1. Role(proc[p]) = "alone"
        BY <1>5, RolePoints DEF CommitUnblock, At
      <3>2. proc[p].tx = running /\ proc[p].tx \in TransIds
        BY <1>5, <3>1, CommitterFacts
           DEF CommitUnblock, At, CommitPoints, OwnedPlace
      <3>3. QED BY <3>2 DEF TransIds
    <2>2. Abstract!Close
      BY <1>5, <1>a, <2>1, MovedAborts DEF CommitUnblock, Abstract!Close
    <2>3. QED BY <2>2 DEF Abstract!Next
  <1>6. CASE WriteBlocks(p)
    <2>1. SameAborts /\ UNCHANGED <<running, generation, disk>>
      BY <1>6, MovedAborts DEF WriteBlocks, list
    <2>2. CASE fsError' = fsError
      BY <2>1, <2>2, QuietStutters DEF SameEpochs
    <2>3. CASE fsError' = TRUE
      BY <1>a, <2>1, <2>3 DEF Abstract!Die, Abstract!Next
    <2>4. QED BY <1>6, <2>2, <2>3 DEF WriteBlocks
  <1>7. CASE WriteSuper(p)
    <2> DEFINE i == proc[p].tx
    <2>1. /\ proc[p].pc = "super" /\ UNCHANGED <<running, generation>>
          /\ SameAborts
      BY <1>7, MovedAborts DEF WriteSuper, At, list
    <2>2. /\ disk.gen = i - 1 /\ superForCommit.gen = i
      BY <2>1 DEF DiskInv, DiskIsNext, SuperIsPrepared, SuperOf, At
    <2>3. i # running /\ i \in TransIds
      <3>1. Role(proc[p]) = "writing"
        BY <2>1, RolePoints
      <3>2. QED
        BY <2>1, <3>1, CommitterFacts DEF CommitPoints, OwnedPlace
    <2>4. i \in 1..generation
      BY <2>3, PointerFacts DEF TransIds
    <2>5. ~tx[i].aborted
      BY <2>1 DEF AbortInv, SuperPoints
    <2>6. CASE disk' = superForCommit
      <3>1. disk'.gen = disk.gen + 1 /\ disk.gen + 1 = i
            /\ disk.gen < generation
        BY <1>0, <2>2, <2>4, <2>6
      <3>2. disk.gen + 1 \notin gone(tx)
        BY <2>5, <3>1
      <3>3. fsError' \in {fsError, TRUE}
        BY <1>7 DEF WriteSuper
      <3>4. Abstract!Persist
        BY <1>a, <2>1, <2>3, <3>1, <3>2, <3>3 DEF Abstract!Persist
      <3>5. QED BY <3>4 DEF Abstract!Next
    <2>7. CASE disk' = disk /\ fsError' = TRUE
      BY <1>a, <2>1, <2>7 DEF Abstract!Die, Abstract!Next
    <2>8. QED BY <1>7, <2>6, <2>7 DEF WriteSuper
  <1>8. CASE SyncLogSuper(p)
    <2>1. /\ proc[p].pc = "logsuper" /\ UNCHANGED <<running, generation>>
          /\ SameAborts /\ disk' \in {disk, superForCommit}
      BY <1>8, MovedAborts DEF SyncLogSuper, At, list
    <2>2. disk'.gen = disk.gen
      BY <2>1 DEF DiskInv, SuperIsPrepared, At
    <2>3. CASE fsError' = fsError
      BY <1>a, <2>1, <2>2, <2>3 DEF Abstract!vars
    <2>4. CASE fsError' = TRUE
      BY <1>a, <2>1, <2>2, <2>4 DEF Abstract!Die, Abstract!Next
    <2>5. QED BY <1>8, <2>3, <2>4 DEF SyncLogSuper
  <1>9. CASE CleanupDone(p)
    <2> DEFINE i == proc[p].doom
    <2>1. /\ UNCHANGED <<generation, fsError, disk>> /\ SameAborts
          /\ running' = IF running = i THEN 0 ELSE running
      BY <1>9, MovedAborts DEF CleanupDone, durable
    <2>2. i # 0
      BY <1>9, WalkerFacts DEF CleanupDone, At, WalkPoints
    <2>3. CASE running = i
      BY <1>a, <2>1, <2>2, <2>3 DEF Abstract!Close, Abstract!Next
    <2>4. CASE running # i
      BY <2>1, <2>4, QuietStutters DEF SameEpochs
    <2>5. QED BY <2>3, <2>4
  <1>10. QED
    BY <1>1, <1>2, <1>3, <1>4, <1>5, <1>6, <1>7, <1>8, <1>9, EpochCases

(* A step without a task. *)
LEMMA EpochIdle ==
  ASSUME BaseInv, AbortInv, OrderedComplete \/ UNCHANGED vars
  PROVE  AbortInv' /\ UNCHANGED Abstract!vars
  <1>1. /\ UNCHANGED <<proc, list, fsError, disk>> /\ SameAborts
    BY IdleFacts DEF BaseInv, SameAborts
  <1>2. UNCHANGED Abstract!vars
    BY <1>1, QuietStutters DEF SameEpochs, list
  <1>3. \A i \in TransIds : tx'[i].aborted => i <= generation'
    BY <1>1 DEF SameAborts, AbortInv, list
  <1>4. ASSUME NEW q \in Procs, proc'[q].pc \in SuperPoints
        PROVE  ~tx'[proc'[q].tx].aborted
    <2>1. proc[q].tx \in TransIds
      BY <1>1, <1>4, CommitterFacts DEF BaseInv, SuperPoints, CommitPoints
    <2>2. QED BY <1>1, <1>4, <2>1 DEF AbortInv, SameAborts
  <1>5. QED BY <1>2, <1>3, <1>4 DEF AbortInv

LEMMA EpochInit ==
  ASSUME Init
  PROVE  AbortInv /\ Abstract!Init
  <1>1. \A i \in TransIds : tx[i].aborted = FALSE
    BY DEF Init, Tx
  <1>2. \A q \in Procs : proc[q].pc \notin SuperPoints
    BY DEF Init, IdleProc, Fresh, SuperPoints
  <1>3. {i \in TransIds : tx[i].aborted} = {}
    BY <1>1
  <1>4. AbortInv
    BY <1>1, <1>2 DEF AbortInv
  <1>5. Abstract!Init
    BY <1>3 DEF Init, Abstract!Init
  <1>6. QED BY <1>4, <1>5

(* The transactions are the epochs of CommitOrder: one open at a time, on  *)
(* the device in order and all at once, and never after an abort.  The     *)
(* argument: whoever writes the super block follows directly on the one on *)
(* the device (DiskInv), and owns a transaction that nobody can abort any  *)
(* more (AbortInv).                                                        *)
THEOREM CommitsAreEpochs == Spec => CommitsInOrder
  <1>1. Init => BaseInv /\ DiskInv /\ AbortInv /\ Abstract!Init
    BY BaseInit, DiskInit, EpochInit
  <1>2. BaseInv /\ DiskInv /\ AbortInv /\ [Next]_vars
           => /\ BaseInv' /\ DiskInv' /\ AbortInv'
              /\ [Abstract!Next]_(Abstract!vars)
    <2> SUFFICES ASSUME BaseInv, DiskInv, AbortInv, [Next]_vars
                 PROVE  /\ BaseInv' /\ DiskInv' /\ AbortInv'
                        /\ [Abstract!Next]_(Abstract!vars)
      OBVIOUS
    <2>1. BaseInv' /\ DiskInv'
      BY BaseStep, DiskNext
    <2>2. ASSUME NEW p \in Procs, Step(p)
          PROVE  AbortInv' /\ [Abstract!Next]_(Abstract!vars)
      BY <2>2, AbortStep, EpochStep
    <2>3. CASE OrderedComplete \/ UNCHANGED vars
      BY <2>1, <2>3, EpochIdle
    <2>4. \/ \E p \in Procs : Step(p)
          \/ OrderedComplete \/ UNCHANGED vars
      BY DEF Next
    <2>5. AbortInv' /\ [Abstract!Next]_(Abstract!vars)
      BY <2>2, <2>3, <2>4
    <2>6. QED BY <2>1, <2>5
  <1>3. QED BY <1>1, <1>2, PTL DEF Spec, CommitsInOrder, Abstract!Spec

-----------------------------------------------------------------------------
(***************************************************************************)
(* The attach barrier                                                      *)
(***************************************************************************)
LEMMA UnbrokenFacts ==
  ASSUME BaseInv, Unbroken
  PROVE  /\ AbortInv
         /\ \A p \in Procs :
               /\ ~AfterError(proc[p])
               /\ proc[p].tx # 0 => ~tx[proc[p].tx].aborted
               /\ proc[p].ref # 0 => ~tx[proc[p].ref].aborted
  <1> USE DEF BaseInv
  <1>1. \A q \in Procs : ~AfterError(proc[q])
    BY TaskFacts DEF Unbroken
  <1>2. \A k \in 1..generation : k \in TransIds
    BY Created
  <1>3. \A q \in Procs : /\ proc[q].tx # 0 => proc[q].tx \in 1..generation
                         /\ proc[q].ref # 0 => proc[q].ref \in 1..generation
    BY PointerFacts DEF RefBounded, ProcState
  <1>4. \A q \in Procs : proc[q].pc \in SuperPoints => proc[q].tx \in TransIds
    BY CommitterFacts DEF SuperPoints, CommitPoints
  <1>5. QED BY <1>1, <1>2, <1>3, <1>4 DEF Unbroken, AbortInv

(* Where a task can turn to an error. *)
Falters(p) ==
  \/ AbortRequest(p) \/ SyncLogLock(p) \/ SyncLogSuper(p) \/ Waited(p)
  \/ CommitEntry(p) \/ CommitPrep(p) \/ DropExtwriter(p) \/ NoExtwriters(p)
  \/ NoOtherWriters(p) \/ CommitDoing(p) \/ WriteBlocks(p) \/ WriteSuper(p)
  \/ AbortTransaction(p)

LEMMA OnlyFalters ==
  ASSUME BaseInv, NEW p \in Procs, Step(p), ~Falters(p)
  PROVE  proc'[p].pc \notin ErrorPoints
  <1> USE DEF BaseInv
  <1> USE TaskFacts DEF ProcState, At, ErrorPoints, Goto
  <1>1. CASE Requests(p)
    <2>1. CASE \E op \in Ops \ {"WAIT"} : StartRequest(p, op)
      BY <2>1 DEF StartRequest
    <2>2. CASE \E i \in 0..generation : WaitRequest(p, i)
      BY <2>2 DEF WaitRequest
    <2>3. CASE SyncLogRequest(p) \/ ChargeOrdered(p)
      BY <2>3 DEF SyncLogRequest, ChargeOrdered
    <2>4. QED BY <1>1, <2>1, <2>2, <2>3 DEF Requests, Falters
  <1>2. CASE Release(p)
    BY <1>2 DEF Release, EndRequest, CommitRequest, CommitAsyncRequest
  <1>3. CASE CommitUnblock(p)
    BY <1>3 DEF CommitUnblock
  <1>4. CASE \/ StartEntry(p) \/ WaitCurrentTrans(p)
             \/ CurrentTransUnblocked(p) \/ Joined(p)
             \/ NothingToJoin(p) \/ AsyncCommitStarted(p)
    BY <1>4 DEF StartEntry, WaitCurrentTrans, CurrentTransUnblocked,
                Joined, NothingToJoin, AsyncCommitStarted,
                Return, Returned, IdleProc, Fresh, AfterWaitCurrent
  <1>5. CASE JoinTransaction(p) \/ NewTransaction(p)
    BY <1>5 DEF JoinTransaction, NewTransaction, JoinRunning,
                Return, Returned, IdleProc, Fresh
  <1>6. CASE HandleFsError(p) \/ EndTransaction(p)
    BY <1>6 DEF HandleFsError, EndTransaction
  <1>7. CASE EndPut(p)
    BY <1>7 DEF EndPut, Return, Returned, IdleProc, Fresh
  <1>8. CASE FindCommit(p)
    BY <1>8 DEF FindCommit, WaitOver, Fresh
  <1>9. CASE \/ CommitReached(p) \/ WaitForEarlier(p) \/ Acknowledge(p)
    BY <1>9 DEF CommitReached, WaitForEarlier, Acknowledge, Return, Returned,
                IdleProc, Fresh
  <1>10. CASE \/ PrevCommitted(p) \/ NoPendingOrdered(p) \/ CommitFinish(p)
              \/ CommitUnlist(p) \/ CommitPut(p) \/ CleanupLock(p)
              \/ CleanupWait(p) \/ CleanupUnlist(p)
    BY <1>10 DEF PrevCommitted, NoPendingOrdered, CommitFinish, CommitUnlist,
                 CommitPut, CleanupLock, CleanupWait, CleanupUnlist
  <1>11. CASE CleanupOne(p)
    BY <1>11 DEF CleanupOne, CleanupState
  <1>12. CASE CleanupDone(p)
    BY <1>12 DEF CleanupDone, Return, Returned, IdleProc, Fresh
  <1>13. CASE \/ KthreadAttach(p) \/ KthreadAttached(p) \/ KthreadError(p)
              \/ KthreadDrain(p)
    BY <1>13 DEF KthreadAttach, KthreadAttached, KthreadError, KthreadDrain
  <1>14. CASE KthreadScan(p)
    <2>1. \/ Goto(p, "idle")
          \/ \E i \in listed :
                proc' = [proc EXCEPT ![p].pc = "find", ![p].cont = "scan",
                                     ![p].goal = i, ![p].pin = i]
          \/ \E i \in listed :
                proc' = [proc EXCEPT ![p].doom = i,
                           ![p].pc = IF i = running THEN "drain" ELSE "clean1"]
      BY <1>14 DEF KthreadScan
    <2>2. CASE Goto(p, "idle")
      BY <2>2
    <2>3. ASSUME NEW i \in listed,
                 proc' = [proc EXCEPT ![p].pc = "find", ![p].cont = "scan",
                                      ![p].goal = i, ![p].pin = i]
          PROVE  proc'[p].pc \notin ErrorPoints
      BY <2>3
    <2>4. ASSUME NEW i \in listed,
                 proc' = [proc EXCEPT ![p].doom = i,
                           ![p].pc = IF i = running THEN "drain" ELSE "clean1"]
          PROVE  proc'[p].pc \notin ErrorPoints
      BY <2>4
    <2>5. QED BY <2>1, <2>2, <2>3, <2>4
  <1>15. QED
    BY <1>1, <1>2, <1>3, <1>4, <1>5, <1>6, <1>7, <1>8, <1>9, <1>10, <1>11,
       <1>12, <1>13, <1>14
       DEF Step, LogLocks, Proceed, Falters

(* Without a fault nobody turns to an error. *)
LEMMA NobodyFalters ==
  ASSUME ~Faults, BaseInv, Unbroken, NEW p \in Procs, Falters(p)
  PROVE  /\ proc'[p].pc \notin ErrorPoints
         /\ fsError' = fsError
  <1> USE DEF BaseInv
  <1>0. ~fsError /\ proc[p].pc \notin ErrorPoints
    BY DEF Unbroken
  <1> USE TaskFacts DEF ProcState, At, ErrorPoints, Goto
  <1>1. CASE AbortRequest(p) \/ AbortTransaction(p)
    BY <1>0, <1>1 DEF AbortRequest, AbortTransaction
  <1>2. CASE SyncLogLock(p) \/ SyncLogSuper(p)
    BY <1>0, <1>2 DEF SyncLogLock, SyncLogSuper, LogMayCommit
  <1>3. CASE Waited(p)
    <2>1. proc[p].ref # 0
      BY <1>3, PointerFacts DEF Waited, RefShape, WaitPoints
    <2>2. ~tx[proc[p].ref].aborted
      BY <2>1, UnbrokenFacts
    <2>3. QED
      BY <1>3, <2>2 DEF Waited, WaitOver, Return, Returned, IdleProc, Fresh
  <1>4. CASE CommitEntry(p)
    BY <1>4 DEF CommitEntry, shared
  <1>5. CASE CommitPrep(p)
    <2>1. fsError' = fsError
      BY <1>5 DEF CommitPrep
    <2>2. ASSUME NEW pc \in {"endw", "wait"}, NEW c, NEW k,
                 proc' = [proc EXCEPT ![p].pc = pc, ![p].cont = c,
                                      ![p].ref = k]
          PROVE  proc'[p].pc \notin ErrorPoints
      BY <2>2
    <2>3. CASE Goto(p, "dropext")
      BY <2>1, <2>3
    <2>4. CASE ~Goto(p, "dropext")
      <3>1. proc'[p].pc \notin ErrorPoints
        <4> DEFINE i == proc[p].tx
        <4>1. CASE proc' = [proc EXCEPT ![p].pc = "endw",
                                        ![p].cont = "waiter", ![p].ref = i]
          BY <4>1, <2>2
        <4>2. CASE \E k \in listed :
                      proc' = [proc EXCEPT ![p].pc = "wait",
                                           ![p].cont = "prev", ![p].ref = k]
          <5>1. PICK k \in listed :
                   proc' = [proc EXCEPT ![p].pc = "wait",
                                        ![p].cont = "prev", ![p].ref = k]
            BY <4>2
          <5>2. QED BY <5>1
        <4>3. QED
          BY <1>0, <1>5, <2>4, <4>1, <4>2 DEF CommitPrep
      <3>2. QED BY <2>1, <3>1
    <2>5. QED BY <2>3, <2>4
  <1>6. CASE DropExtwriter(p) \/ NoExtwriters(p)
    BY <1>6 DEF DropExtwriter, NoExtwriters, GotoOrFail, shared
  <1>7. CASE NoOtherWriters(p) \/ CommitDoing(p)
    <2>1. proc[p].pc \in CommitPoints
      BY <1>7 DEF NoOtherWriters, CommitDoing, CommitPoints
    <2>2. proc[p].tx # 0
      BY <2>1, CommitterFacts DEF TransIds
    <2>3. ~tx[proc[p].tx].aborted
      BY <2>2, UnbrokenFacts
    <2>4. QED BY <1>7, <2>3 DEF NoOtherWriters, CommitDoing, shared
  <1>8. CASE WriteBlocks(p) \/ WriteSuper(p)
    BY <1>8 DEF WriteBlocks, WriteSuper
  <1>9. QED
    BY <1>1, <1>2, <1>3, <1>4, <1>5, <1>6, <1>7, <1>8 DEF Falters

LEMMA UnbrokenStep ==
  ASSUME ~Faults, BaseInv, DiskInv, Unbroken, NEW p \in Procs, Step(p)
  PROVE  Unbroken'
  <1> USE DEF BaseInv
  <1>0. ~fsError /\ proc[p].pc \notin ErrorPoints /\ ~AfterError(proc[p])
    BY UnbrokenFacts DEF Unbroken
  <1>1. proc'[p].pc \notin ErrorPoints
    BY OnlyFalters, NobodyFalters
  <1>2. \A q \in Procs : proc'[q].pc \notin ErrorPoints
    BY <1>1, StepIsRegular DEF Regular, OthersStay, Unbroken
  <1>3. ~fsError' /\ SameAborts
    <2>1. CASE SameEpochs
      BY <1>0, <2>1 DEF SameEpochs
    <2>2. CASE NewTransaction(p)
      BY <1>0, <2>2, NewEpoch, UnbrokenFacts DEF NewTransaction, SameEpochs
    <2>3. CASE AbortTransaction(p) \/ HandleFsError(p) \/ CleanupDone(p)
      BY <1>0, <2>3
         DEF AbortTransaction, HandleFsError, CleanupDone, At, ErrorPoints,
             AfterError, WalkPoints
    <2>4. CASE CommitUnblock(p)
      BY <1>0, <2>4, MovedAborts DEF CommitUnblock
    <2>5. CASE WriteBlocks(p) \/ WriteSuper(p) \/ SyncLogSuper(p)
      BY <1>0, <2>5, MovedAborts, NobodyFalters DEF Falters
    <2>6. QED BY <2>1, <2>2, <2>3, <2>4, <2>5, EpochCases
  <1>4. QED BY <1>2, <1>3 DEF Unbroken, SameAborts

(* Whoever waits for the previous transaction did before, or had a handle. *)
LEMMA PrepBegins ==
  ASSUME BaseInv, NEW p \in Procs, Step(p), NewRole(p) = "prep"
  PROVE  RoleOf(p) \in {"prep", "handle"}
  <1> USE DEF BaseInv
  <1>1. /\ proc'[p].pc \in WaitPoints \cup {"prevdone"}
        /\ proc'[p].pc \in WaitPoints => proc'[p].cont = "prev"
    BY RolePoints DEF NewRole, WaitPoints
  <1>2. Special(p)
    BY <1>1, StepCases DEF Calm, CalmTask, CalmPoints, WaitPoints
  <1> USE TaskFacts DEF ProcState, At, WaitPoints, Goto
  <1>3. CASE NewTransaction(p)
    BY <1>1, <1>3 DEF NewTransaction, JoinRunning, Return, Returned, IdleProc,
                      Fresh
  <1>4. CASE FindCommit(p) /\ At(p, "find") /\ proc'[p].pc = "wait"
    <2>1. proc'[p].cont = proc[p].cont
      BY <1>4 DEF FindCommit, WaitOver, Fresh
    <2>2. proc[p].cont # "prev"
      BY <1>4, PointerFacts DEF RefShape
    <2>3. QED BY <1>1, <1>4, <2>1, <2>2
  <1>5. CASE EndPut(p) /\ proc[p].cont = "waiter"
    BY <1>1, <1>5 DEF EndPut
  <1>6. CASE CommitReached(p) \/ WaitForEarlier(p)
    <2>1. proc[p].pc \in WaitPoints /\ proc'[p].cont = proc[p].cont
          /\ proc'[p].pc \in WaitPoints
      BY <1>6 DEF CommitReached, WaitForEarlier
    <2>2. QED BY <1>1, <2>1, RolePoints DEF RoleOf
  <1>7. CASE Waited(p)
    <2>1. proc[p].pc = "waited"
      BY <1>7 DEF Waited
    <2>2. proc[p].cont = "prev"
      BY <1>1, <1>7 DEF Waited, WaitOver, Return, Returned, IdleProc, Fresh
    <2>3. QED BY <2>1, <2>2, RolePoints DEF RoleOf
  <1>8. CASE CommitPrep(p)
    BY <1>8, CommitPrepCases, RolePoints DEF RoleOf, HandlePoints
  <1>9. CASE \/ PrevCommitted(p) \/ DropExtwriter(p) \/ NoExtwriters(p)
             \/ NoPendingOrdered(p) \/ NoOtherWriters(p) \/ CommitDoing(p)
    BY <1>1, <1>9 DEF PrevCommitted, DropExtwriter, NoExtwriters, GotoOrFail,
       NoPendingOrdered, NoOtherWriters, CommitDoing, Fail
  <1>10. CASE \/ CommitUnblock(p) \/ WriteBlocks(p) \/ WriteSuper(p)
              \/ CommitFinish(p) \/ CommitUnlist(p) \/ CommitPut(p)
    BY <1>1, <1>10 DEF CommitUnblock, WriteBlocks, WriteSuper, CommitFinish,
       CommitUnlist, CommitPut, Fail
  <1>11. CASE \/ CleanupLock(p) \/ CleanupWait(p) \/ CleanupUnlist(p)
              \/ CleanupOne(p)
    BY <1>1, <1>11 DEF CleanupLock, CleanupWait, CleanupUnlist, CleanupOne,
       CleanupState
  <1>12. CASE CleanupDone(p)
    BY <1>1, <1>12 DEF CleanupDone, Return, Returned, IdleProc, Fresh
  <1>13. CASE \/ KthreadDrain(p) \/ SyncLogLock(p) \/ SyncLogSuper(p)
              \/ ChargeOrdered(p) \/ AbortTransaction(p) \/ HandleFsError(p)
    BY <1>1, <1>13 DEF KthreadDrain, SyncLogLock, SyncLogSuper, ChargeOrdered,
       AbortTransaction, HandleFsError
  <1>14. CASE KthreadScan(p) /\ proc'[p].pc \in {"drain", "clean1"}
    BY <1>1, <1>14
  <1>15. QED
    BY <1>2, <1>3, <1>4, <1>5, <1>6, <1>7, <1>8, <1>9, <1>10, <1>11, <1>12,
       <1>13, <1>14
       DEF Special

(* The state of the running transaction goes from TRANS_STATE_COMMIT_START *)
(* on, and TRANS_STATE_UNBLOCKED takes it out of running_transaction.      *)
LEMMA OpenStep ==
  ASSUME BaseInv, Unbroken, Unbroken', RunningIsOpen, NEW p \in Procs, Step(p)
  PROVE  /\ RunningIsOpen'
         /\ running' = running /\ running # 0
            /\ tx[running].state >= COMMIT_START
            => tx'[running].state >= COMMIT_START
  <1> USE DEF BaseInv
  <1>1. /\ Kind(p) /\ Shape(proc'[p])
        /\ ~AfterError(proc'[p]) /\ proc'[p].pc \notin ErrorPoints
    BY StepIsRegular DEF Regular, Unbroken
  <1>2. running # 0 => running \in TransIds /\ tx[running].state \in 0..6
    BY Created, PointerFacts
  <1>3. CASE SameStates /\ running' \in {0, running}
    BY <1>2, <1>3 DEF SameStates, RunningIsOpen
  <1>4. CASE Stays(p) \/ Joins(p) \/ Leaves(p)
    BY <1>3, <1>4 DEF Stays, Joins, Leaves, list
  <1>5. CASE Drops(p)
    BY <1>3, <1>5 DEF Drops
  <1>6. CASE Opens(p)
    <2>1. generation' = generation + 1 /\ running = 0 /\ generation \in Nat
          /\ running' = generation + 1
      BY <1>6, Created DEF Opens
    <2>2. NewTransaction(p)
      <3>1. generation' # generation
        BY <2>1
      <3>2. ~AbortTransaction(p)
        BY <3>1 DEF AbortTransaction, list
      <3>3. QED BY <3>1, <3>2, EpochCases, MovedAborts DEF SameEpochs
    <2>3. tx' = [tx EXCEPT ![generation + 1] =
                       Tx(1, One(proc[p].type \in EXTWRITERS), 2)]
      BY <2>1, <2>2 DEF NewTransaction, list
    <2>4. generation + 1 \in TransIds /\ tx \in [TransIds -> TxState]
      BY <1>6 DEF Opens, CoreInv, TypeOK
    <2>5. tx'[running'].state = 0
      BY <2>1, <2>3, <2>4, StateValues DEF Tx
    <2>6. QED BY <2>1, <2>5, StateValues DEF RunningIsOpen
  <1>7. NewRole(p) \notin {"fail", "failwait", "dead", "walk", "kwalk", "kdrain"}
    BY <1>1, RolePoints DEF NewRole, AfterError, WalkPoints
  <1>8. CASE Takes(p)
    <2> DEFINE s == tx'[running].state
    <2>1. /\ running # 0 /\ running' = running
          /\ tx[running].state < COMMIT_PREP
          /\ NewRole(p) \in Committers \cup Reapers
          /\ OwnedState(NewRole(p), s)
          /\ OwnedPlace(NewRole(p), s, running, running, listed)
      <3>1. NewTarget(p) = running /\ running' = running
            /\ NewRole(p) \in Owners
        BY <1>8 DEF Takes, list
      <3>2. running # 0
        BY <3>1, <1>1, TargetOfRole, RoleSets DEF NewRole, NewTarget
      <3>3. QED BY <1>8, <3>1, <3>2 DEF Takes, Owners
    <2>2. NewRole(p) \in {"prep", "start", "quiet", "doing", "alone"}
      BY <2>1, <1>7 DEF OwnedPlace, Committers, Reapers
    <2>3. s < UNBLOCKED
      BY <2>1, <2>2, StateValues DEF OwnedState
    <2>4. ~(tx[running].state >= COMMIT_START)
      BY <1>2, <2>1, StateValues
    <2>5. QED BY <2>1, <2>3, <2>4 DEF RunningIsOpen
  <1>9. CASE MovesOn(p)
    <2> DEFINE i == TargetOf(p)
               s == tx'[i].state
    <2>1. /\ RoleOf(p) \in Owners /\ NewRole(p) \in Committers \cup Reapers
          /\ OwnedState(NewRole(p), s)
          /\ OwnedPlace(NewRole(p), s, i, running', listed')
          /\ SameStatesBut(i) /\ running' \in {0, running}
      BY <1>9 DEF MovesOn
    <2>2. CASE i # running'
      BY <1>2, <2>1, <2>2 DEF SameStatesBut, RunningIsOpen
    <2>3. CASE i = running' /\ running' # 0
      <3>1. NewRole(p) \in {"prep", "start", "quiet", "doing", "alone"}
        BY <2>1, <2>3, <1>7 DEF OwnedPlace, Committers, Reapers
      <3>2. s < UNBLOCKED
        BY <2>1, <3>1, StateValues DEF OwnedState
      <3>3. NewRole(p) = "prep" => tx[i].state = COMMIT_PREP
        <4>1. NewRole(p) = "prep" => RoleOf(p) = "prep"
          BY <2>1, PrepBegins, RoleSets
        <4>2. QED
          BY <2>1, <4>1 DEF CoreInv, RoleInv, Owned, OwnedState
      <3>4. NewRole(p) # "prep" => s >= COMMIT_START
        BY <2>1, <3>1, StateValues DEF OwnedState
      <3>5. i = running /\ running' = running
        BY <2>1, <2>3
      <3>6. QED
        BY <2>3, <3>2, <3>3, <3>4, <3>5, StateValues DEF RunningIsOpen
    <2>4. CASE running' = 0
      BY <2>4 DEF RunningIsOpen
    <2>5. QED BY <2>2, <2>3, <2>4
  <1>10. QED BY <1>1, <1>4, <1>5, <1>6, <1>8, <1>9 DEF Kind

BarrierPoints ==
  {"start", "waitcur", "blocked", "join", "enoent", "find"} \cup WaitPoints

BarrierStep(p) ==
  \/ StartRequest(p, "BARRIER") \/ StartEntry(p) \/ WaitCurrentTrans(p)
  \/ CurrentTransUnblocked(p) \/ JoinTransaction(p) \/ NothingToJoin(p)
  \/ FindCommit(p) \/ CommitReached(p) \/ WaitForEarlier(p) \/ Waited(p)

(* Only the steps of a barrier have to do with it. *)
LEMMA OnlyBarriers ==
  ASSUME BaseInv, NEW p \in Procs, Step(p), BarrierKnows(p), ~BarrierStep(p)
  PROVE  proc'[p].cont # "barrier" /\ proc'[p].pc # "barrierdone"
  <1> USE DEF BaseInv
  <1>0. proc[p].cont = "barrier" => proc[p].pc \in BarrierPoints
    BY DEF BarrierKnows, BarrierPoints
  <1> USE TaskFacts DEF ProcState, At, BarrierPoints, WaitPoints, Goto
  <1>1. CASE Requests(p)
    <2>1. ASSUME NEW op \in Ops \ {"WAIT"}, StartRequest(p, op)
          PROVE  proc'[p].cont # "barrier" /\ proc'[p].pc # "barrierdone"
      <3>1. op # "BARRIER"
        BY <2>1 DEF BarrierStep
      <3>2. QED BY <2>1, <3>1 DEF StartRequest
    <2>2. CASE \E i \in 0..generation : WaitRequest(p, i)
      BY <2>2 DEF WaitRequest
    <2>3. CASE SyncLogRequest(p) \/ ChargeOrdered(p) \/ AbortRequest(p)
      BY <1>0, <2>3 DEF SyncLogRequest, ChargeOrdered, AbortRequest
    <2>4. QED BY <1>1, <2>1, <2>2, <2>3 DEF Requests
  <1>2. CASE Release(p)
    BY <1>0, <1>2 DEF Release, EndRequest, CommitRequest, CommitAsyncRequest
  <1>3. CASE LogLocks(p) \/ SyncLogSuper(p)
    BY <1>0, <1>3 DEF LogLocks, CommitUnblock, SyncLogLock, SyncLogSuper
  <1>4. CASE Joined(p) \/ AsyncCommitStarted(p)
    BY <1>0, <1>4 DEF Joined, AsyncCommitStarted, IdleProc, Fresh
  <1>5. CASE NewTransaction(p)
    BY <1>0, <1>5 DEF NewTransaction, JoinRunning, Return, Returned, IdleProc,
                Fresh
  <1>6. CASE AbortTransaction(p) \/ HandleFsError(p) \/ EndTransaction(p)
    BY <1>0, <1>6 DEF AbortTransaction, HandleFsError, EndTransaction
  <1>7. CASE EndPut(p) \/ Acknowledge(p)
    BY <1>0, <1>7 DEF EndPut, Acknowledge, Return, Returned, IdleProc, Fresh
  <1>8. CASE CommitEntry(p)
    BY <1>0, <1>8 DEF CommitEntry
  <1>9. CASE CommitPrep(p)
    BY <1>0, <1>9, CommitPrepCases
  <1>10. CASE \/ PrevCommitted(p) \/ DropExtwriter(p) \/ NoExtwriters(p)
              \/ NoPendingOrdered(p) \/ NoOtherWriters(p) \/ CommitDoing(p)
    BY <1>0, <1>10 DEF PrevCommitted, DropExtwriter, NoExtwriters, GotoOrFail,
       NoPendingOrdered, NoOtherWriters, CommitDoing, Fail
  <1>11. CASE \/ WriteBlocks(p) \/ WriteSuper(p)
              \/ CommitFinish(p) \/ CommitUnlist(p) \/ CommitPut(p)
    BY <1>0, <1>11 DEF WriteBlocks, WriteSuper, CommitFinish, CommitUnlist,
       CommitPut, Fail
  <1>12. CASE \/ CleanupLock(p) \/ CleanupWait(p) \/ CleanupUnlist(p)
              \/ CleanupOne(p)
    BY <1>0, <1>12 DEF CleanupLock, CleanupWait, CleanupUnlist, CleanupOne,
       CleanupState
  <1>13. CASE CleanupDone(p)
    BY <1>13 DEF CleanupDone, Return, Returned, IdleProc, Fresh
  <1>14. CASE \/ KthreadAttach(p) \/ KthreadAttached(p) \/ KthreadError(p)
              \/ KthreadDrain(p)
    BY <1>0, <1>14 DEF KthreadAttach, KthreadAttached, KthreadError,
       KthreadDrain
  <1>15. CASE KthreadScan(p)
    <2>1. \/ Goto(p, "idle")
          \/ \E i \in listed :
                proc' = [proc EXCEPT ![p].pc = "find", ![p].cont = "scan",
                                     ![p].goal = i, ![p].pin = i]
          \/ \E i \in listed :
                proc' = [proc EXCEPT ![p].doom = i,
                           ![p].pc = IF i = running THEN "drain" ELSE "clean1"]
      BY <1>15 DEF KthreadScan
    <2>2. CASE Goto(p, "idle")
      BY <1>0, <1>15, <2>2 DEF KthreadScan
    <2>3. ASSUME NEW i \in listed,
                 proc' = [proc EXCEPT ![p].pc = "find", ![p].cont = "scan",
                                      ![p].goal = i, ![p].pin = i]
          PROVE  proc'[p].cont # "barrier" /\ proc'[p].pc # "barrierdone"
      BY <2>3
    <2>4. ASSUME NEW i \in listed,
                 proc' = [proc EXCEPT ![p].doom = i,
                           ![p].pc = IF i = running THEN "drain" ELSE "clean1"]
          PROVE  proc'[p].cont # "barrier" /\ proc'[p].pc # "barrierdone"
      BY <1>0, <1>15, <2>4 DEF KthreadScan
    <2>5. QED BY <2>1, <2>2, <2>3, <2>4
  <1>16. QED
    BY <1>1, <1>2, <1>3, <1>4, <1>5, <1>6, <1>7, <1>8, <1>9, <1>10, <1>11,
       <1>12, <1>13, <1>14, <1>15
       DEF Step, Proceed, BarrierStep

(* What the steps of other tasks leave of a barrier. *)
BarrierFrame ==
  /\ generation \in Nat /\ generation' \in Nat /\ running' \in Nat
  /\ disk.gen \in Nat /\ disk'.gen \in Nat
  /\ generation <= generation' /\ disk.gen <= disk'.gen
  /\ running' = running \/ running' = 0 \/ running' > generation
  /\ running' = running /\ running # 0 /\ tx[running].state >= COMMIT_START
     => tx'[running].state >= COMMIT_START

LEMMA BarrierFrames ==
  ASSUME BaseInv, BaseInv', DiskInv, WaiterInv, Unbroken, Unbroken',
         RunningIsOpen, NEW p \in Procs, Step(p)
  PROVE  BarrierFrame
  <1> USE DEF BaseInv
  <1>1. /\ generation \in Nat /\ generation' \in {generation, generation + 1}
        /\ Kind(p)
    BY StepIsRegular, RegularFacts DEF Regular
  <1>2. disk.gen \in Nat /\ disk'.gen \in Nat /\ disk.gen <= disk'.gen
    <2>1. disk \in Super /\ disk' \in Super
      BY DEF CoreInv, TypeOK
    <2>2. QED BY <2>1, WaiterFrames, DiskFacts DEF WaiterFrame, Super
  <1>3. running' = running \/ running' = 0 \/ running' = generation + 1
    BY <1>1 DEF Kind, Stays, Joins, Opens, Leaves, Takes, MovesOn, Drops, list
  <1>4. running \in Nat
    BY <1>1, DiskFacts
  <1>5. QED BY <1>1, <1>2, <1>3, <1>4, OpenStep DEF BarrierFrame

LEMMA BarrierKept ==
  ASSUME TypeOK, BarrierFrame, NEW q \in Procs, BarrierKnows(q),
         proc'[q] = proc[q], running \in Nat
  PROVE  BarrierKnows(q)'
  <1>1. proc[q].goal \in Nat
    BY DEF TypeOK, ProcState
  <1>2. CASE proc[q].cont = "barrier"
    <2>1. Passed(q) => Passed(q)'
      BY <1>1, <1>2 DEF BarrierKnows, BarrierFrame, Passed
    <2>2. Passed(q) \/ tx[running].state >= COMMIT_START
          => Passed(q)' \/ tx'[running'].state >= COMMIT_START
      BY <1>1, <1>2, <2>1 DEF BarrierKnows, BarrierFrame, Passed
    <2>3. proc[q].goal <= generation /\ proc[q].goal <= generation'
      BY <1>1, <1>2 DEF BarrierKnows, BarrierFrame
    <2>4. proc[q].goal <= disk.gen => proc[q].goal <= disk'.gen
      BY <1>1 DEF BarrierFrame
    <2>5. QED BY <1>2, <2>1, <2>2, <2>3, <2>4 DEF BarrierKnows, At
  <1>3. CASE proc[q].cont # "barrier"
    <2>1. proc[q].goal <= disk.gen => proc[q].goal <= disk'.gen
      BY <1>1 DEF BarrierFrame
    <2>2. QED BY <1>3, <2>1 DEF BarrierKnows, At
  <1>4. QED BY <1>2, <1>3

(* Without an error a transaction that is or was past the super block is   *)
(* on the device.                                                          *)
LEMMA SettledOnDevice ==
  ASSUME BaseInv, WaiterInv, Unbroken, NEW i \in 1..generation,
         tx[i].state >= SUPER_COMMITTED
  PROVE  i <= disk.gen
  <1>1. i \in TransIds /\ i \in Nat /\ disk.gen \in Nat
    BY Created, DiskFacts DEF BaseInv
  <1>2. ~Lost(i)
    BY DEF WaiterInv, Unbroken
  <1>3. QED BY <1>1, <1>2 DEF Lost, Unbroken

(* A transaction that is not open is on the device, or it is listed and    *)
(* its committer is writing it.                                            *)
LEMMA ClosedOnDevice ==
  ASSUME BaseInv, DiskInv, Unbroken, NEW i \in 1..generation, i # running,
         ~(i <= disk.gen)
  PROVE  i \in listed /\ tx[i].state >= COMMIT_START
  <1> USE DEF BaseInv
  <1>1. PICK q \in Procs : proc[q].tx = i /\ proc[q].pc \in {"write", "super"}
    BY DEF DiskInv, NothingForgotten, Unbroken
  <1>2. Role(proc[q]) = "writing"
    BY <1>1, RolePoints
  <1>3. OwnedState("writing", tx[i].state)
        /\ OwnedPlace("writing", tx[i].state, i, running, listed)
    BY <1>1, <1>2, CommitterFacts DEF CommitPoints
  <1>4. QED BY <1>3, StateValues DEF OwnedState, OwnedPlace

LEMMA BarrierFind ==
  ASSUME BaseInv, DiskInv, WaiterInv, Unbroken, NEW p \in Procs,
         BarrierKnows(p), BarrierFrame, FindCommit(p)
  PROVE  BarrierKnows(p)'
  <1> USE DEF BaseInv
  <1> DEFINE g == proc[p].goal
  <1>0. /\ proc[p] \in ProcState /\ proc \in [Procs -> ProcState]
        /\ g \in Nat /\ proc[p].pc = "find"
        /\ generation' = generation /\ disk' = disk
    BY TaskFacts DEF FindCommit, At, ProcState, list, durable
  <1>1. CASE proc[p].cont # "barrier"
    BY <1>0, <1>1
       DEF FindCommit, WaitOver, Fresh, ProcState, BarrierKnows, At
  <1>2. CASE proc[p].cont = "barrier"
    <2>1. /\ ~ByTransid(p) /\ g <= generation /\ Passed(p)
          /\ generation \in Nat /\ disk.gen \in Nat
      BY <1>0, <1>2, DiskFacts DEF BarrierKnows, ByTransid
    <2>2. Started \subseteq listed /\ Started \subseteq 1..generation
      BY Created DEF Started
    <2>3. g <= disk.gen \/ g \in Started
      <3>1. ASSUME ~(g <= disk.gen)
            PROVE  g \in listed /\ tx[g].state >= COMMIT_START
        <4>1. g \in 1..generation /\ g # running
          BY <1>0, <2>1, <3>1, DiskFacts DEF Passed
        <4> HIDE DEF g
        <4>2. QED BY <3>1, <4>1, ClosedOnDevice
      <3>2. QED BY <3>1 DEF Started
    <2>4. CASE CommitToWaitFor(p) = {} /\ WaitOver(p, TRUE)
      <3>1. g <= disk.gen
        <4> SUFFICES ASSUME g \in Started
                     PROVE  g <= disk.gen
          BY <2>3
        <4>1. PICK k \in Started : \A m \in Started : m <= k
          BY <2>1, <2>2, LargestExists
        <4>2. tx[k].state = COMPLETED
          BY <2>1, <2>4, <4>1 DEF CommitToWaitFor
        <4>3. k \in 1..generation /\ g <= k
          BY <2>2, <4>1
        <4>4. k <= disk.gen
          BY <4>2, <4>3, SettledOnDevice, StateValues
        <4>5. QED BY <1>0, <2>1, <4>3, <4>4
      <3>2. proc'[p] = Fresh("barrierdone", "none", g)
        BY <1>0, <1>2, <2>4 DEF WaitOver
      <3>3. QED
        BY <1>0, <3>1, <3>2 DEF BarrierKnows, Fresh, At, WaitPoints
    <2>5. ASSUME NEW i \in CommitToWaitFor(p),
                 proc' = [proc EXCEPT ![p].pc = "wait", ![p].ref = i]
          PROVE  BarrierKnows(p)'
      <3>1. g \in Started => g <= i
        BY <2>1, <2>5 DEF CommitToWaitFor
      <3>2. g <= i \/ g <= disk.gen
        BY <2>3, <3>1
      <3>3. /\ proc'[p].pc = "wait" /\ proc'[p].ref = i
            /\ proc'[p].goal = g /\ proc'[p].cont = "barrier"
        BY <1>0, <1>2, <2>5 DEF ProcState
      <3>4. QED
        BY <1>0, <2>1, <3>2, <3>3 DEF BarrierKnows, At, WaitPoints
    <2>6. QED BY <2>1, <2>4, <2>5 DEF FindCommit
  <1>3. QED BY <1>1, <1>2

LEMMA BarrierWaits ==
  ASSUME BaseInv, DiskInv, WaiterInv, Unbroken, NEW p \in Procs,
         BarrierKnows(p), BarrierFrame,
         CommitReached(p) \/ WaitForEarlier(p) \/ Waited(p)
  PROVE  BarrierKnows(p)'
  <1> USE DEF BaseInv
  <1> DEFINE g == proc[p].goal
  <1>0. /\ proc[p] \in ProcState /\ proc \in [Procs -> ProcState]
        /\ g \in Nat /\ proc[p].pc \in WaitPoints
        /\ generation' = generation /\ disk' = disk /\ disk.gen \in Nat
    BY TaskFacts, DiskFacts
       DEF CommitReached, WaitForEarlier, Waited, At, ProcState, list,
           durable, WaitPoints
  <1>1. CASE CommitReached(p) \/ WaitForEarlier(p)
    <2>1. /\ proc'[p].pc \in WaitPoints /\ proc'[p].ref = proc[p].ref
          /\ proc'[p].goal = g /\ proc'[p].cont = proc[p].cont
      BY <1>0, <1>1
         DEF CommitReached, WaitForEarlier, Goto, ProcState, WaitPoints
    <2>2. QED BY <1>0, <2>1 DEF BarrierKnows, At, WaitPoints
  <1>2. CASE Waited(p)
    <2>1. CASE proc[p].cont # "barrier"
      BY <1>0, <1>2, <2>1
         DEF Waited, WaitOver, Return, Returned, IdleProc, Fresh, ProcState,
             BarrierKnows, At, WaitPoints
    <2>2. CASE proc[p].cont = "barrier"
      <3>1. /\ proc[p].ref \in 1..generation /\ ~tx[proc[p].ref].aborted
            /\ generation \in Nat
        BY <1>0, PointerFacts, UnbrokenFacts
           DEF RefShape, RefBounded, ProcState
      <3>2. tx[proc[p].ref].state >= SUPER_COMMITTED
        BY <1>2 DEF Waited, OrderInv, WaitsForPrevious, Reached, At
      <3>3. proc[p].ref <= disk.gen
        BY <3>1, <3>2, SettledOnDevice
      <3>4. g <= disk.gen
        BY <1>0, <2>2, <3>1, <3>3 DEF BarrierKnows
      <3>5. proc'[p] = Fresh("barrierdone", "none", g)
        BY <1>0, <1>2, <2>2, <3>1 DEF Waited, WaitOver
      <3>6. QED
        BY <1>0, <3>4, <3>5 DEF BarrierKnows, Fresh, At, WaitPoints
    <2>3. QED BY <2>1, <2>2
  <1>3. QED BY <1>1, <1>2

(* start_transaction as the barrier calls it: it comes back with -ENOENT   *)
(* only when the transaction that was open, if it still is, is not the     *)
(* barrier's any more.                                                     *)
LEMMA BarrierAttaches ==
  ASSUME BaseInv, Unbroken, RunningIsOpen, NEW p \in Procs,
         BarrierKnows(p),
         \/ StartRequest(p, "BARRIER") \/ StartEntry(p)
         \/ WaitCurrentTrans(p) \/ CurrentTransUnblocked(p)
         \/ JoinTransaction(p) \/ NothingToJoin(p)
  PROVE  BarrierKnows(p)'
  <1> USE DEF BaseInv
  <1> DEFINE g == proc[p].goal
  <1>0. /\ proc[p] \in ProcState /\ proc \in [Procs -> ProcState]
        /\ g \in Nat /\ generation \in Nat /\ running \in {0, generation}
        /\ generation' = generation /\ running' = running
        /\ ~fsError
        /\ running # 0 => /\ running \in TransIds /\ ~tx[running].aborted
                          /\ tx[running].state \in 0..3
    <2>1. generation' = generation /\ running' = running
      BY DEF StartRequest, StartEntry, WaitCurrentTrans,
             CurrentTransUnblocked, JoinTransaction, NothingToJoin, list,
             shared
    <2>2. running # 0 => running \in 1..generation
      BY DiskFacts
    <2>3. running # 0 => /\ running \in TransIds /\ ~tx[running].aborted
                         /\ tx[running].state \in 0..3
      BY <2>2, Created, StateValues DEF Unbroken, RunningIsOpen
    <2>4. QED BY <2>1, <2>3, TaskFacts, DiskFacts DEF ProcState, Unbroken
  <1>1. CASE StartRequest(p, "BARRIER")
    BY <1>0, <1>1 DEF StartRequest, ProcState, BarrierKnows, At, WaitPoints
  <1>2. CASE StartEntry(p)
    BY <1>0, <1>2
       DEF StartEntry, Goto, ProcState, BarrierKnows, At, WaitPoints
  <1>3. CASE WaitCurrentTrans(p)
    <2>1. CASE running # 0 /\ IsBlocked(running)
      BY <1>0, <1>3, <2>1
         DEF WaitCurrentTrans, ProcState, BarrierKnows, At, WaitPoints
    <2>2. CASE ~(running # 0 /\ IsBlocked(running))
      <3>1. proc[p].cont = "barrier" => Passed(p)
        BY <1>0, <1>3, <2>2, StateValues
           DEF WaitCurrentTrans, BarrierKnows, IsBlocked, At, Passed
      <3>2. Goto(p, AfterWaitCurrent(p)) /\ At(p, "waitcur")
        BY <1>3, <2>2 DEF WaitCurrentTrans
      <3>3. QED
        BY <1>0, <3>1, <3>2
           DEF AfterWaitCurrent, NoStart, Goto, ProcState, BarrierKnows, At,
               WaitPoints, Passed
    <2>3. QED BY <2>1, <2>2
  <1>4. CASE CurrentTransUnblocked(p)
    <2>1. proc[p].cont = "barrier" => Passed(p)
      <3>1. /\ proc[p].ref \in 1..generation
            /\ tx[proc[p].ref].state >= UNBLOCKED
        BY <1>0, <1>4, PointerFacts, UnbrokenFacts
           DEF CurrentTransUnblocked, At, RefShape, RefBounded, ProcState
      <3>2. proc[p].ref # running
        BY <1>0, <3>1, StateValues
      <3>3. QED
        BY <1>0, <1>4, <3>1, <3>2
           DEF CurrentTransUnblocked, BarrierKnows, At, Passed
    <2>2. QED
      BY <1>0, <1>4, <2>1
         DEF CurrentTransUnblocked, AfterWaitCurrent, NoStart, ProcState,
             BarrierKnows, At, WaitPoints, Passed
  <1>5. CASE JoinTransaction(p)
    <2>1. CASE running = 0
      BY <1>0, <1>5, <2>1
         DEF JoinTransaction, JoinRunning, NoStart, Goto, ProcState,
             BarrierKnows, At, WaitPoints, Passed
    <2>2. CASE running # 0
      <3>1. JoinRunning(p) /\ At(p, "join")
        BY <1>0, <1>5, <2>2 DEF JoinTransaction
      <3>2. CASE proc[p].type \in BlockedTypes(tx[running].state)
        <4>1. Goto(p, "waitcur") /\ UNCHANGED tx
          BY <1>0, <2>2, <3>1, <3>2 DEF JoinRunning
        <4>2. tx[running].state >= COMMIT_START
          BY <1>0, <2>2, <3>2, StateValues DEF BlockedTypes
        <4>3. QED
          BY <1>0, <3>1, <4>1, <4>2
             DEF Goto, ProcState, BarrierKnows, At, WaitPoints
      <3>3. CASE proc[p].type \notin BlockedTypes(tx[running].state)
        BY <1>0, <2>2, <3>1, <3>3
           DEF JoinRunning, ProcState, BarrierKnows, At, WaitPoints
      <3>4. QED BY <3>2, <3>3
    <2>3. QED BY <2>1, <2>2
  <1>6. CASE NothingToJoin(p)
    BY <1>0, <1>6
       DEF NothingToJoin, Goto, Return, Returned, IdleProc, Fresh, ProcState,
           BarrierKnows, At, WaitPoints, Passed
  <1>7. QED BY <1>1, <1>2, <1>3, <1>4, <1>5, <1>6

LEMMA BarrierTakesStep ==
  ASSUME ~Faults, BaseInv, BaseInv', DiskInv, WaiterInv, BarrierInv,
         NEW p \in Procs, Step(p)
  PROVE  BarrierInv'
  <1>0. Unbroken /\ RunningIsOpen /\ \A q \in Procs : BarrierKnows(q)
    BY DEF BarrierInv
  <1>1. Unbroken'
    BY <1>0, UnbrokenStep
  <1>2. RunningIsOpen'
    BY <1>0, <1>1, OpenStep
  <1>3. BarrierFrame
    BY <1>0, <1>1, BarrierFrames
  <1>4. ASSUME NEW q \in Procs \ {p}
        PROVE  BarrierKnows(q)'
    <2>1. proc'[q] = proc[q]
      BY StepIsRegular DEF Regular, OthersStay, BaseInv
    <2>2. TypeOK /\ running \in Nat
      BY DiskFacts DEF BaseInv, CoreInv
    <2>3. QED BY <1>0, <1>3, <2>1, <2>2, BarrierKept
  <1>5. BarrierKnows(p)'
    <2>1. CASE BarrierStep(p)
      BY <1>0, <1>3, <2>1, BarrierFind, BarrierWaits, BarrierAttaches
         DEF BarrierStep
    <2>2. CASE ~BarrierStep(p)
      BY <1>0, <2>2, OnlyBarriers DEF BarrierKnows, At
    <2>3. QED BY <2>1, <2>2
  <1>6. QED BY <1>1, <1>2, <1>4, <1>5 DEF BarrierInv

LEMMA BarrierIdle ==
  ASSUME BaseInv, BarrierInv, OrderedComplete \/ UNCHANGED vars
  PROVE  BarrierInv'
  <1>1. /\ UNCHANGED <<proc, running, generation, fsError, disk>>
        /\ \A i \in TransIds : /\ tx'[i].state = tx[i].state
                               /\ tx'[i].aborted = tx[i].aborted
    BY IdleFacts DEF BaseInv, list, SameStates
  <1>2. running # 0 => running \in TransIds
    BY DiskFacts, Created DEF BaseInv
  <1>3. \A q \in Procs : Passed(q)' <=> Passed(q)
    BY <1>1 DEF Passed
  <1>4. \A q \in Procs : BarrierKnows(q)'
    <2> SUFFICES ASSUME NEW q \in Procs
                 PROVE  BarrierKnows(q)'
      OBVIOUS
    <2>1. Passed(q) \/ tx[running].state >= COMMIT_START
          => Passed(q)' \/ tx'[running].state >= COMMIT_START
      BY <1>1, <1>2, <1>3 DEF Passed
    <2>2. QED BY <1>1, <1>3, <2>1 DEF BarrierInv, BarrierKnows, At
  <1>5. Unbroken' /\ RunningIsOpen'
    BY <1>1, <1>2 DEF BarrierInv, Unbroken, RunningIsOpen
  <1>6. QED BY <1>4, <1>5 DEF BarrierInv

LEMMA BarrierInit ==
  ASSUME Init
  PROVE  BarrierInv
  <1>1. \A p \in Procs : proc[p].pc = "idle" /\ proc[p].cont = "none"
    BY DEF Init, IdleProc, Fresh
  <1>2. \A i \in TransIds : ~tx[i].aborted
    BY DEF Init, Tx
  <1>3. ~fsError /\ running = 0
    BY DEF Init
  <1>4. QED
    BY <1>1, <1>2, <1>3
       DEF BarrierInv, Unbroken, ErrorPoints, RunningIsOpen, BarrierKnows, At

(* As long as nothing fails, btrfs_sync_file is right about -ENOENT from   *)
(* btrfs_attach_transaction_barrier: everything up to the newest           *)
(* transaction at the call is on the device.  The argument: start_         *)
(* transaction comes back with nothing to join only when that transaction  *)
(* is no longer open, and then btrfs_wait_for_commit(0) waits for it or a  *)
(* later one, or it was there already.  With faults it is not so.          *)
THEOREM BarrierIsOnDisk ==
  ASSUME ~Faults
  PROVE  Spec => []BarrierMeansOnDisk
  <1>1. Init => BaseInv /\ DiskInv /\ WaiterInv /\ BarrierInv
    BY BaseInit, DiskInit, WaiterInit, BarrierInit
  <1>2. BaseInv /\ DiskInv /\ WaiterInv /\ BarrierInv /\ [Next]_vars
        => BarrierInv'
    <2> SUFFICES ASSUME BaseInv, DiskInv, WaiterInv, BarrierInv, [Next]_vars
                 PROVE  BarrierInv'
      OBVIOUS
    <2>1. BaseInv'
      BY BaseStep
    <2>2. ASSUME NEW p \in Procs, Step(p)
          PROVE  BarrierInv'
      BY <2>1, <2>2, BarrierTakesStep
    <2>3. CASE OrderedComplete \/ UNCHANGED vars
      BY <2>3, BarrierIdle
    <2>4. QED BY <2>2, <2>3 DEF Next
  <1>3. BarrierInv => BarrierMeansOnDisk
    BY DEF BarrierInv, BarrierKnows, BarrierMeansOnDisk
  <1>4. QED BY <1>1, <1>2, <1>3, WaiterInvariant, PTL DEF Spec
=============================================================================
