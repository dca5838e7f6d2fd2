----------------------- MODULE TransactionCoreProofs -----------------------
(***************************************************************************)
(* CoreInv is an invariant of Transaction for any tasks and any number of  *)
(* transactions: the writer counters are the open handles, the critical    *)
(* section of a commit is alone, and a committer keeps its transaction on  *)
(* trans_list.                                                             *)
(*                                                                         *)
(* Most steps change neither the role of a task nor what the invariant     *)
(* says of a transaction.  The others are of six kinds, each with a lemma: *)
(* a task joins, opens, leaves, takes charge of, moves on with, or is done *)
(* with a transaction.                                                     *)
(*                                                                         *)
(* The first part is type correctness: a step changes fields of one task   *)
(* and of at most two transactions; lemmas say that each such assignment   *)
(* keeps the type, then the actions are gone through, once for proc, once  *)
(* for tx and once for the other variables.                                *)
(***************************************************************************)
EXTENDS TransactionInvariants, FiniteSetTheorems, TLAPS

-----------------------------------------------------------------------------
(***************************************************************************)
(* Types                                                                   *)
(***************************************************************************)
LEMMA ZeroIsPointer == 0 \in 0..MaxTrans
  BY ConstantsAssumption

LEMMA Labels ==
  /\ "idle" \in Points /\ "start" \in Points /\ "waitcur" \in Points
  /\ "blocked" \in Points /\ "join" \in Points /\ "alloc" \in Points
  /\ "joined" \in Points /\ "enoent" \in Points /\ "held" \in Points
  /\ "endw" \in Points /\ "endput" \in Points /\ "asyncwait" \in Points
  /\ "abort" \in Points /\ "fserror" \in Points /\ "loglock" \in Points
  /\ "logsuper" \in Points /\ "find" \in Points /\ "wait" \in Points
  /\ "waitnext" \in Points /\ "waited" \in Points /\ "committed" \in Points
  /\ "barrierdone" \in Points /\ "commit" \in Points /\ "prep" \in Points
  /\ "prevdone" \in Points /\ "dropext" \in Points /\ "extwait" \in Points
  /\ "ordwait" \in Points /\ "wrwait" \in Points /\ "doing" \in Points
  /\ "unblock" \in Points /\ "write" \in Points /\ "super" \in Points
  /\ "finish" \in Points /\ "unlist" \in Points /\ "putbase" \in Points
  /\ "cleanlock" \in Points /\ "cleanwait" \in Points
  /\ "cleandel" \in Points /\ "clean1" \in Points /\ "clean2" \in Points
  /\ "clean3" \in Points /\ "cleandone" \in Points /\ "scan" \in Points
  /\ "drain" \in Points
  /\ "none" \in HandleTypes /\ "START" \in HandleTypes
  /\ "ATTACH" \in HandleTypes /\ "JOIN" \in HandleTypes
  /\ "JOIN_NOSTART" \in HandleTypes
  /\ "none" \in Continuations /\ "barrier" \in Continuations
  /\ "ret" \in Continuations /\ "async" \in Continuations
  /\ "held" \in Continuations /\ "clean" \in Continuations
  /\ "newest" \in Continuations /\ "transid" \in Continuations
  /\ "scan" \in Continuations /\ "prev" \in Continuations
  /\ "waiter" \in Continuations
  /\ "idle" \in {"idle", "again"} /\ "again" \in {"idle", "again"}
  BY DEF Points, HandleTypes, Continuations

LEMMA StatesType ==
  /\ RUNNING \in RUNNING..COMPLETED /\ COMMIT_PREP \in RUNNING..COMPLETED
  /\ COMMIT_START \in RUNNING..COMPLETED
  /\ COMMIT_DOING \in RUNNING..COMPLETED
  /\ UNBLOCKED \in RUNNING..COMPLETED
  /\ SUPER_COMMITTED \in RUNNING..COMPLETED
  /\ COMPLETED \in RUNNING..COMPLETED
  BY DEF RUNNING, COMMIT_PREP, COMMIT_START, COMMIT_DOING, UNBLOCKED,
         SUPER_COMMITTED, COMPLETED

LEMMA FreshType ==
  ASSUME NEW pc \in Points, NEW t \in HandleTypes, NEW g \in 0..MaxTrans
  PROVE  Fresh(pc, t, g) \in ProcState
  BY ZeroIsPointer DEF Fresh, ProcState, Continuations

LEMMA IdleType == IdleProc \in ProcState
  BY FreshType, ZeroIsPointer, Labels DEF IdleProc

LEMMA ReturnedType ==
  ASSUME NEW p \in Procs, proc[p].type \in HandleTypes
  PROVE  Returned(p) \in ProcState
  <1>1. CASE proc[p].then = "again"
    BY <1>1, Labels, FreshType, ZeroIsPointer DEF Returned
  <1>2. CASE proc[p].then # "again"
    BY <1>2, IdleType DEF Returned
  <1>3. QED BY <1>1, <1>2

(* Assigning one field of a task. *)
LEMMA SetProc ==
  ASSUME NEW f \in [Procs -> ProcState], NEW p \in Procs, NEW r \in ProcState
  PROVE  [f EXCEPT ![p] = r] \in [Procs -> ProcState]
  OBVIOUS

LEMMA SetPc ==
  ASSUME NEW f \in [Procs -> ProcState], NEW p \in Procs,
         NEW x \in Points
  PROVE  [f EXCEPT ![p].pc = x] \in [Procs -> ProcState]
  BY DEF ProcState

LEMMA SetType ==
  ASSUME NEW f \in [Procs -> ProcState], NEW p \in Procs,
         NEW x \in HandleTypes
  PROVE  [f EXCEPT ![p].type = x] \in [Procs -> ProcState]
  BY DEF ProcState

LEMMA SetExt ==
  ASSUME NEW f \in [Procs -> ProcState], NEW p \in Procs,
         NEW x \in BOOLEAN
  PROVE  [f EXCEPT ![p].ext = x] \in [Procs -> ProcState]
  BY DEF ProcState

LEMMA SetFsync ==
  ASSUME NEW f \in [Procs -> ProcState], NEW p \in Procs,
         NEW x \in BOOLEAN
  PROVE  [f EXCEPT ![p].fsync = x] \in [Procs -> ProcState]
  BY DEF ProcState

LEMMA SetThen ==
  ASSUME NEW f \in [Procs -> ProcState], NEW p \in Procs,
         NEW x \in {"idle", "again"}
  PROVE  [f EXCEPT ![p].then = x] \in [Procs -> ProcState]
  BY DEF ProcState

LEMMA SetCont ==
  ASSUME NEW f \in [Procs -> ProcState], NEW p \in Procs,
         NEW x \in Continuations
  PROVE  [f EXCEPT ![p].cont = x] \in [Procs -> ProcState]
  BY DEF ProcState

LEMMA SetErr ==
  ASSUME NEW f \in [Procs -> ProcState], NEW p \in Procs,
         NEW x \in BOOLEAN
  PROVE  [f EXCEPT ![p].err = x] \in [Procs -> ProcState]
  BY DEF ProcState

LEMMA SetHandle ==
  ASSUME NEW f \in [Procs -> ProcState], NEW p \in Procs,
         NEW x \in 0..MaxTrans
  PROVE  [f EXCEPT ![p].tx = x] \in [Procs -> ProcState]
  BY DEF ProcState

LEMMA SetRef ==
  ASSUME NEW f \in [Procs -> ProcState], NEW p \in Procs,
         NEW x \in 0..MaxTrans
  PROVE  [f EXCEPT ![p].ref = x] \in [Procs -> ProcState]
  BY DEF ProcState

LEMMA SetWtx ==
  ASSUME NEW f \in [Procs -> ProcState], NEW p \in Procs,
         NEW x \in 0..MaxTrans
  PROVE  [f EXCEPT ![p].wtx = x] \in [Procs -> ProcState]
  BY DEF ProcState

LEMMA SetPin ==
  ASSUME NEW f \in [Procs -> ProcState], NEW p \in Procs,
         NEW x \in 0..MaxTrans
  PROVE  [f EXCEPT ![p].pin = x] \in [Procs -> ProcState]
  BY DEF ProcState

LEMMA SetDoom ==
  ASSUME NEW f \in [Procs -> ProcState], NEW p \in Procs,
         NEW x \in 0..MaxTrans
  PROVE  [f EXCEPT ![p].doom = x] \in [Procs -> ProcState]
  BY DEF ProcState

LEMMA SetGoal ==
  ASSUME NEW f \in [Procs -> ProcState], NEW p \in Procs,
         NEW x \in 0..MaxTrans
  PROVE  [f EXCEPT ![p].goal = x] \in [Procs -> ProcState]
  BY DEF ProcState

(* Assigning one field of a transaction; index 0 (NULL) changes nothing. *)
LEMMA SetTx ==
  ASSUME NEW f \in [TransIds -> TxState], NEW i, NEW r \in TxState
  PROVE  [f EXCEPT ![i] = r] \in [TransIds -> TxState]
  OBVIOUS

LEMMA SetTxState ==
  ASSUME NEW f \in [TransIds -> TxState], NEW i, NEW x \in RUNNING..COMPLETED
  PROVE  [f EXCEPT ![i].state = x] \in [TransIds -> TxState]
  BY DEF TxState

LEMMA SetTxAborted ==
  ASSUME NEW f \in [TransIds -> TxState], NEW i, NEW x \in BOOLEAN
  PROVE  [f EXCEPT ![i].aborted = x] \in [TransIds -> TxState]
  BY DEF TxState

LEMMA SetTxWriters ==
  ASSUME NEW f \in [TransIds -> TxState], NEW i,
         NEW x, i \in TransIds => x \in Int
  PROVE  [f EXCEPT ![i].writers = x] \in [TransIds -> TxState]
  <1>1. CASE i \in TransIds
    BY <1>1 DEF TxState
  <1>2. CASE i \notin TransIds
    BY <1>2
  <1>3. QED BY <1>1, <1>2

LEMMA SetTxExt ==
  ASSUME NEW f \in [TransIds -> TxState], NEW i,
         NEW x, i \in TransIds => x \in Int
  PROVE  [f EXCEPT ![i].ext = x] \in [TransIds -> TxState]
  <1>1. CASE i \in TransIds
    BY <1>1 DEF TxState
  <1>2. CASE i \notin TransIds
    BY <1>2
  <1>3. QED BY <1>1, <1>2

LEMMA SetTxUse ==
  ASSUME NEW f \in [TransIds -> TxState], NEW i,
         NEW x, i \in TransIds => x \in Int
  PROVE  [f EXCEPT ![i].use = x] \in [TransIds -> TxState]
  <1>1. CASE i \in TransIds
    BY <1>1 DEF TxState
  <1>2. CASE i \notin TransIds
    BY <1>2
  <1>3. QED BY <1>1, <1>2

LEMMA SetTxPending ==
  ASSUME NEW f \in [TransIds -> TxState], NEW i,
         NEW x, i \in TransIds => x \in Int
  PROVE  [f EXCEPT ![i].pending = x] \in [TransIds -> TxState]
  <1>1. CASE i \in TransIds
    BY <1>1 DEF TxState
  <1>2. CASE i \notin TransIds
    BY <1>2
  <1>3. QED BY <1>1, <1>2

LEMMA CountersAreInt ==
  ASSUME tx \in [TransIds -> TxState], NEW i \in TransIds, NEW k \in Int
  PROVE  /\ tx[i].writers + k \in Int /\ tx[i].writers - k \in Int
         /\ tx[i].ext + k \in Int /\ tx[i].ext - k \in Int
         /\ tx[i].use + k \in Int /\ tx[i].use - k \in Int
         /\ tx[i].pending + k \in Int /\ tx[i].pending - k \in Int
  BY DEF TxState

LEMMA PinType ==
  ASSUME tx \in [TransIds -> TxState], NEW i
  PROVE  /\ Pin(i) \in [TransIds -> TxState]
         /\ Put(i) \in [TransIds -> TxState]
  <1>1. i \in TransIds => tx[i].use + 1 \in Int /\ tx[i].use - 1 \in Int
    BY CountersAreInt
  <1>2. QED BY <1>1, SetTxUse DEF Pin, Put

LEMMA OneType == \A b : One(b) \in Int
  BY DEF One

LEMMA DropExtType == \A p : DropExt(p) \in Int
  BY OneType DEF DropExt

LEMMA NewTxType ==
  ASSUME NEW b
  PROVE  Tx(1, One(b), 2) \in TxState
  BY OneType, StatesType DEF Tx, TxState

-----------------------------------------------------------------------------
LEMMA ProcFields ==
  ASSUME TypeOK, NEW p \in Procs
  PROVE  /\ proc \in [Procs -> ProcState]
         /\ proc[p].type \in HandleTypes /\ proc[p].then \in {"idle", "again"}
         /\ proc[p].tx \in 0..MaxTrans /\ proc[p].ref \in 0..MaxTrans
         /\ proc[p].pin \in 0..MaxTrans /\ proc[p].wtx \in 0..MaxTrans
         /\ proc[p].doom \in 0..MaxTrans /\ proc[p].goal \in 0..MaxTrans
         /\ 0 \in 0..MaxTrans /\ running \in 0..MaxTrans
         /\ generation \in 0..MaxTrans /\ listed \subseteq 0..MaxTrans
         /\ fsError \in BOOLEAN
  <1>1. proc[p] \in ProcState
    BY DEF TypeOK
  <1>2. QED BY <1>1, ZeroIsPointer DEF TypeOK, ProcState, TransIds

LEMMA JoinRunningType ==
  ASSUME TypeOK, NEW p \in Procs, JoinRunning(p)
  PROVE  /\ proc' \in [Procs -> ProcState]
         /\ tx' \in [TransIds -> TxState]
  <1>1. CASE tx[running].aborted
    BY <1>1, ProcFields, ReturnedType, SetProc
       DEF JoinRunning, Return, TypeOK
  <1>2. CASE /\ ~tx[running].aborted
             /\ proc[p].type \in BlockedTypes(tx[running].state)
    BY <1>2, ProcFields, Labels, SetPc DEF JoinRunning, Goto, TypeOK
  <1>3. CASE /\ ~tx[running].aborted
             /\ proc[p].type \notin BlockedTypes(tx[running].state)
    <2>1. KeptGoal(p) \in 0..MaxTrans
      BY ProcFields DEF KeptGoal
    <2>2. proc' \in [Procs -> ProcState]
      BY <1>3, <2>1, ProcFields, Labels, SetPc, SetHandle, SetExt, SetCont,
         SetGoal DEF JoinRunning
    <2>3. tx' \in [TransIds -> TxState]
      <3>1. tx \in [TransIds -> TxState]
        BY DEF TypeOK
      <3>2. ASSUME NEW i \in TransIds, NEW b
            PROVE  /\ tx[i].use + 1 \in Int /\ tx[i].writers + 1 \in Int
                   /\ tx[i].ext + One(b) \in Int
        BY <3>1, CountersAreInt, OneType
      <3> DEFINE b == proc[p].type \in EXTWRITERS
                 f == [tx EXCEPT ![running].use = @ + 1]
                 g == [f EXCEPT ![running].writers = @ + 1]
      <3>3. f \in [TransIds -> TxState]
        BY <3>1, <3>2, SetTxUse
      <3>4. running \in TransIds => f[running].writers + 1 \in Int
        BY <3>3 DEF TxState
      <3>5. g \in [TransIds -> TxState]
        BY <3>3, <3>4, SetTxWriters
      <3>6. running \in TransIds => g[running].ext + One(b) \in Int
        <4>1. One(b) \in Int
          BY DEF One
        <4>2. running \in TransIds => g[running].ext \in Int
          BY <3>5 DEF TxState
        <4> HIDE DEF b, g
        <4>3. QED BY <4>1, <4>2
      <3>7. [g EXCEPT ![running].ext = @ + One(b)] \in [TransIds -> TxState]
        BY <3>5, <3>6, SetTxExt
      <3>8. tx' = [g EXCEPT ![running].ext = @ + One(b)]
        BY <1>3 DEF JoinRunning
      <3>9. QED BY <3>7, <3>8
    <2>4. QED BY <2>2, <2>3
  <1>4. QED BY <1>1, <1>2, <1>3

(* Every step leaves proc well typed. *)
LEMMA ProcStep ==
  ASSUME TypeOK, NEW p \in Procs, Step(p)
  PROVE  proc' \in [Procs -> ProcState]
  <1>1. ASSUME NEW op \in Ops \ {"WAIT"}, StartRequest(p, op)
        PROVE  proc' \in [Procs -> ProcState]
    <2>1. op # "BARRIER" => op \in HandleTypes
      BY ConstantsAssumption DEF HandleTypes
    <2>2. (IF op = "BARRIER" THEN "ATTACH" ELSE op) \in HandleTypes
      BY <2>1, Labels
    <2>3. (IF op = "BARRIER" THEN generation ELSE 0) \in 0..MaxTrans
      BY ProcFields
    <2>4. (IF op = "BARRIER" THEN "barrier" ELSE "none") \in Continuations
      BY Labels
    <2>5. QED
      BY <1>1, <2>2, <2>3, <2>4, ProcFields, Labels, SetPc, SetType, SetCont,
         SetGoal DEF StartRequest
  <1>2. CASE StartEntry(p)
    BY <1>2, ProcFields, Labels, ReturnedType, SetProc, SetPc
       DEF StartEntry, Return, Goto
  <1>3. CASE WaitCurrentTrans(p)
    BY <1>3, ProcFields, Labels, SetPc, SetRef
       DEF WaitCurrentTrans, Goto, AfterWaitCurrent
  <1>4. CASE CurrentTransUnblocked(p)
    BY <1>4, ProcFields, Labels, SetPc, SetRef
       DEF CurrentTransUnblocked, AfterWaitCurrent
  <1>5. CASE JoinTransaction(p)
    BY <1>5, ProcFields, Labels, ReturnedType, SetProc, SetPc,
       JoinRunningType DEF JoinTransaction, Return, Goto
  <1>6. CASE NewTransaction(p)
    <2>1. CASE JoinRunning(p)
      BY <2>1, JoinRunningType
    <2>2. CASE Return(p)
      BY <2>2, ProcFields, ReturnedType, SetProc DEF Return
    <2>3. CASE ~JoinRunning(p) /\ ~Return(p)
      <3>1. generation + 1 \in 0..MaxTrans
        BY <1>6, <2>3, ProcFields, ConstantsAssumption DEF NewTransaction
      <3>2. KeptGoal(p) \in 0..MaxTrans
        BY ProcFields DEF KeptGoal
      <3>3. QED
        BY <1>6, <2>3, <3>1, <3>2, ProcFields, Labels, SetPc, SetHandle,
           SetExt, SetCont, SetGoal DEF NewTransaction
    <2>4. QED BY <2>1, <2>2, <2>3
  <1>7. CASE Joined(p)
    BY <1>7, ProcFields, Labels, SetPc, SetThen, SetHandle DEF Joined
  <1>8. CASE NothingToJoin(p)
    BY <1>8, ProcFields, Labels, ReturnedType, SetProc, SetPc
       DEF NothingToJoin, Return, Goto
  <1>9. CASE EndRequest(p)
    BY <1>9, ProcFields, Labels, SetPc, SetCont DEF EndRequest
  <1>10. ASSUME NEW b \in BOOLEAN, CommitRequest(p, b)
        PROVE  proc' \in [Procs -> ProcState]
    BY <1>10, ProcFields, Labels, SetPc, SetFsync DEF CommitRequest
  <1>11. CASE CommitAsyncRequest(p)
    BY <1>11, ProcFields, Labels, SetPc, SetCont, SetRef
       DEF CommitAsyncRequest
  <1>12. CASE AsyncCommitStarted(p)
    BY <1>12, ProcFields, Labels, IdleType, SetProc DEF AsyncCommitStarted
  <1>13. CASE ChargeOrdered(p)
    BY <1>13, ProcFields, Labels DEF ChargeOrdered
  <1>14. CASE AbortRequest(p)
    BY <1>14, ProcFields, Labels, SetPc, SetCont DEF AbortRequest
  <1>15. CASE AbortTransaction(p)
    BY <1>15, ProcFields, Labels, SetPc DEF AbortTransaction, Goto
  <1>16. CASE HandleFsError(p)
    BY <1>16, ProcFields, Labels, SetPc DEF HandleFsError, Goto
  <1>17. CASE SyncLogRequest(p)
    BY <1>17, ProcFields, Labels, SetPc DEF SyncLogRequest, Goto
  <1>18. CASE SyncLogLock(p)
    BY <1>18, ProcFields, Labels, SetPc, SetCont DEF SyncLogLock, Goto
  <1>19. CASE SyncLogSuper(p)
    BY <1>19, ProcFields, Labels, SetPc, SetCont DEF SyncLogSuper, Goto
  <1>20. CASE EndTransaction(p)
    BY <1>20, ProcFields, Labels, SetPc, SetExt DEF EndTransaction
  <1>21. CASE EndPut(p)
    BY <1>21, ProcFields, Labels, ReturnedType, SetProc, SetPc, SetErr,
       SetHandle
       DEF EndPut, Return, EndError
  <1>22. ASSUME NEW i \in 0..generation, WaitRequest(p, i)
        PROVE  proc' \in [Procs -> ProcState]
    <2>1. i \in 0..MaxTrans
      BY <1>22, ProcFields, ConstantsAssumption
    <2>2. (IF i = 0 THEN "newest" ELSE "transid") \in Continuations
      BY Labels
    <2>3. QED
      BY <1>22, <2>1, <2>2, ProcFields, Labels, SetPc, SetCont, SetGoal
         DEF WaitRequest
  <1>23. CASE FindCommit(p)
    <2>1. CASE WaitOver(p, TRUE)
      <3>1. Fresh("barrierdone", "none", proc[p].goal) \in ProcState
        BY ProcFields, Labels, FreshType
      <3>2. /\ Fresh("scan", "none", 0) \in ProcState
            /\ Fresh("idle", "none", 0) \in ProcState
        BY Labels, FreshType, ZeroIsPointer
      <3>3. QED
        BY <2>1, <3>1, <3>2, ProcFields, SetProc DEF WaitOver
    <2>2. ASSUME NEW i \in CommitToWaitFor(p),
                 proc' = [proc EXCEPT ![p].pc = "wait", ![p].ref = i]
          PROVE  proc' \in [Procs -> ProcState]
      <3>1. i \in 0..MaxTrans
        BY <1>23, ProcFields DEF CommitToWaitFor, TypeOK, TransIds, Started
      <3>2. [proc EXCEPT ![p].pc = "wait"] \in [Procs -> ProcState]
        BY ProcFields, Labels, SetPc
      <3>3. QED
        BY <2>2, <3>1, <3>2, ProcFields, SetRef
    <2>3. QED
      BY <1>23, <2>1, <2>2 DEF FindCommit
  <1>24. CASE CommitReached(p)
    BY <1>24, ProcFields, Labels, SetPc, SetWtx DEF CommitReached
  <1>25. CASE WaitForEarlier(p)
    BY <1>25, ProcFields, Labels, SetPc, SetWtx DEF WaitForEarlier, Goto
  <1>26. CASE Waited(p)
    <2>1. CASE proc[p].cont = "prev"
      BY <1>26, <2>1, ProcFields, Labels, SetPc, SetCont, SetRef DEF Waited
    <2>2. CASE proc[p].cont = "waiter"
      <3>1. CASE Return(p)
        BY <3>1, ProcFields, ReturnedType, SetProc DEF Return
      <3>2. CASE ~Return(p)
        <4>1. [proc EXCEPT ![p].pc = "committed", ![p].ref = 0,
                           ![p].goal = proc[p].ref] \in [Procs -> ProcState]
          BY ProcFields, Labels, SetPc, SetRef, SetGoal
        <4>2. proc' = [proc EXCEPT ![p].pc = "committed", ![p].ref = 0,
                                   ![p].goal = proc[p].ref,
                                   ![p].cont = "none"]
          BY <1>26, <2>2, <3>2 DEF Waited
        <4>3. QED BY <4>1, <4>2, Labels, SetCont
      <3>3. QED BY <3>1, <3>2
    <2>3. CASE proc[p].cont \notin {"prev", "waiter"}
      <3>1. WaitOver(p, ~tx[proc[p].ref].aborted)
        BY <1>26, <2>3 DEF Waited
      <3>2. Fresh("barrierdone", "none", proc[p].goal) \in ProcState
        BY ProcFields, Labels, FreshType
      <3>3. Fresh(IF proc[p].cont = "scan" THEN "scan" ELSE "idle",
                  "none", 0) \in ProcState
        BY ProcFields, Labels, FreshType
      <3>4. QED BY <3>1, <3>2, <3>3, ProcFields, SetProc DEF WaitOver
    <2>4. QED BY <2>1, <2>2, <2>3
  <1>27. CASE Acknowledge(p)
    BY <1>27, ProcFields, Labels, ReturnedType, SetProc
       DEF Acknowledge, Return
  <1>28. CASE CommitEntry(p)
    BY <1>28, ProcFields, Labels, SetPc, SetCont DEF CommitEntry, Goto
  <1>29. CASE CommitPrep(p)
    <2>1. CASE CommitHasStarted(proc[p].tx)
      BY <1>29, <2>1, ProcFields, Labels, SetPc, SetCont, SetRef
         DEF CommitPrep
    <2>2. CASE ~CommitHasStarted(proc[p].tx)
      <3>1. ASSUME NEW k \in listed,
                   proc' = [proc EXCEPT ![p].pc = "wait",
                                        ![p].cont = "prev", ![p].ref = k]
            PROVE  proc' \in [Procs -> ProcState]
        BY <3>1, ProcFields, Labels, SetPc, SetCont, SetRef
      <3>2. CASE Fail(p)
        BY <3>2, ProcFields, Labels, SetPc, SetCont DEF Fail
      <3>3. CASE Goto(p, "dropext")
        BY <3>3, ProcFields, Labels, SetPc DEF Goto
      <3>4. \/ \E k \in listed :
                  proc' = [proc EXCEPT ![p].pc = "wait",
                                       ![p].cont = "prev", ![p].ref = k]
            \/ Fail(p) \/ Goto(p, "dropext")
        BY <1>29, <2>2 DEF CommitPrep
      <3>5. QED BY <3>1, <3>2, <3>3, <3>4
    <2>3. QED BY <2>1, <2>2
  <1>30. CASE PrevCommitted(p)
    BY <1>30, ProcFields, Labels, SetPc DEF PrevCommitted, Goto
  <1>31. CASE DropExtwriter(p)
    BY <1>31, ProcFields, Labels, SetPc, SetExt, SetCont DEF DropExtwriter
  <1>32. CASE NoExtwriters(p)
    BY <1>32, ProcFields, Labels, SetPc, SetCont
       DEF NoExtwriters, Goto, Fail, GotoOrFail
  <1>33. CASE NoPendingOrdered(p)
    BY <1>33, ProcFields, Labels, SetPc DEF NoPendingOrdered, Goto
  <1>34. CASE NoOtherWriters(p)
    BY <1>34, ProcFields, Labels, SetPc, SetCont
       DEF NoOtherWriters, Goto, Fail
  <1>35. CASE CommitDoing(p)
    BY <1>35, ProcFields, Labels, SetPc, SetCont DEF CommitDoing, Goto, Fail
  <1>36. CASE CommitUnblock(p)
    BY <1>36, ProcFields, Labels, SetPc DEF CommitUnblock, Goto
  <1>37. CASE WriteBlocks(p)
    BY <1>37, ProcFields, Labels, SetPc, SetCont DEF WriteBlocks, Goto, Fail
  <1>38. CASE WriteSuper(p)
    BY <1>38, ProcFields, Labels, SetPc, SetCont DEF WriteSuper, Goto, Fail
  <1>39. CASE CommitFinish(p)
    BY <1>39, ProcFields, Labels, SetPc DEF CommitFinish, Goto
  <1>40. CASE CommitUnlist(p)
    BY <1>40, ProcFields, Labels, SetPc DEF CommitUnlist, Goto
  <1>41. CASE CommitPut(p)
    <2>1. [proc EXCEPT ![p].pc = "committed", ![p].goal = proc[p].tx,
                    ![p].tx = 0] \in [Procs -> ProcState]
      BY ProcFields, Labels, SetPc, SetGoal, SetHandle
    <2>2. QED BY <1>41, <2>1, SetExt DEF CommitPut
  <1>42. CASE CleanupLock(p)
    BY <1>42, ProcFields, Labels, SetPc DEF CleanupLock, Goto
  <1>43. CASE CleanupWait(p)
    BY <1>43, ProcFields, Labels, SetPc DEF CleanupWait, Goto
  <1>44. CASE CleanupUnlist(p)
    BY <1>44, ProcFields, Labels, SetPc, SetDoom DEF CleanupUnlist
  <1>45. CASE CleanupOne(p)
    BY <1>45, ProcFields, Labels, SetPc DEF CleanupOne, Goto, CleanupState
  <1>46. CASE CleanupDone(p)
    BY <1>46, ProcFields, Labels, ReturnedType, FreshType, SetProc
       DEF CleanupDone, Return
  <1>47. CASE KthreadAttach(p)
    BY <1>47, ProcFields, Labels, SetPc, SetType, SetGoal DEF KthreadAttach
  <1>48. CASE KthreadAttached(p)
    BY <1>48, ProcFields, Labels, SetPc, SetCont DEF KthreadAttached
  <1>49. CASE KthreadError(p)
    BY <1>49, ProcFields, Labels, SetPc DEF KthreadError, Goto
  <1>50. CASE KthreadScan(p)
    <2>1. CASE listed = {}
      BY <1>50, <2>1, ProcFields, Labels, SetPc DEF KthreadScan, Goto
    <2>2. ASSUME NEW i \in listed, Oldest(i), HasCommitter(i),
                 proc' = [proc EXCEPT ![p].pc = "find", ![p].cont = "scan",
                                      ![p].goal = i, ![p].pin = i]
          PROVE  proc' \in [Procs -> ProcState]
      BY <2>2, ProcFields, Labels, SetPc, SetCont, SetGoal, SetPin
    <2>3. ASSUME NEW i \in listed, Oldest(i), ~HasCommitter(i),
                 proc' = [proc EXCEPT ![p].doom = i,
                            ![p].pc = IF i = running THEN "drain"
                                                     ELSE "clean1"]
          PROVE  proc' \in [Procs -> ProcState]
      BY <2>3, ProcFields, Labels, SetPc, SetDoom
    <2>4. QED BY <1>50, <2>1, <2>2, <2>3 DEF KthreadScan
  <1>51. CASE KthreadDrain(p)
    BY <1>51, ProcFields, Labels, SetPc DEF KthreadDrain, Goto
  <1>52. QED
    BY <1>1, <1>2, <1>3, <1>4, <1>5, <1>6, <1>7, <1>8, <1>9, <1>10, <1>11,
       <1>12, <1>13, <1>14, <1>15, <1>16, <1>17, <1>18, <1>19, <1>20, <1>21,
       <1>22, <1>23, <1>24, <1>25, <1>26, <1>27, <1>28, <1>29, <1>30, <1>31,
       <1>32, <1>33, <1>34, <1>35, <1>36, <1>37, <1>38, <1>39, <1>40, <1>41,
       <1>42, <1>43, <1>44, <1>45, <1>46, <1>47, <1>48, <1>49, <1>50, <1>51
       DEF Step, Requests, Release, LogLocks, Proceed

(* Every step leaves tx well typed. *)
LEMMA TxStep ==
  ASSUME TypeOK, NEW p \in Procs, Step(p)
  PROVE  tx' \in [TransIds -> TxState]
  <1>t. tx \in [TransIds -> TxState]
    BY DEF TypeOK
  <1>1. CASE WaitCurrentTrans(p)
    BY <1>1, <1>t, PinType DEF WaitCurrentTrans
  <1>2. CASE CurrentTransUnblocked(p)
    BY <1>2, <1>t, PinType DEF CurrentTransUnblocked
  <1>3. CASE JoinTransaction(p)
    BY <1>3, <1>t, JoinRunningType DEF JoinTransaction
  <1>4. CASE NewTransaction(p)
    BY <1>4, <1>t, JoinRunningType, NewTxType, SetTx
       DEF NewTransaction, list
  <1>5. CASE CommitAsyncRequest(p)
    BY <1>5, <1>t, PinType DEF CommitAsyncRequest
  <1>6. CASE AsyncCommitStarted(p)
    BY <1>6, <1>t, PinType DEF AsyncCommitStarted
  <1>7. CASE ChargeOrdered(p)
    <2>1. proc[p].tx \in TransIds => tx[proc[p].tx].pending + 1 \in Int
      BY <1>t, CountersAreInt
    <2>2. QED BY <1>7, <1>t, <2>1, SetTxPending DEF ChargeOrdered
  <1>8. CASE AbortTransaction(p)
    BY <1>8, <1>t, SetTxAborted DEF AbortTransaction
  <1>9. CASE EndTransaction(p)
    <2>1. ASSUME NEW i \in TransIds
          PROVE  /\ tx[i].writers - 1 \in Int
                 /\ tx[i].ext - DropExt(p) \in Int
      BY <1>t, CountersAreInt, DropExtType
    <2>2. QED
      BY <1>9, <1>t, <2>1, SetTxWriters, SetTxExt DEF EndTransaction
  <1>10. CASE EndPut(p)
    BY <1>10, <1>t, PinType DEF EndPut
  <1>11. CASE FindCommit(p)
    BY <1>11, <1>t, PinType DEF FindCommit
  <1>12. CASE CommitReached(p)
    BY <1>12, <1>t, PinType DEF CommitReached
  <1>13. CASE WaitForEarlier(p)
    BY <1>13, <1>t, PinType DEF WaitForEarlier
  <1>14. CASE Waited(p)
    <2>1. ASSUME NEW i
          PROVE  [tx EXCEPT ![i].use = @ - 2] \in [TransIds -> TxState]
      <3>1. i \in TransIds => tx[i].use - 2 \in Int
        BY <1>t, CountersAreInt
      <3>2. QED BY <1>t, <3>1, SetTxUse
    <2>2. ASSUME NEW i, NEW k
          PROVE  [Put(i) EXCEPT ![k].use = @ - 1] \in [TransIds -> TxState]
      <3>1. Put(i) \in [TransIds -> TxState]
        BY <1>t, PinType
      <3>2. k \in TransIds => Put(i)[k].use - 1 \in Int
        BY <3>1 DEF TxState
      <3>3. QED BY <3>1, <3>2, SetTxUse
    <2>3. QED BY <1>14, <1>t, <2>1, <2>2, PinType DEF Waited
  <1>15. CASE CommitPrep(p)
    <2>1. ASSUME NEW k,
                 tx' = [Pin(k) EXCEPT ![proc[p].tx].state = COMMIT_PREP]
          PROVE  tx' \in [TransIds -> TxState]
      BY <1>t, <2>1, PinType, SetTxState, StatesType
    <2>2. CASE tx' = [tx EXCEPT ![proc[p].tx].state = COMMIT_PREP]
      BY <1>t, <2>2, SetTxState, StatesType
    <2>3. CASE tx' = [tx EXCEPT ![proc[p].tx].state = COMMIT_START]
      BY <1>t, <2>3, SetTxState, StatesType
    <2>4. CASE tx' = Pin(proc[p].tx)
      BY <1>t, <2>4, PinType
    <2>5. \/ \E k \in listed :
                tx' = [Pin(k) EXCEPT ![proc[p].tx].state = COMMIT_PREP]
          \/ tx' = [tx EXCEPT ![proc[p].tx].state = COMMIT_PREP]
          \/ tx' = [tx EXCEPT ![proc[p].tx].state = COMMIT_START]
          \/ tx' = Pin(proc[p].tx)
      BY <1>15 DEF CommitPrep
    <2>6. QED BY <2>1, <2>2, <2>3, <2>4, <2>5
  <1>16. CASE PrevCommitted(p)
    BY <1>16, <1>t, SetTxState, StatesType DEF PrevCommitted
  <1>17. CASE DropExtwriter(p)
    <2>1. ASSUME NEW i \in TransIds
          PROVE  tx[i].ext - DropExt(p) \in Int
      BY <1>t, CountersAreInt, DropExtType
    <2>2. QED BY <1>17, <1>t, <2>1, SetTxExt DEF DropExtwriter
  <1>18. CASE NoPendingOrdered(p)
    BY <1>18, <1>t, SetTxState, StatesType DEF NoPendingOrdered
  <1>19. CASE CommitUnblock(p)
    BY <1>19, <1>t, SetTxState, StatesType DEF CommitUnblock
  <1>20. CASE WriteSuper(p)
    BY <1>20, <1>t, SetTxState, StatesType DEF WriteSuper
  <1>21. CASE CommitFinish(p)
    BY <1>21, <1>t, SetTxState, StatesType DEF CommitFinish
  <1>22. CASE CommitPut(p)
    <2>1. ASSUME NEW i \in TransIds
          PROVE  tx[i].use - 2 \in Int
      BY <1>t, CountersAreInt
    <2>2. QED BY <1>22, <1>t, <2>1, SetTxUse DEF CommitPut
  <1>23. CASE CleanupLock(p)
    BY <1>23, <1>t, SetTxState, StatesType DEF CleanupLock
  <1>24. CASE CleanupOne(p)
    BY <1>24, <1>t, SetTxState, StatesType DEF CleanupOne, CleanupState
  <1>25. CASE CleanupDone(p)
    <2>1. ASSUME NEW i \in TransIds
          PROVE  tx[i].use - 2 \in Int /\ tx[i].use - 1 \in Int
      BY <1>t, CountersAreInt
    <2>2. QED BY <1>25, <1>t, <2>1, SetTxUse DEF CleanupDone
  <1>26. CASE KthreadScan(p)
    <2>1. ASSUME NEW i
          PROVE  [tx EXCEPT ![i].state = COMMIT_DOING]
                    \in [TransIds -> TxState]
      BY <1>t, SetTxState, StatesType
    <2>2. QED BY <1>26, <1>t, <2>1, PinType DEF KthreadScan
  <1>27. CASE UNCHANGED tx
    BY <1>27, <1>t
  <1>28. QED
    BY <1>1, <1>2, <1>3, <1>4, <1>5, <1>6, <1>7, <1>8, <1>9, <1>10, <1>11,
       <1>12, <1>13, <1>14, <1>15, <1>16, <1>17, <1>18, <1>19, <1>20, <1>21,
       <1>22, <1>23, <1>24, <1>25, <1>26, <1>27
       DEF Step, Requests, Release, LogLocks, Proceed, shared, StartRequest,
           StartEntry, Joined, NothingToJoin, EndRequest, CommitRequest,
           AbortRequest, HandleFsError, SyncLogRequest, SyncLogLock,
           SyncLogSuper, WaitRequest, Acknowledge, CommitEntry, NoExtwriters,
           NoOtherWriters, CommitDoing, WriteBlocks, CommitUnlist,
           CleanupWait, CleanupUnlist, KthreadAttach, KthreadAttached,
           KthreadError, KthreadDrain

(* Every step leaves the other variables well typed. *)
LEMMA RestStep ==
  ASSUME TypeOK, NEW p \in Procs, Step(p)
  PROVE  /\ generation' \in 0..MaxTrans /\ running' \in 0..MaxTrans
         /\ listed' \subseteq TransIds
         /\ fsError' \in BOOLEAN /\ lastCommitted' \in 0..MaxTrans
         /\ superForCommit' \in Super /\ disk' \in Super
         /\ written' \subseteq 0..MaxTrans
         /\ treeLogMutex' \in Procs \cup {None}
         /\ ordered' \in 0..MaxTrans
  <1> DEFINE Typed ==
        /\ generation' \in 0..MaxTrans /\ running' \in 0..MaxTrans
        /\ listed' \subseteq TransIds
        /\ fsError' \in BOOLEAN /\ lastCommitted' \in 0..MaxTrans
        /\ superForCommit' \in Super /\ disk' \in Super
        /\ written' \subseteq 0..MaxTrans
        /\ treeLogMutex' \in Procs \cup {None}
        /\ ordered' \in 0..MaxTrans
  <1>t. /\ generation \in 0..MaxTrans /\ running \in 0..MaxTrans
        /\ listed \subseteq TransIds
        /\ fsError \in BOOLEAN /\ lastCommitted \in 0..MaxTrans
        /\ superForCommit \in Super /\ disk \in Super
        /\ written \subseteq 0..MaxTrans
        /\ treeLogMutex \in Procs \cup {None}
        /\ ordered \in 0..MaxTrans
    BY DEF TypeOK
  <1>1. CASE ChargeOrdered(p)
    BY <1>1, <1>t, ProcFields DEF ChargeOrdered, list
  <1>2. CASE HandleFsError(p)
    BY <1>2, <1>t, ProcFields DEF HandleFsError, list
  <1>3. CASE SyncLogSuper(p)
    BY <1>3, <1>t, ProcFields DEF SyncLogSuper, list
  <1>4. CASE CommitUnblock(p)
    BY <1>4, <1>t, ProcFields DEF CommitUnblock
  <1>5. CASE WriteBlocks(p)
    BY <1>5, <1>t, ProcFields DEF WriteBlocks, list
  <1>6. CASE WriteSuper(p)
    BY <1>6, <1>t, ProcFields DEF WriteSuper, list
  <1>7. CASE CommitFinish(p)
    BY <1>7, <1>t, ProcFields DEF CommitFinish, list
  <1>8. CASE CommitUnlist(p)
    BY <1>8, <1>t, ProcFields DEF CommitUnlist, durable
  <1>9. CASE CleanupUnlist(p)
    BY <1>9, <1>t, ProcFields DEF CleanupUnlist, durable
  <1>10. CASE CleanupDone(p)
    BY <1>10, <1>t, ProcFields DEF CleanupDone, durable
  <1>11. CASE NewTransaction(p)
    <2>1. CASE UNCHANGED list
      BY <1>11, <1>t, <2>1 DEF NewTransaction, list, durable
    <2>2. CASE ~UNCHANGED list
      <3>1. generation + 1 \in 0..MaxTrans /\ generation + 1 \in TransIds
        BY <1>11, <1>t, <2>2, ConstantsAssumption
           DEF NewTransaction, list, TransIds
      <3>2. QED BY <1>11, <1>t, <2>2, <3>1 DEF NewTransaction, list, durable
    <2>3. QED BY <2>1, <2>2
  <1>12. CASE SyncLogLock(p)
    <2>1. superForCommit' \in Super
      BY <1>12, <1>t, ProcFields DEF SyncLogLock, Super
    <2>2. QED BY <1>12, <1>t, <2>1 DEF SyncLogLock, list
  <1>13. CASE CommitDoing(p)
    <2>1. superForCommit' \in Super
      BY <1>13, <1>t, ProcFields DEF CommitDoing, SuperOf, Super
    <2>2. QED BY <1>13, <1>t, <2>1 DEF CommitDoing, list
  <1>14. CASE UNCHANGED <<list, fsError, durable>> \/ UNCHANGED shared
    BY <1>14, <1>t DEF shared, list, durable
  <1>15. QED
    BY <1>1, <1>2, <1>3, <1>4, <1>5, <1>6, <1>7, <1>8, <1>9, <1>10, <1>11,
       <1>12, <1>13, <1>14
       DEF Step, Requests, Release, LogLocks, Proceed, CleanupState,
           StartRequest, StartEntry, WaitCurrentTrans, CurrentTransUnblocked,
           JoinTransaction, Joined, NothingToJoin, EndRequest, CommitRequest,
           CommitAsyncRequest, AsyncCommitStarted, AbortRequest,
           AbortTransaction, SyncLogRequest, EndTransaction, EndPut,
           WaitRequest, FindCommit, CommitReached, WaitForEarlier, Waited,
           Acknowledge, CommitEntry, CommitPrep, PrevCommitted, DropExtwriter,
           NoExtwriters, NoPendingOrdered, NoOtherWriters, CommitPut,
           CleanupLock, CleanupWait, CleanupOne, KthreadAttach,
           KthreadAttached, KthreadError, KthreadScan, KthreadDrain

(* The ordered extent's completion leaves everything well typed. *)
LEMMA OrderedCompleteType ==
  ASSUME TypeOK, OrderedComplete
  PROVE  TypeOK'
  <1>1. tx' \in [TransIds -> TxState]
    <2>1. tx \in [TransIds -> TxState]
      BY DEF TypeOK
    <2>2. running \in TransIds => tx[running].pending - 1 \in Int
      BY <2>1, CountersAreInt
    <2>3. QED BY <2>1, <2>2, SetTxPending DEF OrderedComplete
  <1>2. QED
    BY <1>1, ZeroIsPointer DEF TypeOK, OrderedComplete, list

LEMMA InitType == Init => TypeOK
  <1>1. ASSUME Init
        PROVE  TypeOK
    <2>1. tx \in [TransIds -> TxState]
      BY <1>1, StatesType DEF Init, Tx, TxState
    <2>2. proc \in [Procs -> ProcState]
      BY <1>1, IdleType DEF Init
    <2>3. superForCommit \in Super /\ disk \in Super
      BY <1>1, ZeroIsPointer DEF Init, Super
    <2>4. QED BY <1>1, <2>1, <2>2, <2>3, ZeroIsPointer DEF Init, TypeOK
  <1>2. QED BY <1>1

(* TypeOK is inductive. *)
LEMMA TypeStep ==
  ASSUME TypeOK, [Next]_vars
  PROVE  TypeOK'
  <1>1. ASSUME NEW p \in Procs, Step(p)
        PROVE  TypeOK'
    BY <1>1, ProcStep, TxStep, RestStep DEF TypeOK
  <1>2. CASE OrderedComplete
    BY <1>2, OrderedCompleteType
  <1>3. CASE UNCHANGED vars
    BY <1>3 DEF TypeOK, vars, shared, list, durable
  <1>4. QED BY <1>1, <1>2, <1>3 DEF Next

(* In every reachable state all pointers are NULL or a transaction, and    *)
(* all control points, states and counters are in range.                   *)
THEOREM TypeCorrect == Spec => []TypeOK
  BY InitType, TypeStep, PTL DEF Spec

-----------------------------------------------------------------------------
(***************************************************************************)
(* Counting tasks                                                          *)
(***************************************************************************)
LEMMA ProcsFinite == IsFiniteSet(Procs)
  BY FiniteProcs, FS_Union DEF Procs

LEMMA TasksFinite ==
  ASSUME NEW S \in SUBSET Procs
  PROVE  IsFiniteSet(S) /\ Cardinality(S) \in Nat
  BY ProcsFinite, FS_Subset, FS_CardinalityType

LEMMA CountIn ==
  ASSUME NEW S \in SUBSET Procs, NEW p \in Procs, p \notin S
  PROVE  Cardinality(S \cup {p}) = Cardinality(S) + 1
  BY TasksFinite, FS_AddElement

LEMMA CountOut ==
  ASSUME NEW S \in SUBSET Procs, NEW p \in S
  PROVE  Cardinality(S \ {p}) = Cardinality(S) - 1
  BY TasksFinite, FS_RemoveElement

LEMMA CountNone ==
  ASSUME NEW S \in SUBSET Procs, Cardinality(S) = 0
  PROVE  S = {}
  BY TasksFinite, FS_EmptySet

LEMMA CountOne ==
  ASSUME NEW S \in SUBSET Procs, NEW p \in S, Cardinality(S) = 1
  PROVE  S = {p}
  BY TasksFinite, FS_Singleton

-----------------------------------------------------------------------------
(***************************************************************************)
(* Roles                                                                   *)
(***************************************************************************)
LEMMA RoleType ==
  ASSUME NEW r
  PROVE  Role(r) \in Roles
  BY DEF Role, Roles, Owners, Committers, Reapers

LEMMA StateValues ==
  /\ RUNNING = 0 /\ COMMIT_PREP = 1 /\ COMMIT_START = 2 /\ COMMIT_DOING = 3
  /\ UNBLOCKED = 4 /\ SUPER_COMMITTED = 5 /\ COMPLETED = 6
  BY DEF RUNNING, COMMIT_PREP, COMMIT_START, COMMIT_DOING, UNBLOCKED,
         SUPER_COMMITTED, COMPLETED

LEMMA RolePoints ==
  ASSUME NEW r
  PROVE  /\ Role(r) = "handle" <=> \/ r.pc \in HandlePoints
                                   \/ r.pc \in ErrorPoints /\ r.cont # "clean"
         /\ Role(r) = "put" <=> r.pc = "endput"
         /\ Role(r) = "prep" <=> \/ r.pc = "prevdone"
                                 \/ r.pc \in WaitPoints /\ r.cont = "prev"
         /\ Role(r) = "start" <=> r.pc \in {"dropext", "extwait"}
         /\ Role(r) = "quiet" <=> r.pc = "ordwait"
         /\ Role(r) = "doing" <=> r.pc = "wrwait"
         /\ Role(r) = "alone" <=> r.pc \in {"doing", "unblock"}
         /\ Role(r) = "writing" <=> r.pc \in {"write", "super"}
         /\ Role(r) = "done" <=> r.pc \in {"finish", "unlist"}
         /\ Role(r) = "gone" <=> r.pc = "putbase"
         /\ Role(r) = "fail" <=> \/ r.pc = "cleanlock"
                                 \/ r.pc \in ErrorPoints /\ r.cont = "clean"
         /\ Role(r) = "failwait" <=> r.pc = "cleanwait"
         /\ Role(r) = "dead" <=> r.pc = "cleandel"
         /\ Role(r) = "walk" <=> r.pc \in WalkPoints /\ r.tx # 0
         /\ Role(r) = "kwalk" <=> r.pc \in WalkPoints /\ r.tx = 0
         /\ Role(r) = "kdrain" <=> r.pc = "drain"
  BY DEF Role, HandlePoints, ErrorPoints, WaitPoints, WalkPoints

(* A task without a role has no target, the others have one. *)
LEMMA TargetOfRole ==
  ASSUME NEW r, Shape(r)
  PROVE  /\ Target(r) # 0 <=> Role(r) # "out"
         /\ Role(r) \in Holders <=> r.tx # 0
         /\ Role(r) \in Holders => Target(r) = r.tx
         /\ Role(r) \in Reapers => Target(r) = r.doom /\ r.tx = 0
  <1>1. Role(r) \in Reapers => r.doom # 0
    BY RolePoints DEF Reapers, Shape
  <1>2. r.doom # 0 => Role(r) \in {"walk", "kwalk", "kdrain"}
    BY RolePoints DEF Shape
  <1>3. Role(r) \in Roles
    BY RoleType
  <1>4. QED
    BY <1>1, <1>2, <1>3
       DEF Shape, Target, Roles, Owners, Holders, Committers, Reapers

(* The open handles of a transaction, by role. *)
LEMMA WriterByRole ==
  ASSUME NEW r, Shape(r), NEW i, i # 0
  PROVE  (r.tx = i /\ r.pc # "endput")
            <=> (Target(r) = i /\ Role(r) \in Writing)
  <1>1. r.pc = "endput" <=> Role(r) = "put"
    BY RolePoints
  <1>2. QED
    BY <1>1, TargetOfRole, RoleType
       DEF Writing, Roles, Owners, Holders, Committers, Reapers

Counted(i) == {q \in Procs : TargetOf(q) = i /\ RoleOf(q) \in Writing}
CountedExt(i) == {q \in Counted(i) : proc[q].ext}

(* WritersAreHandles in terms of the roles. *)
LEMMA CountedWriters ==
  ASSUME Shapes, NEW i, i # 0
  PROVE  /\ Writers(i) = Counted(i)
         /\ {p \in Writers(i) : proc[p].ext} = CountedExt(i)
  <1>1. \A p \in Procs : p \in Writers(i) <=> p \in Counted(i)
    BY WriterByRole
       DEF Shapes, Writers, At, Counted, TargetOf, RoleOf
  <1>2. QED BY <1>1 DEF Writers, Counted, CountedExt

-----------------------------------------------------------------------------
(***************************************************************************)
(* Kinds of steps                                                          *)
(***************************************************************************)
NewRole(p)   == Role(proc'[p])
NewTarget(p) == Target(proc'[p])

OthersStay(p) == \A q \in Procs \ {p} : proc'[q] = proc[q]
SameStates    == \A i \in TransIds : tx'[i].state = tx[i].state
SameStatesBut(k) ==
  \A i \in TransIds \ {k} : tx'[i].state = tx[i].state

(* Task p is or becomes no external writer any more: the counter says so.  *)
SameCounts(p) ==
  /\ proc'[p].ext => proc[p].ext
  /\ \A i \in TransIds :
        /\ tx'[i].writers = tx[i].writers
        /\ tx'[i].ext = tx[i].ext - One(/\ i = TargetOf(p)
                                       /\ RoleOf(p) \in Writing
                                       /\ proc[p].ext /\ ~proc'[p].ext)

(* Nothing happens to the role of p. *)
Stays(p) ==
  /\ NewRole(p) = RoleOf(p) /\ NewTarget(p) = TargetOf(p)
  /\ RoleOf(p) \in Writing => proc'[p].ext = proc[p].ext
  /\ UNCHANGED list /\ SameStates
  /\ \A i \in TransIds : /\ tx'[i].writers = tx[i].writers
                         /\ tx'[i].ext = tx[i].ext

(* p gets a handle on the running transaction. *)
Joins(p) ==
  /\ RoleOf(p) = "out" /\ NewRole(p) = "handle" /\ NewTarget(p) = running
  /\ running # 0 /\ ~fsError
  /\ tx[running].state # COMMIT_DOING
  /\ UNCHANGED list /\ SameStates
  /\ \A i \in TransIds :
        /\ tx'[i].writers = tx[i].writers + One(i = running)
        /\ tx'[i].ext = tx[i].ext + One(i = running /\ proc'[p].ext)

(* p creates the running transaction. *)
Opens(p) ==
  LET new == generation + 1 IN
  /\ RoleOf(p) = "out" /\ NewRole(p) = "handle" /\ NewTarget(p) = new
  /\ running = 0 /\ running' = new /\ generation' = new
  /\ listed' = listed \cup {new} /\ new \in TransIds
  /\ tx'[new].writers = 1 /\ tx'[new].ext = One(proc'[p].ext)
  /\ \A i \in TransIds \ {new} : tx'[i] = tx[i]

(* p ends its handle. *)
Leaves(p) ==
  /\ RoleOf(p) = "handle" /\ NewRole(p) = "put"
  /\ NewTarget(p) = TargetOf(p)
  /\ UNCHANGED list /\ SameStates
  /\ \A i \in TransIds :
        /\ tx'[i].writers = tx[i].writers - One(i = TargetOf(p))
        /\ tx'[i].ext = tx[i].ext - One(i = TargetOf(p) /\ proc[p].ext)

(* p becomes the owner of the running transaction. *)
Takes(p) ==
  LET i == NewTarget(p) IN
  /\ NewRole(p) \in Owners \ Sealers
  /\ \/ /\ RoleOf(p) = "handle" /\ i = TargetOf(p)
        /\ NewRole(p) \in Committers
     \/ RoleOf(p) = "out" /\ NewRole(p) \in Reapers
  /\ i = running /\ tx[i].state < COMMIT_PREP
  /\ OwnedState(NewRole(p), tx'[i].state)
  /\ OwnedPlace(NewRole(p), tx'[i].state, i, running, listed)
  /\ UNCHANGED list /\ SameStatesBut(i)
  /\ proc'[p].ext = proc[p].ext
  /\ \A j \in TransIds : /\ tx'[j].writers = tx[j].writers
                         /\ tx'[j].ext = tx[j].ext

(* p, an owner, goes on committing or tearing down. *)
MovesOn(p) ==
  LET i == TargetOf(p) IN
  /\ RoleOf(p) \in Owners /\ NewTarget(p) = i
  /\ \/ RoleOf(p) \in Committers /\ NewRole(p) \in Committers
     \/ RoleOf(p) \in Reapers /\ NewRole(p) \in Reapers
  /\ OwnedState(NewRole(p), tx'[i].state)
  /\ OwnedPlace(NewRole(p), tx'[i].state, i, running', listed')
  /\ UNCHANGED generation
  /\ \/ UNCHANGED running
     \/ RoleOf(p) \in Sealers /\ running = i /\ running' = 0
  /\ \/ UNCHANGED listed
     \/ listed' = listed \ {i} /\ (i = running => NewRole(p) = "walk")
  /\ i \in listed' /\ i # running' => tx'[i].state >= UNBLOCKED
  /\ NewRole(p) \in Sealers =>
        \/ RoleOf(p) \in Sealers \/ i # running
        \/ RoleOf(p) \in Committers /\ tx[i].writers = 1
        \/ RoleOf(p) \in Reapers /\ tx[i].writers = 0
  /\ SameStatesBut(i) /\ SameCounts(p)

(* p has no more to do with its transaction. *)
Drops(p) ==
  LET i == TargetOf(p) IN
  /\ NewRole(p) = "out"
  /\ \/ RoleOf(p) = "put" /\ UNCHANGED <<running, listed>>
     \/ /\ RoleOf(p) \in {"gone", "walk", "kwalk"}
        /\ listed' = listed \ {i}
        /\ running' = IF running = i THEN 0 ELSE running
  /\ UNCHANGED generation /\ SameStates
  /\ \A j \in TransIds : /\ tx'[j].writers = tx[j].writers
                         /\ tx'[j].ext = tx[j].ext

Kind(p) == \/ Stays(p) \/ Joins(p) \/ Opens(p) \/ Leaves(p) \/ Takes(p)
           \/ MovesOn(p) \/ Drops(p)

(* What the tasks other than p are afterwards. *)
LEMMA OthersRoles ==
  ASSUME NEW p \in Procs, OthersStay(p), NEW q \in Procs \ {p}
  PROVE  /\ RoleOf(q)' = RoleOf(q) /\ TargetOf(q)' = TargetOf(q)
         /\ proc'[q].ext = proc[q].ext
  BY DEF OthersStay, RoleOf, TargetOf

LEMMA OwnRole ==
  ASSUME NEW p \in Procs
  PROVE  RoleOf(p)' = NewRole(p) /\ TargetOf(p)' = NewTarget(p)
  BY DEF RoleOf, TargetOf, NewRole, NewTarget

LEMMA RoleSets ==
  /\ "out" \notin Owners /\ "handle" \notin Owners /\ "put" \notin Owners
  /\ "out" \notin Sealers /\ "handle" \notin Sealers
  /\ "put" \notin Sealers /\ Sealers \subseteq Owners
  /\ Committers \subseteq Owners /\ Reapers \subseteq Owners
  /\ Committers \cap Reapers = {} /\ "walk" \in Sealers
  /\ {"gone", "walk", "kwalk"} \subseteq Owners
  /\ {"walk", "kwalk"} \subseteq Sealers
  BY DEF Owners, Sealers, Committers, Reapers

LEMMA TargetType ==
  ASSUME TypeOK, Shapes, NEW q \in Procs
  PROVE  /\ TargetOf(q) \in 0..MaxTrans
         /\ RoleOf(q) # "out" => TargetOf(q) \in TransIds /\ TargetOf(q) # 0
         /\ RoleOf(q) = "out" => TargetOf(q) = 0
  <1>1. proc[q].tx \in 0..MaxTrans /\ proc[q].doom \in 0..MaxTrans
    BY DEF TypeOK, ProcState
  <1>2. Target(proc[q]) # 0 <=> Role(proc[q]) # "out"
    BY TargetOfRole DEF Shapes
  <1>3. QED
    BY <1>1, <1>2, ConstantsAssumption
       DEF TargetOf, RoleOf, Target, TransIds

LEMMA NewTargetType ==
  ASSUME TypeOK', Shapes', NEW q \in Procs
  PROVE  NewRole(q) # "out" => NewTarget(q) \in TransIds /\ NewTarget(q) # 0
  <1>1. proc'[q].tx \in 0..MaxTrans /\ proc'[q].doom \in 0..MaxTrans
    BY DEF TypeOK, ProcState
  <1>2. Target(proc'[q]) # 0 <=> Role(proc'[q]) # "out"
    BY TargetOfRole DEF Shapes
  <1>3. QED
    BY <1>1, <1>2, ConstantsAssumption
       DEF NewTarget, NewRole, Target, TransIds

LEMMA StaysRoleInv ==
  ASSUME TypeOK, Shapes, RoleInv, NEW p \in Procs, OthersStay(p), Stays(p)
  PROVE  RoleInv'
  <1>1. \A q \in Procs : RoleOf(q)' = RoleOf(q) /\ TargetOf(q)' = TargetOf(q)
    BY OthersRoles, OwnRole DEF Stays
  <1>2. running' = running /\ listed' = listed /\ generation' = generation
    BY DEF Stays, list
  <1>3. \A i \in TransIds : tx'[i].state = tx[i].state
    BY DEF Stays, SameStates
  <1>4. Bounded' /\ HandlesAreRunning' /\ OneOwner' /\ RunningIsListed'
    BY <1>1, <1>2
       DEF RoleInv, Bounded, HandlesAreRunning, OneOwner, RunningIsListed
  <1>5. Sealed'
    BY <1>1 DEF RoleInv, Sealed, OthersReleased
  <1>6. EarlierUnblocked'
    BY <1>2, <1>3 DEF RoleInv, EarlierUnblocked, TypeOK
  <1>7. Owned'
    <2>1. ASSUME NEW q \in Procs, RoleOf(q) \in Owners
          PROVE  TargetOf(q) \in TransIds
      BY <2>1, TargetType, RoleSets
    <2>2. QED
      BY <1>1, <1>2, <1>3, <2>1
         DEF RoleInv, Owned, OwnedState, OwnedPlace
  <1>8. QED
    BY <1>4, <1>5, <1>6, <1>7 DEF RoleInv

LEMMA JoinsRoleInv ==
  ASSUME TypeOK, Shapes, RoleInv, TeardownAfterError,
         NEW p \in Procs, OthersStay(p), Joins(p)
  PROVE  RoleInv'
  <1>1. /\ \A q \in Procs \ {p} : /\ RoleOf(q)' = RoleOf(q)
                                 /\ TargetOf(q)' = TargetOf(q)
        /\ RoleOf(p)' = "handle" /\ TargetOf(p)' = running
        /\ RoleOf(p) = "out" /\ running # 0 /\ ~fsError
        /\ tx[running].state # COMMIT_DOING
    BY OthersRoles, OwnRole DEF Joins
  <1>2. running' = running /\ listed' = listed /\ generation' = generation
    BY DEF Joins, list
  <1>3. \A i \in TransIds : tx'[i].state = tx[i].state
    BY DEF Joins, SameStates
  <1>4. Bounded' /\ HandlesAreRunning'
    BY <1>1, <1>2 DEF RoleInv, Bounded, HandlesAreRunning, TypeOK
  <1>5. OneOwner'
    BY <1>1, RoleSets DEF RoleInv, OneOwner
  <1>6. RunningIsListed'
    BY <1>1, <1>2 DEF RoleInv, RunningIsListed
  <1>7. Sealed'
    <2>1. ASSUME NEW q \in Procs \ {p}, RoleOf(q) \in Sealers
          PROVE  TargetOf(q) # running
      <3>1. CASE RoleOf(q) = "alone"
        BY <1>1, <3>1, RoleSets DEF RoleInv, Owned, OwnedState, Sealers
      <3>2. CASE RoleOf(q) \in {"dead", "walk", "kwalk"}
        BY <1>1, <3>2, RolePoints
           DEF TeardownAfterError, AfterError, RoleOf
      <3>3. QED BY <2>1, <3>1, <3>2 DEF Sealers
    <2>2. QED
      BY <1>1, <2>1, RoleSets DEF RoleInv, Sealed, OthersReleased
  <1>8. EarlierUnblocked'
    BY <1>2, <1>3 DEF RoleInv, EarlierUnblocked, TypeOK
  <1>9. Owned'
    <2>1. ASSUME NEW q \in Procs, RoleOf(q) \in Owners
          PROVE  TargetOf(q) \in TransIds
      BY <2>1, TargetType, RoleSets
    <2>2. QED
      BY <1>1, <1>2, <1>3, <2>1, RoleSets
         DEF RoleInv, Owned, OwnedState, OwnedPlace
  <1>10. QED
    BY <1>4, <1>5, <1>6, <1>7, <1>8, <1>9 DEF RoleInv

LEMMA OpensRoleInv ==
  ASSUME TypeOK, Shapes, RoleInv, NEW p \in Procs, OthersStay(p), Opens(p)
  PROVE  RoleInv'
  <1> DEFINE new == generation + 1
  <1>1. /\ \A q \in Procs \ {p} : /\ RoleOf(q)' = RoleOf(q)
                                 /\ TargetOf(q)' = TargetOf(q)
        /\ RoleOf(p)' = "handle" /\ TargetOf(p)' = new
        /\ RoleOf(p) = "out"
    BY OthersRoles, OwnRole DEF Opens
  <1>2. /\ running = 0 /\ running' = new /\ generation' = new
        /\ listed' = listed \cup {new} /\ new \in TransIds
        /\ \A i \in TransIds \ {new} : tx'[i].state = tx[i].state
    BY DEF Opens
  <1>3. generation \in Nat /\ new # 0 /\ new \notin listed
    BY DEF TypeOK, RoleInv, Bounded, TransIds
  <1>4. \A q \in Procs : TargetOf(q) \in Nat /\ TargetOf(q) <= generation
    BY TargetType DEF RoleInv, Bounded
  <1>5. \A q \in Procs : RoleOf(q) # "handle"
    BY <1>2, TargetType DEF RoleInv, HandlesAreRunning
  <1>6. Bounded'
    BY <1>1, <1>2, <1>3, <1>4 DEF RoleInv, Bounded
  <1>7. HandlesAreRunning' /\ RunningIsListed'
    BY <1>1, <1>2, <1>5 DEF HandlesAreRunning, RunningIsListed
  <1>8. OneOwner'
    BY <1>1, RoleSets DEF RoleInv, OneOwner
  <1>9. Sealed'
    BY <1>1, <1>3, <1>4, RoleSets DEF RoleInv, Sealed, OthersReleased
  <1>10. EarlierUnblocked'
    BY <1>2, <1>3 DEF RoleInv, EarlierUnblocked, TypeOK, TransIds
  <1>11. Owned'
    <2>1. ASSUME NEW q \in Procs, RoleOf(q) \in Owners
          PROVE  TargetOf(q) \in TransIds \ {new} /\ TargetOf(q) # 0
      BY <2>1, <1>3, <1>4, TargetType, RoleSets
    <2>2. QED
      BY <1>1, <1>2, <2>1, RoleSets
         DEF RoleInv, Owned, OwnedState, OwnedPlace
  <1>12. QED
    BY <1>6, <1>7, <1>8, <1>9, <1>10, <1>11 DEF RoleInv

LEMMA LeavesRoleInv ==
  ASSUME TypeOK, Shapes, RoleInv, NEW p \in Procs, OthersStay(p), Leaves(p)
  PROVE  RoleInv'
  <1>1. /\ \A q \in Procs \ {p} : /\ RoleOf(q)' = RoleOf(q)
                                 /\ TargetOf(q)' = TargetOf(q)
        /\ RoleOf(p)' = "put" /\ TargetOf(p)' = TargetOf(p)
        /\ RoleOf(p) = "handle"
    BY OthersRoles, OwnRole DEF Leaves
  <1>2. running' = running /\ listed' = listed /\ generation' = generation
    BY DEF Leaves, list
  <1>3. \A i \in TransIds : tx'[i].state = tx[i].state
    BY DEF Leaves, SameStates
  <1>4. Bounded' /\ HandlesAreRunning' /\ OneOwner' /\ RunningIsListed'
    BY <1>1, <1>2, RoleSets
       DEF RoleInv, Bounded, HandlesAreRunning, OneOwner, RunningIsListed
  <1>5. Sealed'
    BY <1>1, RoleSets DEF RoleInv, Sealed, OthersReleased
  <1>6. EarlierUnblocked'
    BY <1>2, <1>3 DEF RoleInv, EarlierUnblocked, TypeOK
  <1>7. Owned'
    <2>1. ASSUME NEW q \in Procs, RoleOf(q) \in Owners
          PROVE  TargetOf(q) \in TransIds
      BY <2>1, TargetType, RoleSets
    <2>2. QED
      BY <1>1, <1>2, <1>3, <2>1, RoleSets
         DEF RoleInv, Owned, OwnedState, OwnedPlace
  <1>8. QED
    BY <1>4, <1>5, <1>6, <1>7 DEF RoleInv

LEMMA TakesRoleInv ==
  ASSUME TypeOK, Shapes, Shapes', TypeOK', RoleInv,
         NEW p \in Procs, OthersStay(p), Takes(p)
  PROVE  RoleInv'
  <1> DEFINE i == NewTarget(p)
  <1>1. /\ \A q \in Procs \ {p} : /\ RoleOf(q)' = RoleOf(q)
                                 /\ TargetOf(q)' = TargetOf(q)
        /\ RoleOf(p)' = NewRole(p) /\ TargetOf(p)' = i
        /\ RoleOf(p) \in {"handle", "out"}
        /\ NewRole(p) \in Owners \ Sealers
    BY OthersRoles, OwnRole DEF Takes
  <1>2. running' = running /\ listed' = listed /\ generation' = generation
    BY DEF Takes, list
  <1>3. /\ \A j \in TransIds \ {i} : tx'[j].state = tx[j].state
        /\ i = running /\ tx[i].state < COMMIT_PREP
        /\ OwnedState(NewRole(p), tx'[i].state)
  /\ OwnedPlace(NewRole(p), tx'[i].state, i, running, listed)
    BY DEF Takes, SameStatesBut
  <1>4. i # 0 /\ i \in TransIds
    <2>1. NewRole(p) # "out"
      BY <1>1, RoleSets
    <2>2. QED BY <1>1, <2>1, NewTargetType
  <1>5. \A q \in Procs : RoleOf(q) \in Owners => TargetOf(q) # i
    <2>1. tx[i].state \in Int
      BY <1>4 DEF TypeOK, TxState, RUNNING, COMPLETED
    <2>2. QED
      BY <1>3, <2>1, StateValues DEF RoleInv, Owned, OwnedState
  <1>6. Bounded'
    BY <1>1, <1>2, <1>3 DEF RoleInv, Bounded, TypeOK
  <1>7. HandlesAreRunning' /\ RunningIsListed'
    BY <1>1, <1>2, RoleSets DEF RoleInv, HandlesAreRunning, RunningIsListed
  <1>8. OneOwner'
    BY <1>1, <1>5 DEF RoleInv, OneOwner
  <1>9. Sealed'
    BY <1>1, <1>5, RoleSets DEF RoleInv, Sealed, OthersReleased
  <1>10. EarlierUnblocked'
    BY <1>2, <1>3 DEF RoleInv, EarlierUnblocked, TypeOK
  <1>11. Owned'
    <2>1. ASSUME NEW q \in Procs, RoleOf(q) \in Owners
          PROVE  TargetOf(q) \in TransIds
      BY <2>1, TargetType, RoleSets
    <2>2. ASSUME NEW q \in Procs \ {p}, RoleOf(q) \in Owners
          PROVE  LET j == TargetOf(q) IN
                 /\ OwnedState(RoleOf(q), tx'[j].state)
                 /\ OwnedPlace(RoleOf(q), tx'[j].state, j, running', listed')
      BY <1>1, <1>2, <1>3, <1>5, <2>1, <2>2
         DEF RoleInv, Owned, OwnedState, OwnedPlace
    <2>3. QED
      BY <1>1, <1>2, <1>3, <2>2 DEF Owned
  <1>12. QED
    BY <1>6, <1>7, <1>8, <1>9, <1>10, <1>11 DEF RoleInv

(* The owner of a sealed transaction is its only user, but for tasks that  *)
(* ended their handle.                                                     *)
LEMMA SealedAgainst ==
  ASSUME RoleInv, NEW p \in Procs, RoleOf(p) \in Sealers,
         NEW q \in Procs \ {p}, TargetOf(q) = TargetOf(p)
  PROVE  RoleOf(q) = "put"
  BY DEF RoleInv, Sealed, OthersReleased

(* When only the owner is counted, nobody else has a handle.               *)
LEMMA CountedAlone ==
  ASSUME TypeOK, Shapes, RoleInv, WritersAreHandles,
         NEW p \in Procs, RoleOf(p) \in Owners, TargetOf(p) \in listed,
         \/ RoleOf(p) \in Committers /\ tx[TargetOf(p)].writers = 1
         \/ RoleOf(p) \in Reapers /\ tx[TargetOf(p)].writers = 0
  PROVE  OthersReleased(p)
  <1> DEFINE i == TargetOf(p)
  <1>1. tx[i].writers = Cardinality(Writers(i)) /\ Writers(i) \in SUBSET Procs
    BY DEF WritersAreHandles, Writers
  <1>2. Writers(i) = {q \in Procs : TargetOf(q) = i /\ RoleOf(q) \in Writing}
    BY CountedWriters, TargetType, RoleSets DEF Counted
  <1>3. \A q \in Procs \ {p} : q \notin Writers(i)
    <2>1. CASE RoleOf(p) \in Committers
      <3>1. p \in Writers(i) /\ tx[i].writers = 1
        BY <1>2, <2>1, RoleSets DEF Writing
      <3>2. Writers(i) = {p}
        BY <1>1, <3>1, CountOne
      <3>3. QED BY <3>2
    <2>2. CASE RoleOf(p) \in Reapers
      <3>1. tx[i].writers = 0
        BY <2>2, RoleSets
      <3>2. Writers(i) = {}
        BY <1>1, <3>1, CountNone
      <3>3. QED BY <3>2
    <2>3. QED BY <2>1, <2>2 DEF Owners
  <1>4. ASSUME NEW q \in Procs \ {p}, TargetOf(q) = i
        PROVE  RoleOf(q) = "put"
    <2>1. RoleOf(q) \notin Writing /\ RoleOf(q) \notin Owners
      BY <1>2, <1>3, <1>4 DEF RoleInv, OneOwner
    <2>2. RoleOf(q) # "out" /\ RoleOf(q) \in Roles
      BY <1>4, TargetType, RoleType, RoleSets DEF RoleOf
    <2>3. QED BY <2>1, <2>2 DEF Roles, Writing
  <1>5. QED BY <1>4 DEF OthersReleased

LEMMA MovesOnRoleInv ==
  ASSUME TypeOK, Shapes, RoleInv, WritersAreHandles,
         NEW p \in Procs, OthersStay(p), MovesOn(p)
  PROVE  RoleInv'
  <1> DEFINE i == TargetOf(p)
  <1>1. /\ \A q \in Procs \ {p} : /\ RoleOf(q)' = RoleOf(q)
                                 /\ TargetOf(q)' = TargetOf(q)
        /\ RoleOf(p)' = NewRole(p) /\ TargetOf(p)' = i
        /\ RoleOf(p) \in Owners /\ NewRole(p) \in Owners
    BY OthersRoles, OwnRole, RoleSets DEF MovesOn
  <1>2. /\ generation' = generation
        /\ \/ running' = running
           \/ RoleOf(p) \in Sealers /\ running = i /\ running' = 0
        /\ \/ listed' = listed
           \/ listed' = listed \ {i} /\ (i = running => NewRole(p) = "walk")
        /\ i \in listed' /\ i # running' => tx'[i].state >= UNBLOCKED
        /\ \A j \in TransIds \ {i} : tx'[j].state = tx[j].state
        /\ OwnedState(NewRole(p), tx'[i].state)
        /\ OwnedPlace(NewRole(p), tx'[i].state, i, running', listed')
    BY DEF MovesOn, SameStatesBut
  <1>3. i \in TransIds /\ i # 0
    BY <1>1, TargetType, RoleSets
  <1>4. \A q \in Procs \ {p} : RoleOf(q) \in Owners => TargetOf(q) # i
    BY <1>1 DEF RoleInv, OneOwner
  <1>5. ASSUME running' # running
        PROVE  \A q \in Procs : RoleOf(q) # "handle"
    BY <1>1, <1>2, <1>5, SealedAgainst, RoleSets DEF RoleInv, HandlesAreRunning
  <1>6. Bounded'
    BY <1>1, <1>2 DEF RoleInv, Bounded
  <1>7. HandlesAreRunning'
    BY <1>1, <1>2, <1>5, RoleSets DEF RoleInv, HandlesAreRunning
  <1>8. RunningIsListed'
    <2>1. CASE running' = running /\ running # 0 /\ running # i
      BY <1>1, <1>2, <2>1 DEF RoleInv, RunningIsListed
    <2>2. CASE running' = running /\ running = i
      <3>1. CASE i \in listed'
        BY <2>2, <3>1 DEF RunningIsListed
      <3>2. CASE i \notin listed'
        BY <1>1, <1>2, <2>2, <3>2 DEF RunningIsListed, OwnedPlace
      <3>3. QED BY <3>1, <3>2
    <2>3. CASE running' = 0
      BY <2>3 DEF RunningIsListed
    <2>4. QED BY <1>2, <2>1, <2>2, <2>3
  <1>9. OneOwner'
    BY <1>1, <1>4 DEF RoleInv, OneOwner
  <1>10. Sealed'
    <2>1. ASSUME NewRole(p) \in Sealers
          PROVE  OthersReleased(p)
      <3>1. CASE RoleOf(p) \in Sealers
        BY <3>1 DEF RoleInv, Sealed
      <3>2. CASE i # running
        <4>1. ASSUME NEW q \in Procs \ {p}, TargetOf(q) = i
              PROVE  RoleOf(q) = "put"
          <5>1. RoleOf(q) \notin Owners /\ RoleOf(q) # "handle"
            BY <1>4, <3>2, <4>1 DEF RoleInv, HandlesAreRunning
          <5>2. RoleOf(q) # "out" /\ RoleOf(q) \in Roles
            BY <1>3, <4>1, TargetType, RoleType DEF RoleOf
          <5>3. QED BY <5>1, <5>2 DEF Roles
        <4>2. QED BY <4>1 DEF OthersReleased
      <3>3. CASE RoleOf(p) \notin Sealers /\ i = running
        <4>1. /\ \/ RoleOf(p) \in Committers /\ tx[i].writers = 1
                 \/ RoleOf(p) \in Reapers /\ tx[i].writers = 0
          BY <2>1, <3>3 DEF MovesOn
        <4>2. i \in listed
          BY <1>1, <3>3 DEF RoleInv, Owned, OwnedPlace, Sealers
        <4>3. QED BY <1>1, <4>1, <4>2, CountedAlone
      <3>4. QED BY <3>1, <3>2, <3>3
    <2>2. ASSUME NEW q \in Procs \ {p}, RoleOf(q) \in Sealers
          PROVE  TargetOf(q) # i
      BY <1>4, <2>2, RoleSets
    <2>3. QED
      BY <1>1, <2>1, <2>2 DEF RoleInv, Sealed, OthersReleased
  <1>11. EarlierUnblocked'
    <2>1. ASSUME NEW j \in listed', j # running', j # i
          PROVE  tx'[j].state >= UNBLOCKED
      <3>1. j \in listed /\ j \in TransIds /\ j # running
        BY <1>2, <2>1 DEF TypeOK
      <3>2. QED BY <1>2, <2>1, <3>1 DEF RoleInv, EarlierUnblocked
    <2>2. QED BY <1>2, <2>1 DEF EarlierUnblocked
  <1>12. Owned'
    <2>1. ASSUME NEW q \in Procs \ {p}, RoleOf(q) \in Owners
          PROVE  LET j == TargetOf(q) IN
                 /\ OwnedState(RoleOf(q), tx'[j].state)
                 /\ OwnedPlace(RoleOf(q), tx'[j].state, j, running', listed')
      <3>1. TargetOf(q) \in TransIds \ {i} /\ TargetOf(q) # 0
        BY <1>4, <2>1, TargetType, RoleSets
      <3>2. LET j == TargetOf(q) IN
               /\ OwnedState(RoleOf(q), tx[j].state)
               /\ OwnedPlace(RoleOf(q), tx[j].state, j, running, listed)
        BY <2>1 DEF RoleInv, Owned
      <3>3. tx'[TargetOf(q)].state = tx[TargetOf(q)].state
        BY <1>2, <3>1
      <3>4. /\ TargetOf(q) \in listed' <=> TargetOf(q) \in listed
            /\ TargetOf(q) = running' <=> TargetOf(q) = running
        BY <1>2, <3>1
      <3>5. QED
        BY <3>2, <3>3, <3>4 DEF OwnedPlace
    <2>2. QED
      BY <1>1, <1>2, <2>1 DEF Owned
  <1>13. QED
    BY <1>6, <1>7, <1>8, <1>9, <1>10, <1>11, <1>12 DEF RoleInv

LEMMA DropsRoleInv ==
  ASSUME TypeOK, Shapes, Shapes', RoleInv, NEW p \in Procs, OthersStay(p), Drops(p)
  PROVE  RoleInv'
  <1> DEFINE i == TargetOf(p)
  <1>1. /\ \A q \in Procs \ {p} : /\ RoleOf(q)' = RoleOf(q)
                                 /\ TargetOf(q)' = TargetOf(q)
        /\ RoleOf(p)' = "out"
        /\ RoleOf(p) \in {"put", "gone", "walk", "kwalk"}
    BY OthersRoles, OwnRole DEF Drops
  <1>2. TargetOf(p)' = 0
    BY <1>1, TargetOfRole DEF Shapes, TargetOf, RoleOf
  <1>3. /\ generation' = generation
        /\ \A j \in TransIds : tx'[j].state = tx[j].state
        /\ RoleOf(p) = "put" => running' = running /\ listed' = listed
        /\ RoleOf(p) # "put" => /\ listed' = listed \ {i}
                               /\ running' = IF running = i THEN 0 ELSE running
    BY <1>1 DEF Drops, SameStates
  <1>4. i \in TransIds /\ i # 0
    BY <1>1, TargetType
  <1>5. RoleOf(p) # "put" =>
           \A q \in Procs \ {p} : RoleOf(q) \in Owners => TargetOf(q) # i
    BY <1>1, RoleSets DEF RoleInv, OneOwner
  <1>6. ASSUME running' # running
        PROVE  \A q \in Procs : RoleOf(q) # "handle"
    <2>1. RoleOf(p) \in Sealers /\ running = i
      BY <1>1, <1>3, <1>6, RoleSets DEF RoleInv, Owned, OwnedPlace
    <2>2. QED
      BY <1>1, <2>1, SealedAgainst DEF RoleInv, HandlesAreRunning
  <1>7. Bounded'
    <2>1. running' \in {running, 0} /\ listed' \subseteq listed
      BY <1>3
    <2>2. generation' = generation /\ 0 <= generation
      BY <1>3 DEF TypeOK
    <2>3. \A q \in Procs : TargetOf(q)' <= generation
      BY <1>1, <1>2, <2>2 DEF RoleInv, Bounded
    <2>4. QED BY <2>1, <2>2, <2>3 DEF RoleInv, Bounded
  <1>8. HandlesAreRunning'
    BY <1>1, <1>3, <1>6 DEF RoleInv, HandlesAreRunning
  <1>9. RunningIsListed'
    BY <1>1, <1>3 DEF RoleInv, RunningIsListed
  <1>10. OneOwner'
    BY <1>1, RoleSets DEF RoleInv, OneOwner
  <1>11. Sealed'
    BY <1>1, <1>2, <1>4, TargetType, RoleSets
       DEF RoleInv, Sealed, OthersReleased
  <1>12. EarlierUnblocked'
    BY <1>1, <1>3 DEF RoleInv, EarlierUnblocked, TypeOK
  <1>13. Owned'
    <2>1. ASSUME NEW q \in Procs \ {p}, RoleOf(q) \in Owners
          PROVE  LET j == TargetOf(q) IN
                 /\ OwnedState(RoleOf(q), tx'[j].state)
                 /\ OwnedPlace(RoleOf(q), tx'[j].state, j, running', listed')
      <3>1. TargetOf(q) \in TransIds /\ TargetOf(q) # 0
        BY <2>1, TargetType, RoleSets
      <3>2. LET j == TargetOf(q) IN
               /\ OwnedState(RoleOf(q), tx[j].state)
               /\ OwnedPlace(RoleOf(q), tx[j].state, j, running, listed)
        BY <2>1 DEF RoleInv, Owned
      <3>3. tx'[TargetOf(q)].state = tx[TargetOf(q)].state
        BY <1>3, <3>1
      <3>4. /\ TargetOf(q) \in listed' <=> TargetOf(q) \in listed
            /\ TargetOf(q) = running' <=> TargetOf(q) = running
        BY <1>3, <1>5, <2>1, <3>1
      <3>5. QED
        BY <3>2, <3>3, <3>4 DEF OwnedPlace
    <2>2. QED
      BY <1>1, <2>1, RoleSets DEF Owned
  <1>14. QED
    BY <1>7, <1>8, <1>9, <1>10, <1>11, <1>12, <1>13 DEF RoleInv

(* Every kind of step keeps RoleInv. *)
LEMMA KindRoleInv ==
  ASSUME TypeOK, TypeOK', Shapes, Shapes', RoleInv, TeardownAfterError,
         WritersAreHandles, NEW p \in Procs, OthersStay(p), Kind(p)
  PROVE  RoleInv'
  BY StaysRoleInv, JoinsRoleInv, OpensRoleInv, LeavesRoleInv, TakesRoleInv,
     MovesOnRoleInv, DropsRoleInv DEF Kind

-----------------------------------------------------------------------------
(***************************************************************************)
(* The counters                                                            *)
(***************************************************************************)
LEMMA CountedFacts ==
  ASSUME TypeOK, Shapes, WritersAreHandles, NEW i \in listed
  PROVE  /\ i \in TransIds /\ i # 0
         /\ tx[i].writers = Cardinality(Counted(i))
         /\ tx[i].ext = Cardinality(CountedExt(i))
  <1>1. i \in TransIds /\ i # 0
    BY DEF TypeOK, TransIds
  <1>2. QED
    BY <1>1, CountedWriters DEF WritersAreHandles

LEMMA CountedNext ==
  ASSUME TypeOK', Shapes',
         \A i \in listed' : /\ tx'[i].writers = Cardinality(Counted(i)')
                            /\ tx'[i].ext = Cardinality(CountedExt(i)')
  PROVE  WritersAreHandles'
  <1>1. ASSUME NEW i \in listed'
        PROVE  /\ Writers(i)' = Counted(i)'
               /\ {p \in Writers(i) : proc[p].ext}' = CountedExt(i)'
    <2>1. i # 0
      BY DEF TypeOK, TransIds
    <2>2. \A q \in Procs : q \in Writers(i)' <=> q \in Counted(i)'
      BY <2>1, WriterByRole
         DEF Shapes, Writers, At, Counted, TargetOf, RoleOf
    <2>3. QED BY <2>2 DEF Writers, Counted, CountedExt
  <1>2. QED BY <1>1 DEF WritersAreHandles

(* The tasks other than p are counted as before. *)
LEMMA OthersCounted ==
  ASSUME NEW p \in Procs, OthersStay(p), NEW i
  PROVE  /\ Counted(i)' \ {p} = Counted(i) \ {p}
         /\ CountedExt(i)' \ {p} = CountedExt(i) \ {p}
         /\ p \in Counted(i)' <=> NewTarget(p) = i /\ NewRole(p) \in Writing
         /\ p \in CountedExt(i)' <=> p \in Counted(i)' /\ proc'[p].ext
         /\ p \in Counted(i) <=> TargetOf(p) = i /\ RoleOf(p) \in Writing
         /\ p \in CountedExt(i) <=> p \in Counted(i) /\ proc[p].ext
         /\ Counted(i) \in SUBSET Procs /\ CountedExt(i) \in SUBSET Procs
         /\ Counted(i)' \in SUBSET Procs /\ CountedExt(i)' \in SUBSET Procs
  <1>1. \A q \in Procs \ {p} : /\ RoleOf(q)' = RoleOf(q)
                              /\ TargetOf(q)' = TargetOf(q)
                              /\ proc'[q].ext = proc[q].ext
    BY OthersRoles
  <1>2. RoleOf(p)' = NewRole(p) /\ TargetOf(p)' = NewTarget(p)
    BY OwnRole
  <1>3. QED BY <1>1, <1>2 DEF Counted, CountedExt

(* A counter and its set change by the same task. *)
LEMMA CountStep ==
  ASSUME NEW S \in SUBSET Procs, NEW T \in SUBSET Procs, NEW p \in Procs,
         S \ {p} = T \ {p}
  PROVE  Cardinality(T) = Cardinality(S) + One(p \in T) - One(p \in S)
  <1>1. CASE p \in S <=> p \in T
    <2>1. S = T
      BY <1>1
    <2>2. QED BY <1>1, <2>1, TasksFinite DEF One
  <1>2. CASE p \in S /\ p \notin T
    <2>1. T = S \ {p}
      BY <1>2
    <2>2. QED BY <1>2, <2>1, CountOut, TasksFinite DEF One
  <1>3. CASE p \notin S /\ p \in T
    <2>1. T = S \cup {p}
      BY <1>3
    <2>2. QED BY <1>3, <2>1, CountIn, TasksFinite DEF One
  <1>4. QED BY <1>1, <1>2, <1>3

(* The counters stay right when they follow the membership of p. *)
LEMMA CountedStep ==
  ASSUME TypeOK, Shapes, WritersAreHandles, NEW p \in Procs, OthersStay(p),
         NEW i \in listed,
         /\ tx'[i].writers = tx[i].writers + One(p \in Counted(i)')
                                           - One(p \in Counted(i))
         /\ tx'[i].ext = tx[i].ext + One(p \in CountedExt(i)')
                                   - One(p \in CountedExt(i))
  PROVE  /\ tx'[i].writers = Cardinality(Counted(i)')
         /\ tx'[i].ext = Cardinality(CountedExt(i)')
  <1>1. /\ tx[i].writers = Cardinality(Counted(i))
        /\ tx[i].ext = Cardinality(CountedExt(i))
    BY CountedFacts
  <1>2. /\ Cardinality(Counted(i)') = Cardinality(Counted(i))
             + One(p \in Counted(i)') - One(p \in Counted(i))
        /\ Cardinality(CountedExt(i)') = Cardinality(CountedExt(i))
             + One(p \in CountedExt(i)') - One(p \in CountedExt(i))
    BY OthersCounted, CountStep
  <1>3. QED BY <1>1, <1>2

LEMMA KindCounts ==
  ASSUME TypeOK, TypeOK', Shapes, Shapes', RoleInv, WritersAreHandles,
         NEW p \in Procs, OthersStay(p), Kind(p)
  PROVE  WritersAreHandles'
  <1> DEFINE Good(i) ==
        /\ tx'[i].writers = tx[i].writers + One(p \in Counted(i)')
                                          - One(p \in Counted(i))
        /\ tx'[i].ext = tx[i].ext + One(p \in CountedExt(i)')
                                  - One(p \in CountedExt(i))
  <1>t. ASSUME NEW i \in listed
        PROVE  /\ i \in TransIds /\ i # 0
               /\ tx[i].writers \in Int /\ tx[i].ext \in Int
    <2>1. i \in TransIds /\ i # 0
      BY DEF TypeOK, TransIds
    <2>2. QED BY <2>1 DEF TypeOK, TxState
  <1>m. ASSUME NEW i
        PROVE  /\ p \in Counted(i)' <=>
                     NewTarget(p) = i /\ NewRole(p) \in Writing
               /\ p \in CountedExt(i)' <=> p \in Counted(i)' /\ proc'[p].ext
               /\ p \in Counted(i) <=> TargetOf(p) = i /\ RoleOf(p) \in Writing
               /\ p \in CountedExt(i) <=> p \in Counted(i) /\ proc[p].ext
    BY OthersCounted
  <1>o. \A b, c : (b <=> c) => One(b) = One(c)
    BY DEF One
  <1>1. CASE Opens(p)
    <2>0. PICK new : new = generation + 1
      OBVIOUS
    <2>1. /\ RoleOf(p) = "out" /\ NewRole(p) = "handle" /\ NewTarget(p) = new
          /\ listed' = listed \cup {new} /\ new \in TransIds
          /\ tx'[new].writers = 1 /\ tx'[new].ext = One(proc'[p].ext)
          /\ \A i \in TransIds \ {new} : tx'[i] = tx[i]
      BY <1>1, <2>0 DEF Opens
    <2>2. new \notin listed /\ \A q \in Procs : TargetOf(q) # new
      BY <2>0, TargetType DEF RoleInv, Bounded, TypeOK
    <2>3. ASSUME NEW i \in listed
          PROVE  Good(i)
      <3>1. /\ p \notin Counted(i) /\ p \notin Counted(i)'
            /\ p \notin CountedExt(i) /\ p \notin CountedExt(i)'
        BY <1>m, <2>1, <2>2 DEF Writing, Committers
      <3>2. tx'[i] = tx[i]
        BY <1>t, <2>1, <2>2
      <3>3. QED BY <1>t, <3>1, <3>2 DEF One
    <2>4. /\ tx'[new].writers = Cardinality(Counted(new)')
          /\ tx'[new].ext = Cardinality(CountedExt(new)')
      <3>1. Counted(new) = {} /\ CountedExt(new) = {}
        BY <2>2 DEF Counted, CountedExt
      <3>2. Cardinality({}) = 0
        BY FS_EmptySet
      <3>3. /\ Cardinality(Counted(new)') = One(p \in Counted(new)')
            /\ Cardinality(CountedExt(new)') = One(p \in CountedExt(new)')
        <4>1. /\ Counted(new)' \ {p} = {} \ {p}
              /\ CountedExt(new)' \ {p} = {} \ {p}
              /\ Counted(new)' \in SUBSET Procs
              /\ CountedExt(new)' \in SUBSET Procs
          BY <3>1, OthersCounted
        <4>2. /\ Cardinality(Counted(new)')
                   = Cardinality({}) + One(p \in Counted(new)') - One(p \in {})
              /\ Cardinality(CountedExt(new)')
                   = Cardinality({}) + One(p \in CountedExt(new)')
                                     - One(p \in {})
          BY <4>1, CountStep
        <4>3. QED BY <3>2, <4>2 DEF One
      <3>4. p \in Counted(new)' /\ (p \in CountedExt(new)' <=> proc'[p].ext)
        BY <1>m, <2>1 DEF Writing
      <3>5. QED BY <2>1, <3>3, <3>4 DEF One
    <2>5. QED BY <2>1, <2>3, <2>4, CountedStep, CountedNext
  <1>2. ASSUME ~Opens(p)
        PROVE  \A i \in listed' : i \in listed /\ Good(i)
    <2>r. /\ Committers \subseteq Writing /\ "handle" \in Writing
          /\ Reapers \cap Writing = {} /\ "out" \notin Writing
          /\ "put" \notin Writing
      BY DEF Writing, Committers, Reapers
    <2>1. CASE Stays(p)
      <3>1. listed' = listed
        BY <2>1 DEF Stays, list
      <3>2. ASSUME NEW i \in listed
            PROVE  Good(i)
        BY <1>m, <1>t, <1>o, <2>1 DEF Stays, One
      <3>3. QED BY <3>1, <3>2
    <2>2. CASE Joins(p)
      <3>1. listed' = listed
        BY <2>2 DEF Joins, list
      <3>2. ASSUME NEW i \in listed
            PROVE  Good(i)
        BY <1>m, <1>t, <2>2, <2>r DEF Joins, One
      <3>3. QED BY <3>1, <3>2
    <2>3. CASE Leaves(p)
      <3>1. listed' = listed
        BY <2>3 DEF Leaves, list
      <3>2. ASSUME NEW i \in listed
            PROVE  Good(i)
        BY <1>m, <1>t, <2>3, <2>r DEF Leaves, One
      <3>3. QED BY <3>1, <3>2
    <2>4. CASE Takes(p)
      <3>1. listed' = listed
        BY <2>4 DEF Takes, list
      <3>2. ASSUME NEW i \in listed
            PROVE  Good(i)
        BY <1>m, <1>t, <2>4, <2>r DEF Takes, One
      <3>3. QED BY <3>1, <3>2
    <2>5. CASE MovesOn(p)
      <3>1. listed' \subseteq listed
        BY <2>5 DEF MovesOn
      <3>2. ASSUME NEW i \in listed
            PROVE  Good(i)
        BY <1>m, <1>t, <2>5, <2>r DEF MovesOn, SameCounts, One
      <3>3. QED BY <3>1, <3>2
    <2>6. CASE Drops(p)
      <3>1. listed' \subseteq listed
        BY <2>6 DEF Drops
      <3>2. ASSUME NEW i \in listed'
            PROVE  Good(i)
        <4>1. i \in listed
          BY <3>1
        <4>2. p \notin Counted(i) /\ p \notin CountedExt(i)
          BY <1>m, <2>6, <2>r DEF Drops
        <4>3. p \notin Counted(i)' /\ p \notin CountedExt(i)'
          BY <1>m, <2>6, <2>r DEF Drops
        <4>4. QED
          BY <1>t, <2>6, <4>1, <4>2, <4>3 DEF Drops, One
      <3>3. QED BY <3>1, <3>2
    <2>7. QED BY <1>2, <2>1, <2>2, <2>3, <2>4, <2>5, <2>6 DEF Kind
  <1>3. QED BY <1>1, <1>2, CountedStep, CountedNext

-----------------------------------------------------------------------------
(***************************************************************************)
(* Every action is a step of one of the kinds                              *)
(***************************************************************************)
Regular(p) ==
  /\ OthersStay(p) /\ Shape(proc'[p]) /\ Kind(p)
  /\ fsError => fsError'
  /\ AfterError(proc'[p]) => fsError'

OutPoints == {"idle", "start", "waitcur", "blocked", "join", "alloc",
              "enoent", "asyncwait", "find", "committed", "barrierdone",
              "scan"}

(* A task without a transaction. *)
LEMMA OutRecord ==
  ASSUME NEW r,
         r.pc \in OutPoints \/ (r.pc \in WaitPoints /\ r.cont # "prev"),
         r.tx = 0, r.doom = 0,
         r.pc \in JoinPoints =>
            r.type \in {"START", "ATTACH", "JOIN", "JOIN_NOSTART"},
         r.pc \in JoinPoints \cup {"enoent"} => r.cont \in {"none", "barrier"},
         r.pc = "find" => r.cont # "prev",
         r.pc \in {"idle", "scan"} => r.cont = "none" /\ r.then = "idle",
         r.then = "again" => r.type = "START"
  PROVE  /\ Shape(r) /\ Role(r) = "out" /\ Target(r) = 0
         /\ AfterError(r) <=> r.pc = "scan" \/ r.cont = "scan"
  <1>1. Role(r) = "out"
    BY DEF Role, OutPoints, HandlePoints, ErrorPoints, WaitPoints, WalkPoints
  <1>2. r.pc \notin WalkPoints \cup {"drain"} /\ r.pc \notin {"endw", "endput"}
        /\ r.pc \notin {"dropext", "cleanlock", "cleanwait", "cleandel"}
    BY DEF OutPoints, WaitPoints, WalkPoints
  <1>3. QED
    BY <1>1, <1>2 DEF Shape, Target, Holders, Committers, AfterError

(* A task with a handle. *)
LEMMA HandleRecord ==
  ASSUME NEW r,
         \/ r.pc \in HandlePoints
         \/ r.pc \in ErrorPoints /\ r.cont # "clean",
         r.tx # 0, r.doom = 0,
         r.pc = "endw" => r.cont \in {"ret", "async", "waiter"},
         r.then = "again" => r.type = "START",
         r.ext <=> r.type \in EXTWRITERS
  PROVE  /\ Shape(r) /\ Role(r) = "handle" /\ Target(r) = r.tx
         /\ AfterError(r) <=> r.cont = "scan"
  <1>1. Role(r) = "handle"
    BY RolePoints
  <1>2. r.pc \notin WalkPoints \cup {"drain"} /\ r.pc \notin JoinPoints
        /\ r.pc \notin {"dropext", "cleanlock", "cleanwait", "cleandel",
                       "enoent", "find", "idle", "scan", "endput"}
    BY DEF HandlePoints, ErrorPoints, WalkPoints, JoinPoints
  <1>3. QED
    BY <1>1, <1>2 DEF Shape, Target, Holders, Committers, AfterError

CommitPoints == {"prevdone", "dropext", "extwait", "ordwait", "wrwait",
                 "doing", "unblock", "write", "super", "finish", "unlist",
                 "putbase", "cleanlock", "cleanwait", "cleandel"}

(* A task that commits its transaction. *)
LEMMA CommitRecord ==
  ASSUME NEW r,
         \/ r.pc \in CommitPoints
         \/ r.pc \in WaitPoints /\ r.cont = "prev"
         \/ r.pc \in ErrorPoints /\ r.cont = "clean",
         r.tx # 0, r.doom = 0,
         r.then = "again" => r.type = "START",
         r.pc \in WaitPoints \cup {"prevdone", "dropext"} =>
            (r.ext <=> r.type \in EXTWRITERS)
  PROVE  /\ Shape(r) /\ Role(r) \in Committers \ {"walk"}
         /\ Target(r) = r.tx
         /\ AfterError(r) <=> \/ r.pc \in {"cleanlock", "cleanwait", "cleandel"}
                             \/ r.cont = "scan"
  <1>1. Role(r) \in Committers \ {"walk"}
    BY DEF Role, CommitPoints, HandlePoints, ErrorPoints, WaitPoints,
           WalkPoints, Committers
  <1>2. r.pc \notin WalkPoints \cup {"drain"} /\ r.pc \notin JoinPoints
        /\ r.pc \notin {"enoent", "find", "idle", "scan", "endput", "endw"}
    BY DEF CommitPoints, ErrorPoints, WaitPoints, WalkPoints, JoinPoints
  <1>3. Role(r) # "handle"
        /\ (Role(r) = "prep" => r.pc \in WaitPoints \cup {"prevdone"})
    BY <1>1, RolePoints, RoleSets
  <1>4. QED
    BY <1>1, <1>2, <1>3 DEF Shape, Target, Holders, AfterError

(* A task that walks a transaction to its end. *)
LEMMA WalkRecord ==
  ASSUME NEW r, r.pc \in WalkPoints \cup {"drain"}, r.doom # 0,
         r.tx = 0 \/ (r.tx = r.doom /\ r.pc # "drain"),
         r.then = "again" => r.type = "START"
  PROVE  /\ Shape(r) /\ Target(r) = r.doom
         /\ r.tx = 0 => Role(r) = IF r.pc = "drain" THEN "kdrain" ELSE "kwalk"
         /\ r.tx # 0 => Role(r) = "walk"
  <1>1. /\ r.tx = 0 => Role(r) = IF r.pc = "drain" THEN "kdrain" ELSE "kwalk"
        /\ r.tx # 0 => Role(r) = "walk"
    BY RolePoints DEF WalkPoints
  <1>2. r.pc \notin JoinPoints
        /\ r.pc \notin {"enoent", "find", "idle", "scan", "endput", "endw",
                       "dropext"}
    BY DEF WalkPoints, JoinPoints
  <1>3. QED
    BY <1>1, <1>2 DEF Shape, Target, Holders, Committers

(* What the shape of a task says of a task at a given point. *)
LEMMA OutShape ==
  ASSUME NEW r, Shape(r),
         r.pc \in OutPoints \/ (r.pc \in WaitPoints /\ r.cont # "prev")
  PROVE  /\ Role(r) = "out" /\ Target(r) = 0 /\ r.tx = 0 /\ r.doom = 0
         /\ r.then = "again" => r.type = "START"
  <1>1. Role(r) = "out"
    BY DEF Role, OutPoints, HandlePoints, ErrorPoints, WaitPoints, WalkPoints
  <1>2. r.pc \notin WalkPoints \cup {"drain"}
    BY DEF OutPoints, WaitPoints, WalkPoints
  <1>3. QED
    BY <1>1, <1>2 DEF Shape, Target, Holders, Committers

LEMMA HandleShape ==
  ASSUME NEW r, Shape(r),
         \/ r.pc \in HandlePoints
         \/ r.pc \in ErrorPoints /\ r.cont # "clean"
  PROVE  /\ Role(r) = "handle" /\ Target(r) = r.tx /\ r.tx # 0 /\ r.doom = 0
         /\ r.then = "again" => r.type = "START"
         /\ r.ext <=> r.type \in EXTWRITERS
  <1>1. Role(r) = "handle"
    BY RolePoints
  <1>2. r.pc \notin WalkPoints \cup {"drain"}
    BY DEF HandlePoints, ErrorPoints, WalkPoints
  <1>3. QED
    BY <1>1, <1>2 DEF Shape, Target, Holders

LEMMA CommitShape ==
  ASSUME NEW r, Shape(r),
         \/ r.pc \in CommitPoints
         \/ r.pc \in WaitPoints /\ r.cont = "prev"
         \/ r.pc \in ErrorPoints /\ r.cont = "clean"
  PROVE  /\ Role(r) \in Committers \ {"walk"} /\ Target(r) = r.tx
         /\ r.tx # 0 /\ r.doom = 0
         /\ r.then = "again" => r.type = "START"
         /\ r.pc \in WaitPoints \cup {"prevdone", "dropext"} =>
               (r.ext <=> r.type \in EXTWRITERS)
  <1>1. Role(r) \in Committers \ {"walk"}
    BY DEF Role, CommitPoints, HandlePoints, ErrorPoints, WaitPoints,
           WalkPoints, Committers
  <1>2. r.pc \notin WalkPoints \cup {"drain"}
    BY DEF CommitPoints, ErrorPoints, WaitPoints, WalkPoints
  <1>3. r.pc \in WaitPoints \cup {"prevdone"} => Role(r) = "prep"
    BY RolePoints DEF WaitPoints, CommitPoints, ErrorPoints
  <1>4. QED
    BY <1>1, <1>2, <1>3 DEF Shape, Target, Holders

LEMMA WalkShape ==
  ASSUME NEW r, Shape(r), r.pc \in WalkPoints \cup {"drain"}
  PROVE  /\ r.doom # 0 /\ Target(r) = r.doom
         /\ r.tx = 0 \/ (r.tx = r.doom /\ r.pc # "drain")
         /\ r.then = "again" => r.type = "START"
         /\ r.tx = 0 => Role(r) = IF r.pc = "drain" THEN "kdrain" ELSE "kwalk"
         /\ r.tx # 0 => Role(r) = "walk"
  <1>1. /\ r.pc # "drain" => Role(r) = IF r.tx = 0 THEN "kwalk" ELSE "walk"
        /\ r.pc = "drain" => Role(r) = "kdrain"
    BY RolePoints
  <1>2. QED
    BY <1>1 DEF Shape, Target, Holders, Committers, WalkPoints

(* A call that returns leaves its task without a transaction. *)
LEMMA ReturnedRecord ==
  ASSUME NEW p, Shape(proc[p])
  PROVE  /\ Shape(Returned(p)) /\ Role(Returned(p)) = "out"
         /\ Target(Returned(p)) = 0 /\ ~AfterError(Returned(p))
         /\ Returned(p).ext = FALSE
  <1>1. proc[p].then = "again" => proc[p].type = "START"
    BY DEF Shape
  <1>2. CASE proc[p].then = "again"
    BY <1>1, <1>2, OutRecord DEF Returned, Fresh, OutPoints, JoinPoints
  <1>3. CASE proc[p].then # "again"
    BY <1>3, OutRecord DEF Returned, Fresh, IdleProc, OutPoints, JoinPoints
  <1>4. QED BY <1>2, <1>3

(* A step that leaves the books of all transactions as they were. *)
SameBooks ==
  \A i \in TransIds : /\ tx'[i].state = tx[i].state
                      /\ tx'[i].writers = tx[i].writers
                      /\ tx'[i].ext = tx[i].ext

LEMMA Books ==
  ASSUME TypeOK,
         \/ UNCHANGED tx
         \/ \E i : tx' = Pin(i)
         \/ \E i : tx' = Put(i)
         \/ \E i : tx' = [tx EXCEPT ![i].use = @ - 2]
         \/ \E i, k : tx' = [Put(i) EXCEPT ![k].use = @ - 1]
         \/ \E i : tx' = [tx EXCEPT ![i].aborted = TRUE]
         \/ \E i : tx' = [tx EXCEPT ![i].pending = @ + 1]
         \/ \E i : tx' = [tx EXCEPT ![i].pending = @ - 1]
  PROVE  SameBooks
  <1>1. tx \in [TransIds -> TxState]
    BY DEF TypeOK
  <1>2. CASE UNCHANGED tx
    BY <1>2 DEF SameBooks
  <1>3. CASE \E i : tx' = Pin(i)
    BY <1>1, <1>3 DEF SameBooks, Pin, TxState
  <1>4. CASE \E i : tx' = Put(i)
    BY <1>1, <1>4 DEF SameBooks, Put, TxState
  <1>5. CASE \E i : tx' = [tx EXCEPT ![i].use = @ - 2]
    BY <1>1, <1>5 DEF SameBooks, TxState
  <1>6. CASE \E i, k : tx' = [Put(i) EXCEPT ![k].use = @ - 1]
    BY <1>1, <1>6 DEF SameBooks, Put, TxState
  <1>7. CASE \E i : tx' = [tx EXCEPT ![i].aborted = TRUE]
    BY <1>1, <1>7 DEF SameBooks, TxState
  <1>8. CASE \E i : tx' = [tx EXCEPT ![i].pending = @ + 1]
    BY <1>1, <1>8 DEF SameBooks, TxState
  <1>9. CASE \E i : tx' = [tx EXCEPT ![i].pending = @ - 1]
    BY <1>1, <1>9 DEF SameBooks, TxState
  <1>10. QED
    BY <1>2, <1>3, <1>4, <1>5, <1>6, <1>7, <1>8, <1>9

(* The task before the step. *)
LEMMA TaskFacts ==
  ASSUME CoreInv, NEW p \in Procs
  PROVE  /\ proc \in [Procs -> ProcState] /\ proc[p] \in ProcState
         /\ Shape(proc[p])
         /\ AfterError(proc[p]) => fsError
  BY DEF CoreInv, TypeOK, Shapes, TeardownAfterError

(* A step of one task that keeps its role is regular. *)
LEMMA SameRoleStep ==
  ASSUME NEW p \in Procs, OthersStay(p), UNCHANGED list, SameBooks,
         Role(proc'[p]) = Role(proc[p]), Target(proc'[p]) = Target(proc[p]),
         Role(proc[p]) = "out" \/ proc'[p].ext = proc[p].ext,
         Shape(proc'[p]), fsError => fsError', AfterError(proc'[p]) => fsError'
  PROVE  Regular(p)
  BY DEF Regular, Kind, Stays, SameStates, SameBooks, NewRole, NewTarget,
         RoleOf, TargetOf, Writing, Committers

LEMMA StartRequestKind ==
  ASSUME CoreInv, NEW p \in Procs, NEW op \in Ops \ {"WAIT"},
         StartRequest(p, op)
  PROVE  Regular(p)
  <1>1. /\ proc[p].pc = "idle" /\ proc'[p].pc = "start"
        /\ proc'[p].type = IF op = "BARRIER" THEN "ATTACH" ELSE op
        /\ proc'[p].cont \in {"none", "barrier"}
        /\ proc'[p].tx = proc[p].tx /\ proc'[p].doom = proc[p].doom
        /\ proc'[p].then = proc[p].then
        /\ OthersStay(p)
    BY TaskFacts DEF StartRequest, At, OthersStay, ProcState
  <1>2. /\ Shape(proc'[p]) /\ Role(proc'[p]) = "out" /\ Target(proc'[p]) = 0
        /\ ~AfterError(proc'[p])
    <2>1. op \in {"START", "ATTACH", "BARRIER", "JOIN", "JOIN_NOSTART"}
      BY ConstantsAssumption
    <2>2. proc[p].then = "idle" /\ proc[p].tx = 0 /\ proc[p].doom = 0
      BY <1>1, TaskFacts, OutShape DEF Shape, OutPoints
    <2>3. QED
      BY <1>1, <2>1, <2>2, OutRecord DEF OutPoints, JoinPoints
  <1>3. UNCHANGED <<list, tx, fsError>>
    BY DEF StartRequest, shared
  <1>4. QED
    BY <1>1, <1>2, <1>3, TaskFacts, OutShape, Books, SameRoleStep
       DEF OutPoints, CoreInv

LEMMA StartEntryKind ==
  ASSUME CoreInv, NEW p \in Procs, StartEntry(p)
  PROVE  Regular(p)
  <1>1. /\ proc[p].pc = "start" /\ OthersStay(p)
        /\ UNCHANGED <<list, tx, fsError>>
    BY TaskFacts DEF StartEntry, Return, Goto, At, OthersStay, shared
  <1>2. /\ Shape(proc'[p]) /\ Role(proc'[p]) = "out" /\ Target(proc'[p]) = 0
        /\ AfterError(proc'[p]) => fsError
    <2>1. CASE Return(p)
      BY <2>1, TaskFacts, ReturnedRecord DEF Return
    <2>2. CASE \E pc \in {"waitcur", "join"} : Goto(p, pc)
      BY <1>1, <2>2, TaskFacts, OutShape, OutRecord
         DEF Goto, ProcState, OutPoints, JoinPoints, Shape, AfterError
    <2>3. QED BY <2>1, <2>2 DEF StartEntry
  <1>3. QED
    BY <1>1, <1>2, TaskFacts, OutShape, Books, SameRoleStep
       DEF OutPoints, CoreInv

LEMMA WaitCurrentTransKind ==
  ASSUME CoreInv, NEW p \in Procs, WaitCurrentTrans(p)
  PROVE  Regular(p)
  <1>1. /\ proc[p].pc = "waitcur"
        /\ proc'[p].pc \in {"blocked", "enoent", "join"}
        /\ proc'[p].type = proc[p].type /\ proc'[p].cont = proc[p].cont
        /\ proc'[p].tx = proc[p].tx /\ proc'[p].doom = proc[p].doom
        /\ proc'[p].then = proc[p].then
        /\ OthersStay(p) /\ UNCHANGED <<list, fsError>>
    BY TaskFacts DEF WaitCurrentTrans, AfterWaitCurrent, Goto, At, OthersStay,
                     ProcState
  <1>2. /\ Shape(proc'[p]) /\ Role(proc'[p]) = "out" /\ Target(proc'[p]) = 0
        /\ AfterError(proc'[p]) => fsError
    BY <1>1, TaskFacts, OutShape, OutRecord
       DEF OutPoints, JoinPoints, Shape, AfterError
  <1>3. SameBooks
    BY Books DEF CoreInv, WaitCurrentTrans
  <1>4. QED
    BY <1>1, <1>2, <1>3, TaskFacts, OutShape, SameRoleStep DEF OutPoints

LEMMA CurrentTransUnblockedKind ==
  ASSUME CoreInv, NEW p \in Procs, CurrentTransUnblocked(p)
  PROVE  Regular(p)
  <1>1. /\ proc[p].pc = "blocked" /\ proc'[p].pc \in {"enoent", "join"}
        /\ proc'[p].type = proc[p].type /\ proc'[p].cont = proc[p].cont
        /\ proc'[p].tx = proc[p].tx /\ proc'[p].doom = proc[p].doom
        /\ proc'[p].then = proc[p].then
        /\ OthersStay(p) /\ UNCHANGED <<list, fsError>>
    BY TaskFacts DEF CurrentTransUnblocked, AfterWaitCurrent, At, OthersStay,
                     ProcState
  <1>2. /\ Shape(proc'[p]) /\ Role(proc'[p]) = "out" /\ Target(proc'[p]) = 0
        /\ AfterError(proc'[p]) => fsError
    BY <1>1, TaskFacts, OutShape, OutRecord
       DEF OutPoints, JoinPoints, Shape, AfterError
  <1>3. SameBooks
    BY Books DEF CoreInv, CurrentTransUnblocked
  <1>4. QED
    BY <1>1, <1>2, <1>3, TaskFacts, OutShape, SameRoleStep DEF OutPoints

LEMMA NothingToJoinKind ==
  ASSUME CoreInv, NEW p \in Procs, NothingToJoin(p)
  PROVE  Regular(p)
  <1>1. /\ proc[p].pc = "enoent" /\ OthersStay(p)
        /\ UNCHANGED <<list, tx, fsError>>
    BY TaskFacts DEF NothingToJoin, Return, Goto, At, OthersStay, shared
  <1>2. /\ Shape(proc'[p]) /\ Role(proc'[p]) = "out" /\ Target(proc'[p]) = 0
        /\ AfterError(proc'[p]) => fsError
    <2>1. CASE Return(p)
      BY <2>1, TaskFacts, ReturnedRecord DEF Return
    <2>2. CASE Goto(p, "find")
      BY <1>1, <2>2, TaskFacts, OutShape, OutRecord
         DEF Goto, ProcState, OutPoints, JoinPoints, Shape, AfterError
    <2>3. QED BY <2>1, <2>2 DEF NothingToJoin
  <1>3. QED
    BY <1>1, <1>2, TaskFacts, OutShape, Books, SameRoleStep
       DEF OutPoints, CoreInv

(* A record that Fresh makes outside any transaction. *)
LEMMA FreshRecord ==
  ASSUME NEW pc \in {"idle", "scan", "barrierdone"}, NEW g
  PROVE  LET r == Fresh(pc, "none", g) IN
         /\ Shape(r) /\ Role(r) = "out" /\ Target(r) = 0
         /\ AfterError(r) <=> pc = "scan"
  BY OutRecord DEF Fresh, OutPoints, JoinPoints

LEMMA AsyncCommitStartedKind ==
  ASSUME CoreInv, NEW p \in Procs, AsyncCommitStarted(p)
  PROVE  Regular(p)
  <1>1. /\ proc[p].pc = "asyncwait" /\ OthersStay(p)
        /\ UNCHANGED <<list, fsError>> /\ proc'[p] = IdleProc
    BY TaskFacts DEF AsyncCommitStarted, At, OthersStay
  <1>2. /\ Shape(proc'[p]) /\ Role(proc'[p]) = "out" /\ Target(proc'[p]) = 0
        /\ ~AfterError(proc'[p])
    BY <1>1, FreshRecord DEF IdleProc
  <1>3. SameBooks
    BY Books DEF CoreInv, AsyncCommitStarted
  <1>4. QED
    BY <1>1, <1>2, <1>3, TaskFacts, OutShape, SameRoleStep DEF OutPoints

LEMMA WaitRequestKind ==
  ASSUME CoreInv, NEW p \in Procs, NEW i, WaitRequest(p, i)
  PROVE  Regular(p)
  <1>1. /\ proc[p].pc = "idle" /\ proc'[p].pc = "find"
        /\ proc'[p].cont \in {"newest", "transid"}
        /\ proc'[p].type = proc[p].type
        /\ proc'[p].tx = proc[p].tx /\ proc'[p].doom = proc[p].doom
        /\ proc'[p].then = proc[p].then
        /\ OthersStay(p) /\ UNCHANGED <<list, tx, fsError>>
    BY TaskFacts DEF WaitRequest, At, OthersStay, ProcState, shared
  <1>2. /\ Shape(proc'[p]) /\ Role(proc'[p]) = "out" /\ Target(proc'[p]) = 0
        /\ ~AfterError(proc'[p])
    BY <1>1, TaskFacts, OutShape, OutRecord DEF OutPoints, JoinPoints, Shape
  <1>3. QED
    BY <1>1, <1>2, TaskFacts, OutShape, Books, SameRoleStep
       DEF OutPoints, CoreInv

(* The caller of btrfs_wait_for_commit() goes on. *)
LEMMA WaitOverRecord ==
  ASSUME CoreInv, NEW p \in Procs, NEW ok \in BOOLEAN, WaitOver(p, ok)
  PROVE  /\ OthersStay(p)
         /\ Shape(proc'[p]) /\ Role(proc'[p]) = "out" /\ Target(proc'[p]) = 0
         /\ AfterError(proc'[p]) => fsError
  <1>1. OthersStay(p)
    BY TaskFacts DEF WaitOver, OthersStay
  <1>2. \/ proc'[p] = Fresh("barrierdone", "none", proc[p].goal)
        \/ proc'[p] = Fresh("idle", "none", 0)
        \/ proc[p].cont = "scan" /\ proc'[p] = Fresh("scan", "none", 0)
    BY TaskFacts DEF WaitOver
  <1>3. proc[p].cont = "scan" => fsError
    BY TaskFacts DEF AfterError
  <1>4. QED BY <1>1, <1>2, <1>3, FreshRecord

LEMMA FindCommitKind ==
  ASSUME CoreInv, NEW p \in Procs, FindCommit(p)
  PROVE  Regular(p)
  <1>1. /\ proc[p].pc = "find" /\ UNCHANGED <<list, fsError>>
    BY DEF FindCommit, At
  <1>2. SameBooks
    BY Books DEF CoreInv, FindCommit
  <1>3. /\ OthersStay(p)
        /\ Shape(proc'[p]) /\ Role(proc'[p]) = "out" /\ Target(proc'[p]) = 0
        /\ AfterError(proc'[p]) => fsError
    <2>1. CASE WaitOver(p, TRUE)
      BY <2>1, WaitOverRecord
    <2>2. CASE \E i : proc' = [proc EXCEPT ![p].pc = "wait", ![p].ref = i]
      <3>1. /\ proc'[p].pc = "wait" /\ proc'[p].cont = proc[p].cont
            /\ proc'[p].type = proc[p].type /\ proc'[p].tx = proc[p].tx
            /\ proc'[p].doom = proc[p].doom /\ proc'[p].then = proc[p].then
            /\ OthersStay(p)
        BY <2>2, TaskFacts DEF OthersStay, ProcState
      <3>2. QED
        BY <1>1, <3>1, TaskFacts, OutShape, OutRecord
           DEF OutPoints, JoinPoints, WaitPoints, Shape, AfterError
    <2>3. QED BY <2>1, <2>2 DEF FindCommit
  <1>4. QED
    BY <1>1, <1>2, <1>3, TaskFacts, OutShape, SameRoleStep DEF OutPoints

(* Going from one wait to the next keeps the role. *)
LEMMA WaitPointsRecord ==
  ASSUME CoreInv, NEW p \in Procs, OthersStay(p), UNCHANGED <<list, fsError>>,
         SameBooks,
         proc[p].pc \in WaitPoints, proc'[p].pc \in WaitPoints,
         proc'[p].cont = proc[p].cont, proc'[p].type = proc[p].type,
         proc'[p].tx = proc[p].tx, proc'[p].doom = proc[p].doom,
         proc'[p].then = proc[p].then, proc'[p].ext = proc[p].ext
  PROVE  Regular(p)
  <1>1. CASE proc[p].cont # "prev"
    <2>1. /\ Shape(proc'[p]) /\ Role(proc'[p]) = "out"
          /\ Target(proc'[p]) = 0 /\ (AfterError(proc'[p]) => fsError)
      BY <1>1, TaskFacts, OutShape, OutRecord
         DEF JoinPoints, WaitPoints, AfterError
    <2>2. QED BY <1>1, <2>1, TaskFacts, OutShape, SameRoleStep
  <1>2. CASE proc[p].cont = "prev"
    <2>1. /\ Shape(proc'[p]) /\ Target(proc'[p]) = Target(proc[p])
          /\ ~AfterError(proc'[p])
      BY <1>2, TaskFacts, CommitShape, CommitRecord DEF WaitPoints
    <2>2. Role(proc[p]) = "prep" /\ Role(proc'[p]) = "prep"
      BY <1>2, RolePoints
    <2>3. QED BY <2>1, <2>2, SameRoleStep
  <1>3. QED BY <1>1, <1>2

LEMMA CommitReachedKind ==
  ASSUME CoreInv, NEW p \in Procs, CommitReached(p)
  PROVE  Regular(p)
  <1>1. SameBooks
    BY Books DEF CoreInv, CommitReached
  <1>2. QED
    BY <1>1, TaskFacts, WaitPointsRecord
       DEF CommitReached, At, WaitPoints, OthersStay, ProcState

LEMMA WaitForEarlierKind ==
  ASSUME CoreInv, NEW p \in Procs, WaitForEarlier(p)
  PROVE  Regular(p)
  <1>1. SameBooks
    BY Books DEF CoreInv, WaitForEarlier
  <1>2. QED
    BY <1>1, TaskFacts, WaitPointsRecord
       DEF WaitForEarlier, Goto, At, WaitPoints, OthersStay, ProcState

LEMMA AcknowledgeKind ==
  ASSUME CoreInv, NEW p \in Procs, Acknowledge(p)
  PROVE  Regular(p)
  <1>1. /\ proc[p].pc \in OutPoints /\ OthersStay(p)
        /\ UNCHANGED <<list, tx, fsError>> /\ proc'[p] = Returned(p)
    BY TaskFacts DEF Acknowledge, Return, OthersStay, OutPoints, shared
  <1>2. QED
    BY <1>1, TaskFacts, OutShape, ReturnedRecord, Books, SameRoleStep
       DEF CoreInv

LEMMA KthreadAttachKind ==
  ASSUME CoreInv, NEW p \in Procs, KthreadAttach(p)
  PROVE  Regular(p)
  <1>1. /\ proc[p].pc = "idle" /\ proc'[p].pc = "start"
        /\ proc'[p].type = "ATTACH" /\ proc'[p].cont = proc[p].cont
        /\ proc'[p].tx = proc[p].tx /\ proc'[p].doom = proc[p].doom
        /\ proc'[p].then = proc[p].then
        /\ OthersStay(p) /\ UNCHANGED <<list, tx, fsError>>
    BY TaskFacts DEF KthreadAttach, At, OthersStay, ProcState, shared
  <1>2. proc[p].then = "idle" /\ proc[p].cont = "none"
    BY <1>1, TaskFacts DEF Shape
  <1>3. /\ Shape(proc'[p]) /\ Role(proc'[p]) = "out" /\ Target(proc'[p]) = 0
        /\ ~AfterError(proc'[p])
    BY <1>1, <1>2, TaskFacts, OutShape, OutRecord DEF OutPoints, JoinPoints
  <1>4. QED
    BY <1>1, <1>3, TaskFacts, OutShape, Books, SameRoleStep
       DEF OutPoints, CoreInv

LEMMA KthreadErrorKind ==
  ASSUME CoreInv, NEW p \in Procs, KthreadError(p)
  PROVE  Regular(p)
  <1>1. /\ proc[p].pc = "idle" /\ proc'[p].pc = "scan" /\ fsError
        /\ proc'[p].type = proc[p].type /\ proc'[p].cont = proc[p].cont
        /\ proc'[p].tx = proc[p].tx /\ proc'[p].doom = proc[p].doom
        /\ proc'[p].then = proc[p].then
        /\ OthersStay(p) /\ UNCHANGED <<list, tx, fsError>>
    BY TaskFacts DEF KthreadError, Goto, At, OthersStay, ProcState, shared
  <1>2. /\ Shape(proc'[p]) /\ Role(proc'[p]) = "out" /\ Target(proc'[p]) = 0
    BY <1>1, TaskFacts, OutShape, OutRecord DEF OutPoints, JoinPoints, Shape
  <1>3. QED
    BY <1>1, <1>2, TaskFacts, OutShape, Books, SameRoleStep
       DEF OutPoints, CoreInv

(* A task with a handle goes on with it. *)
LEMMA HandleStep ==
  ASSUME CoreInv, NEW p \in Procs, OthersStay(p), UNCHANGED list, SameBooks,
         fsError => fsError',
         \/ proc[p].pc \in HandlePoints
         \/ proc[p].pc \in ErrorPoints /\ proc[p].cont # "clean",
         \/ proc'[p].pc \in HandlePoints
         \/ proc'[p].pc \in ErrorPoints /\ proc'[p].cont # "clean",
         proc'[p].pc = "endw" => proc'[p].cont \in {"ret", "async", "waiter"},
         proc'[p].cont = "scan" => proc[p].cont = "scan",
         proc'[p].tx = proc[p].tx, proc'[p].doom = proc[p].doom,
         proc'[p].type = proc[p].type, proc'[p].ext = proc[p].ext,
         proc'[p].then = "again" => proc'[p].type = "START"
  PROVE  Regular(p)
  <1>1. /\ Role(proc[p]) = "handle" /\ Target(proc[p]) = proc[p].tx
        /\ proc[p].tx # 0 /\ proc[p].doom = 0
        /\ proc[p].ext <=> proc[p].type \in EXTWRITERS
    BY TaskFacts, HandleShape
  <1>2. proc'[p].ext <=> proc'[p].type \in EXTWRITERS
    BY <1>1
  <1>3. /\ Shape(proc'[p]) /\ Role(proc'[p]) = "handle"
        /\ Target(proc'[p]) = proc[p].tx
        /\ AfterError(proc'[p]) <=> proc'[p].cont = "scan"
    BY <1>1, <1>2, HandleRecord
  <1>4. AfterError(proc'[p]) => fsError'
    BY <1>3, TaskFacts DEF AfterError
  <1>5. QED BY <1>1, <1>3, <1>4, SameRoleStep

LEMMA JoinedKind ==
  ASSUME CoreInv, NEW p \in Procs, Joined(p)
  PROVE  Regular(p)
  <1>1. /\ proc[p].pc = "joined" /\ proc'[p].pc \in {"held", "commit"}
        /\ proc'[p].tx = running /\ proc'[p].doom = proc[p].doom
        /\ proc'[p].type = proc[p].type /\ proc'[p].ext = proc[p].ext
        /\ proc'[p].cont = proc[p].cont
        /\ proc'[p].then = proc[p].then
           \/ (proc'[p].then = "again" /\ proc[p].type = "START")
        /\ OthersStay(p) /\ UNCHANGED <<list, tx, fsError>>
    BY TaskFacts DEF Joined, At, OthersStay, ProcState, shared
  <1>2. /\ Role(proc[p]) = "handle" /\ Target(proc[p]) = proc[p].tx
        /\ proc[p].then = "again" => proc[p].type = "START"
    BY <1>1, TaskFacts, HandleShape DEF HandlePoints
  <1>3. proc[p].tx = running
    BY <1>2 DEF CoreInv, RoleInv, HandlesAreRunning, RoleOf, TargetOf
  <1>4. SameBooks
    BY <1>1, Books DEF CoreInv
  <1>5. QED
    BY <1>1, <1>2, <1>3, <1>4, HandleStep DEF HandlePoints

(* Requests of the owner of a handle. *)
LEMMA HeldKind ==
  ASSUME CoreInv, NEW p \in Procs,
         \/ EndRequest(p)
         \/ \E b \in BOOLEAN : CommitRequest(p, b)
         \/ CommitAsyncRequest(p)
         \/ AbortRequest(p)
         \/ SyncLogRequest(p)
         \/ KthreadAttached(p)
  PROVE  Regular(p)
  <1>1. /\ proc[p].pc = "held"
        /\ proc'[p].pc \in {"endw", "commit", "abort", "loglock"}
        /\ proc'[p].pc = "endw" => proc'[p].cont \in {"ret", "async"}
        /\ proc'[p].pc = "abort" => proc'[p].cont = "held"
        /\ proc'[p].cont = "scan" => proc[p].cont = "scan"
        /\ proc'[p].tx = proc[p].tx /\ proc'[p].doom = proc[p].doom
        /\ proc'[p].type = proc[p].type /\ proc'[p].ext = proc[p].ext
        /\ proc'[p].then = proc[p].then
        /\ OthersStay(p)
    BY TaskFacts
       DEF EndRequest, CommitRequest, CommitAsyncRequest, AbortRequest,
           SyncLogRequest, KthreadAttached, Goto, At, OthersStay, ProcState
  <1>2. UNCHANGED <<list, fsError>>
    BY DEF EndRequest, CommitRequest, CommitAsyncRequest, AbortRequest,
           SyncLogRequest, KthreadAttached, shared
  <1>3. SameBooks
    BY Books
       DEF EndRequest, CommitRequest, CommitAsyncRequest, AbortRequest,
           SyncLogRequest, KthreadAttached, shared, CoreInv
  <1>4. proc[p].then = "again" => proc[p].type = "START"
    BY <1>1, TaskFacts, HandleShape DEF HandlePoints
  <1>5. QED
    BY <1>1, <1>2, <1>3, <1>4, HandleStep DEF HandlePoints, ErrorPoints

LEMMA ChargeOrderedKind ==
  ASSUME CoreInv, NEW p \in Procs, ChargeOrdered(p)
  PROVE  Regular(p)
  <1>1. /\ proc[p].pc = "held" /\ proc' = proc
        /\ UNCHANGED <<list, fsError>>
    BY DEF ChargeOrdered, At
  <1>2. SameBooks
    BY Books DEF ChargeOrdered, CoreInv
  <1>3. proc[p].then = "again" => proc[p].type = "START"
    BY <1>1, TaskFacts, HandleShape DEF HandlePoints
  <1>4. QED
    BY <1>1, <1>2, <1>3, HandleStep DEF HandlePoints, OthersStay

LEMMA AbortTransactionKind ==
  ASSUME CoreInv, NEW p \in Procs, AbortTransaction(p)
  PROVE  Regular(p)
  <1>1. /\ proc[p].pc = "abort" /\ proc'[p].pc = "fserror"
        /\ proc'[p].cont = proc[p].cont
        /\ proc'[p].tx = proc[p].tx /\ proc'[p].doom = proc[p].doom
        /\ proc'[p].type = proc[p].type /\ proc'[p].ext = proc[p].ext
        /\ proc'[p].then = proc[p].then
        /\ OthersStay(p) /\ UNCHANGED <<list, fsError>>
    BY TaskFacts DEF AbortTransaction, Goto, At, OthersStay, ProcState
  <1>2. SameBooks
    BY Books DEF AbortTransaction, CoreInv
  <1>3. CASE proc[p].cont # "clean"
    BY <1>1, <1>2, <1>3, TaskFacts, HandleShape, HandleStep DEF ErrorPoints
  <1>4. CASE proc[p].cont = "clean"
    <2>1. /\ Shape(proc'[p]) /\ Target(proc'[p]) = Target(proc[p])
          /\ ~AfterError(proc'[p])
      BY <1>1, <1>4, TaskFacts, CommitShape, CommitRecord
         DEF ErrorPoints, WaitPoints
    <2>2. Role(proc[p]) = "fail" /\ Role(proc'[p]) = "fail"
      BY <1>1, <1>4, RolePoints DEF ErrorPoints
    <2>3. QED BY <1>1, <1>2, <2>1, <2>2, SameRoleStep
  <1>5. QED BY <1>3, <1>4

LEMMA HandleFsErrorKind ==
  ASSUME CoreInv, NEW p \in Procs, HandleFsError(p)
  PROVE  Regular(p)
  <1>1. /\ proc[p].pc = "fserror"
        /\ proc'[p].pc = CASE proc[p].cont = "clean" -> "cleanlock"
                          [] proc[p].cont = "ret"   -> "endw"
                          [] OTHER                  -> "held"
        /\ proc'[p].cont = proc[p].cont
        /\ proc'[p].tx = proc[p].tx /\ proc'[p].doom = proc[p].doom
        /\ proc'[p].type = proc[p].type /\ proc'[p].ext = proc[p].ext
        /\ proc'[p].then = proc[p].then
        /\ OthersStay(p) /\ UNCHANGED <<list, tx>> /\ fsError'
    BY TaskFacts DEF HandleFsError, Goto, At, OthersStay, ProcState
  <1>2. SameBooks
    BY <1>1, Books DEF CoreInv
  <1>3. CASE proc[p].cont # "clean"
    BY <1>1, <1>2, <1>3, TaskFacts, HandleShape, HandleStep
       DEF ErrorPoints, HandlePoints
  <1>4. CASE proc[p].cont = "clean"
    <2>0. proc'[p].pc = "cleanlock"
      BY <1>1, <1>4
    <2>1. Shape(proc'[p]) /\ Target(proc'[p]) = Target(proc[p])
      BY <1>1, <1>4, <2>0, TaskFacts, CommitShape, CommitRecord
         DEF ErrorPoints, WaitPoints, CommitPoints
    <2>2. Role(proc[p]) = "fail" /\ Role(proc'[p]) = "fail"
      BY <1>1, <1>4, <2>0, RolePoints DEF ErrorPoints
    <2>3. QED BY <1>1, <1>2, <2>1, <2>2, SameRoleStep
  <1>5. QED BY <1>3, <1>4

LEMMA SyncLogKind ==
  ASSUME CoreInv, NEW p \in Procs, SyncLogLock(p) \/ SyncLogSuper(p)
  PROVE  Regular(p)
  <1>1. /\ proc[p].pc \in {"loglock", "logsuper"}
        /\ proc'[p].pc \in {"logsuper", "abort", "held"}
        /\ proc'[p].pc = "abort" => proc'[p].cont = "held"
        /\ proc'[p].cont = "scan" => proc[p].cont = "scan"
        /\ proc'[p].tx = proc[p].tx /\ proc'[p].doom = proc[p].doom
        /\ proc'[p].type = proc[p].type /\ proc'[p].ext = proc[p].ext
        /\ proc'[p].then = proc[p].then
        /\ OthersStay(p)
    BY TaskFacts DEF SyncLogLock, SyncLogSuper, Goto, At, OthersStay, ProcState
  <1>2. UNCHANGED <<list, tx>> /\ (fsError => fsError')
    BY DEF SyncLogLock, SyncLogSuper
  <1>3. SameBooks
    BY <1>2, Books DEF CoreInv
  <1>4. proc[p].then = "again" => proc[p].type = "START"
    BY <1>1, TaskFacts, HandleShape DEF HandlePoints
  <1>5. QED
    BY <1>1, <1>2, <1>3, <1>4, HandleStep DEF HandlePoints, ErrorPoints

LEMMA CommitEntryKind ==
  ASSUME CoreInv, NEW p \in Procs, CommitEntry(p)
  PROVE  Regular(p)
  <1>1. /\ proc[p].pc = "commit"
        /\ proc'[p].pc \in {"endw", "prep", "abort"}
        /\ proc'[p].pc \in {"endw", "abort"} => proc'[p].cont = "ret"
        /\ proc'[p].cont = "scan" => proc[p].cont = "scan"
        /\ proc'[p].tx = proc[p].tx /\ proc'[p].doom = proc[p].doom
        /\ proc'[p].type = proc[p].type /\ proc'[p].ext = proc[p].ext
        /\ proc'[p].then = proc[p].then
        /\ OthersStay(p) /\ UNCHANGED <<list, tx, fsError>>
    BY TaskFacts DEF CommitEntry, Goto, At, OthersStay, ProcState, shared
  <1>2. SameBooks
    BY <1>1, Books DEF CoreInv
  <1>3. proc[p].then = "again" => proc[p].type = "START"
    BY <1>1, TaskFacts, HandleShape DEF HandlePoints
  <1>4. QED
    BY <1>1, <1>2, <1>3, HandleStep DEF HandlePoints, ErrorPoints

LEMMA EndTransactionKind ==
  ASSUME CoreInv, NEW p \in Procs, EndTransaction(p)
  PROVE  Regular(p)
  <1> DEFINE i == proc[p].tx
  <1>1. /\ proc[p].pc = "endw" /\ proc'[p].pc = "endput"
        /\ proc'[p].cont = proc[p].cont
        /\ proc'[p].tx = i /\ proc'[p].doom = proc[p].doom
        /\ proc'[p].type = proc[p].type
        /\ proc'[p].then = proc[p].then
        /\ OthersStay(p) /\ UNCHANGED <<list, fsError>>
        /\ tx' = [tx EXCEPT ![i].writers = @ - 1, ![i].ext = @ - DropExt(p)]
    BY TaskFacts DEF EndTransaction, At, OthersStay, ProcState
  <1>2. /\ Role(proc[p]) = "handle" /\ Target(proc[p]) = i
        /\ i # 0 /\ proc[p].doom = 0
        /\ proc[p].then = "again" => proc[p].type = "START"
        /\ proc[p].ext <=> proc[p].type \in EXTWRITERS
    BY <1>1, TaskFacts, HandleShape DEF HandlePoints
  <1>3. /\ Shape(proc'[p]) /\ Role(proc'[p]) = "put" /\ Target(proc'[p]) = i
        /\ AfterError(proc'[p]) <=> proc[p].cont = "scan"
    <2>1. Role(proc'[p]) = "put"
      BY <1>1, RolePoints
    <2>2. proc[p].cont \in {"ret", "async", "waiter"}
      BY <1>1, TaskFacts DEF Shape
    <2>3. QED
      BY <1>1, <1>2, <2>1, <2>2
         DEF Shape, Target, Holders, AfterError, WalkPoints, JoinPoints
  <1>4. Leaves(p)
    <2>1. DropExt(p) = One(proc[p].ext)
      BY <1>2 DEF DropExt, One
    <2>2. TargetOf(p) = i
      BY <1>2 DEF TargetOf
    <2>3. ASSUME NEW j \in TransIds
          PROVE  /\ tx'[j].state = tx[j].state
                 /\ tx'[j].writers = tx[j].writers - One(j = TargetOf(p))
                 /\ tx'[j].ext = tx[j].ext
                                   - One(j = TargetOf(p) /\ proc[p].ext)
      <3>1. tx \in [TransIds -> TxState]
        BY DEF CoreInv, TypeOK
      <3>2. CASE j = i
        BY <1>1, <2>1, <2>2, <3>1, <3>2 DEF TxState, One
      <3>3. CASE j # i
        BY <1>1, <2>2, <3>1, <3>3 DEF TxState, One
      <3>4. QED BY <3>2, <3>3
    <2>4. QED
      BY <1>1, <1>2, <1>3, <2>2, <2>3
         DEF Leaves, RoleOf, NewRole, NewTarget, SameStates
  <1>5. QED
    BY <1>1, <1>3, <1>4, TaskFacts DEF Regular, Kind, AfterError

LEMMA EndPutKind ==
  ASSUME CoreInv, NEW p \in Procs, EndPut(p)
  PROVE  Regular(p)
  <1>1. /\ proc[p].pc = "endput" /\ UNCHANGED <<list, fsError>>
        /\ proc[p].cont \in {"ret", "async", "waiter"}
        /\ proc[p].then = "again" => proc[p].type = "START"
        /\ proc[p].doom = 0
    BY TaskFacts DEF EndPut, At, Shape, WalkPoints
  <1>2. Role(proc[p]) = "put"
    BY <1>1, RolePoints
  <1>3. SameBooks
    BY Books DEF CoreInv, EndPut
  <1>4. /\ OthersStay(p)
        /\ Shape(proc'[p]) /\ Role(proc'[p]) = "out" /\ Target(proc'[p]) = 0
        /\ ~AfterError(proc'[p])
    <2>1. CASE Return(p)
      BY <2>1, TaskFacts, ReturnedRecord DEF Return, OthersStay
    <2>2. CASE ~Return(p)
      <3>1. /\ OthersStay(p) /\ proc'[p].pc \in {"wait", "asyncwait"}
            /\ proc'[p].cont = proc[p].cont /\ proc'[p].type = proc[p].type
            /\ proc'[p].tx = 0 /\ proc'[p].doom = proc[p].doom
            /\ proc'[p].then = proc[p].then
        BY <1>1, <2>2, TaskFacts DEF EndPut, OthersStay, ProcState
      <3>2. QED
        BY <1>1, <3>1, OutRecord DEF OutPoints, WaitPoints, JoinPoints
    <2>3. QED BY <2>1, <2>2
  <1>5. Drops(p)
    BY <1>1, <1>2, <1>3, <1>4
       DEF Drops, RoleOf, NewRole, SameBooks, SameStates, list
  <1>6. QED
    BY <1>1, <1>4, <1>5 DEF Regular, Kind

LEMMA JoinRunningKind ==
  ASSUME CoreInv, NEW p \in Procs, JoinRunning(p), ~fsError,
         proc[p].pc \in {"join", "alloc"}, UNCHANGED <<list, fsError>>
  PROVE  Regular(p)
  <1>1. /\ Role(proc[p]) = "out" /\ Target(proc[p]) = 0 /\ proc[p].tx = 0
        /\ proc[p].doom = 0
        /\ proc[p].then = "again" => proc[p].type = "START"
        /\ proc[p].type \in {"START", "ATTACH", "JOIN", "JOIN_NOSTART"}
        /\ proc[p].cont \in {"none", "barrier"}
    BY TaskFacts, OutShape DEF OutPoints, JoinPoints, Shape
  <1>2. CASE Return(p) /\ UNCHANGED tx
    BY <1>1, <1>2, TaskFacts, ReturnedRecord, Books, SameRoleStep
       DEF Return, OthersStay, CoreInv
  <1>3. CASE Goto(p, "waitcur") /\ UNCHANGED tx
    <2>1. /\ proc'[p].pc = "waitcur"
          /\ proc'[p].cont = proc[p].cont /\ proc'[p].type = proc[p].type
          /\ proc'[p].tx = proc[p].tx /\ proc'[p].doom = proc[p].doom
          /\ proc'[p].then = proc[p].then /\ OthersStay(p)
      BY <1>3, TaskFacts DEF Goto, OthersStay, ProcState
    <2>2. /\ Shape(proc'[p]) /\ Role(proc'[p]) = "out" /\ Target(proc'[p]) = 0
          /\ ~AfterError(proc'[p])
      BY <1>1, <2>1, OutRecord DEF OutPoints, JoinPoints
    <2>3. QED
      BY <1>1, <1>3, <2>1, <2>2, Books, SameRoleStep DEF CoreInv
  <1>4. CASE ~(Return(p) /\ UNCHANGED tx) /\ ~(Goto(p, "waitcur") /\ UNCHANGED tx)
    <2> DEFINE t == proc[p].type
    <2>1. /\ running # 0 /\ t \notin BlockedTypes(tx[running].state)
          /\ tx' = [tx EXCEPT ![running].use = @ + 1,
                              ![running].writers = @ + 1,
                              ![running].ext = @ + One(t \in EXTWRITERS)]
          /\ proc' = [proc EXCEPT ![p].pc = "joined", ![p].tx = running,
                                  ![p].ext = t \in EXTWRITERS,
                                  ![p].cont = "none", ![p].goal = KeptGoal(p)]
      BY <1>4 DEF JoinRunning
    <2>2. /\ proc'[p].pc = "joined" /\ proc'[p].tx = running
          /\ proc'[p].ext = (t \in EXTWRITERS) /\ proc'[p].type = t
          /\ proc'[p].doom = proc[p].doom /\ proc'[p].then = proc[p].then
          /\ proc'[p].cont = "none" /\ OthersStay(p)
      BY <2>1, TaskFacts DEF OthersStay, ProcState
    <2>3. /\ Shape(proc'[p]) /\ Role(proc'[p]) = "handle"
          /\ Target(proc'[p]) = running /\ ~AfterError(proc'[p])
      BY <1>1, <2>1, <2>2, HandleRecord DEF HandlePoints
    <2>4. tx[running].state # COMMIT_DOING
      BY <1>1, <2>1, StateValues DEF BlockedTypes
    <2>5. ASSUME NEW i \in TransIds
          PROVE  /\ tx'[i].state = tx[i].state
                 /\ tx'[i].writers = tx[i].writers + One(i = running)
                 /\ tx'[i].ext = tx[i].ext + One(i = running /\ proc'[p].ext)
      <3>1. tx \in [TransIds -> TxState]
        BY DEF CoreInv, TypeOK
      <3>2. CASE i = running
        BY <2>1, <2>2, <3>1, <3>2 DEF TxState, One
      <3>3. CASE i # running
        BY <2>1, <3>1, <3>3 DEF TxState, One
      <3>4. QED BY <3>2, <3>3
    <2>6. Joins(p)
      BY <1>1, <2>1, <2>3, <2>4, <2>5
         DEF Joins, RoleOf, NewRole, NewTarget, SameStates
    <2>7. QED BY <2>2, <2>3, <2>6 DEF Regular, Kind
  <1>5. QED BY <1>2, <1>3, <1>4

LEMMA JoinTransactionKind ==
  ASSUME CoreInv, NEW p \in Procs, JoinTransaction(p)
  PROVE  Regular(p)
  <1>1. proc[p].pc = "join" /\ UNCHANGED <<list, fsError>>
    BY DEF JoinTransaction, At
  <1>2. CASE JoinRunning(p) /\ ~fsError
    BY <1>1, <1>2, JoinRunningKind
  <1>3. CASE ~(JoinRunning(p) /\ ~fsError)
    <2>1. /\ UNCHANGED tx
          /\ Return(p) \/ Goto(p, "enoent") \/ Goto(p, "alloc")
      BY <1>3 DEF JoinTransaction
    <2>2. /\ OthersStay(p)
          /\ Shape(proc'[p]) /\ Role(proc'[p]) = "out"
          /\ Target(proc'[p]) = 0 /\ ~AfterError(proc'[p])
      <3>1. CASE Return(p)
        BY <3>1, TaskFacts, ReturnedRecord DEF Return, OthersStay
      <3>2. CASE \E pc \in {"enoent", "alloc"} : Goto(p, pc)
        <4>1. /\ proc'[p].pc \in {"enoent", "alloc"} /\ OthersStay(p)
              /\ proc'[p].cont = proc[p].cont /\ proc'[p].type = proc[p].type
              /\ proc'[p].tx = proc[p].tx /\ proc'[p].doom = proc[p].doom
              /\ proc'[p].then = proc[p].then
          BY <3>2, TaskFacts DEF Goto, OthersStay, ProcState
        <4>2. /\ proc[p].type \in {"START", "ATTACH", "JOIN", "JOIN_NOSTART"}
              /\ proc[p].cont \in {"none", "barrier"}
          BY <1>1, TaskFacts DEF Shape, JoinPoints
        <4>3. QED
          BY <1>1, <4>1, <4>2, TaskFacts, OutShape, OutRecord
             DEF OutPoints, JoinPoints
      <3>3. QED BY <2>1, <3>1, <3>2
    <2>3. QED
      BY <1>1, <2>1, <2>2, TaskFacts, OutShape, Books, SameRoleStep
         DEF OutPoints, CoreInv
  <1>4. QED BY <1>2, <1>3

LEMMA NewTransactionKind ==
  ASSUME CoreInv, NEW p \in Procs, NewTransaction(p)
  PROVE  Regular(p)
  <1> DEFINE new == generation + 1
             t == proc[p].type
  <1>1. proc[p].pc = "alloc" /\ UNCHANGED fsError
    BY DEF NewTransaction, At
  <1>2. CASE JoinRunning(p) /\ ~fsError /\ UNCHANGED list
    BY <1>1, <1>2, JoinRunningKind
  <1>3. CASE Return(p) /\ UNCHANGED <<list, tx>>
    BY <1>1, <1>3, TaskFacts, OutShape, ReturnedRecord, Books, SameRoleStep
       DEF Return, OthersStay, CoreInv, OutPoints
  <1>4. CASE /\ ~(JoinRunning(p) /\ ~fsError /\ UNCHANGED list)
             /\ ~(Return(p) /\ UNCHANGED <<list, tx>>)
    <2>1. /\ running = 0 /\ generation < MaxTrans
          /\ generation' = new /\ running' = new
          /\ listed' = listed \cup {new}
          /\ tx' = [tx EXCEPT ![new] = Tx(1, One(t \in EXTWRITERS), 2)]
          /\ proc' = [proc EXCEPT ![p].pc = "joined", ![p].tx = new,
                                  ![p].ext = t \in EXTWRITERS,
                                  ![p].cont = "none", ![p].goal = KeptGoal(p)]
      BY <1>4 DEF NewTransaction, list
    <2>2. new \in TransIds /\ new # 0
      BY <2>1, ConstantsAssumption DEF CoreInv, TypeOK, TransIds
    <2>3. /\ Role(proc[p]) = "out" /\ proc[p].doom = 0
          /\ proc[p].then = "again" => proc[p].type = "START"
      BY <1>1, TaskFacts, OutShape DEF OutPoints
    <2>4. /\ proc'[p].pc = "joined" /\ proc'[p].tx = new
          /\ proc'[p].ext = (t \in EXTWRITERS) /\ proc'[p].type = t
          /\ proc'[p].doom = proc[p].doom /\ proc'[p].then = proc[p].then
          /\ proc'[p].cont = "none" /\ OthersStay(p)
      BY <2>1, TaskFacts DEF OthersStay, ProcState
    <2>5. /\ Shape(proc'[p]) /\ Role(proc'[p]) = "handle"
          /\ Target(proc'[p]) = new /\ ~AfterError(proc'[p])
      BY <2>2, <2>3, <2>4, HandleRecord DEF HandlePoints
    <2>6. /\ tx'[new].writers = 1 /\ tx'[new].ext = One(proc'[p].ext)
          /\ \A i \in TransIds \ {new} : tx'[i] = tx[i]
      BY <2>1, <2>2, <2>4 DEF CoreInv, TypeOK, Tx
    <2>7. Opens(p)
      BY <2>1, <2>2, <2>3, <2>5, <2>6 DEF Opens, RoleOf, NewRole, NewTarget
    <2>8. QED BY <1>1, <2>4, <2>5, <2>7 DEF Regular, Kind
  <1>5. QED BY <1>2, <1>3, <1>4

-----------------------------------------------------------------------------
(***************************************************************************)
(* Steps of a committer                                                    *)
(***************************************************************************)
(* What the invariant says of a committer and its transaction. *)
LEMMA CommitterFacts ==
  ASSUME CoreInv, NEW p \in Procs,
         \/ proc[p].pc \in CommitPoints
         \/ proc[p].pc \in WaitPoints /\ proc[p].cont = "prev"
         \/ proc[p].pc \in ErrorPoints /\ proc[p].cont = "clean"
  PROVE  LET i == proc[p].tx IN
         /\ Role(proc[p]) \in Committers \ {"walk"} /\ Target(proc[p]) = i
         /\ i \in TransIds /\ tx \in [TransIds -> TxState]
         /\ tx[i].state \in 0..6
         /\ OwnedState(Role(proc[p]), tx[i].state)
         /\ OwnedPlace(Role(proc[p]), tx[i].state, i, running, listed)
         /\ i \in listed /\ i # running => tx[i].state >= UNBLOCKED
  <1>1. /\ Role(proc[p]) \in Committers \ {"walk"}
        /\ Target(proc[p]) = proc[p].tx /\ proc[p].tx # 0
    BY TaskFacts, CommitShape
  <1>2. proc[p].tx \in 0..MaxTrans
    BY TaskFacts DEF ProcState
  <1>3. proc[p].tx \in TransIds
    BY <1>1, <1>2, ConstantsAssumption DEF TransIds
  <1>4. tx \in [TransIds -> TxState] /\ tx[proc[p].tx].state \in 0..6
    BY <1>3, StateValues DEF CoreInv, TypeOK, TxState
  <1>5. /\ OwnedState(Role(proc[p]), tx[proc[p].tx].state)
        /\ OwnedPlace(Role(proc[p]), tx[proc[p].tx].state, proc[p].tx,
                      running, listed)
    BY <1>1, RoleSets DEF CoreInv, RoleInv, Owned, RoleOf, TargetOf
  <1>6. QED
    BY <1>1, <1>3, <1>4, <1>5 DEF CoreInv, RoleInv, EarlierUnblocked

LEMMA StateSet ==
  ASSUME tx \in [TransIds -> TxState], NEW i \in TransIds, NEW s,
         tx' = [tx EXCEPT ![i].state = s]
  PROVE  /\ tx'[i].state = s /\ SameStatesBut(i)
         /\ \A j \in TransIds : /\ tx'[j].writers = tx[j].writers
                                /\ tx'[j].ext = tx[j].ext
  BY DEF TxState, SameStatesBut

LEMMA CountsKept ==
  ASSUME tx \in [TransIds -> TxState], NEW p, proc'[p].ext = proc[p].ext,
         \A j \in TransIds : /\ tx'[j].writers = tx[j].writers
                             /\ tx'[j].ext = tx[j].ext
  PROVE  SameCounts(p)
  <1>1. \A j \in TransIds : tx[j].ext \in Int
    BY DEF TxState
  <1>2. ASSUME NEW j \in TransIds
        PROVE  tx'[j].ext = tx[j].ext - One(/\ j = TargetOf(p)
                                            /\ RoleOf(p) \in Writing
                                            /\ proc[p].ext /\ ~proc'[p].ext)
    BY <1>1 DEF One
  <1>3. QED BY <1>2 DEF SameCounts

(* A committer goes on and stays one. *)
LEMMA CommitterStep ==
  ASSUME CoreInv, NEW p \in Procs, NEW i, i = proc[p].tx,
         OthersStay(p), UNCHANGED list,
         fsError => fsError', AfterError(proc'[p]) => fsError',
         \/ proc[p].pc \in CommitPoints
         \/ proc[p].pc \in WaitPoints /\ proc[p].cont = "prev"
         \/ proc[p].pc \in ErrorPoints /\ proc[p].cont = "clean",
         \/ proc'[p].pc \in CommitPoints
         \/ proc'[p].pc \in WaitPoints /\ proc'[p].cont = "prev"
         \/ proc'[p].pc \in ErrorPoints /\ proc'[p].cont = "clean",
         proc'[p].tx = i, proc'[p].doom = proc[p].doom,
         proc'[p].type = proc[p].type, proc'[p].then = proc[p].then,
         \/ proc'[p].ext = proc[p].ext
         \/ proc'[p].pc \notin WaitPoints \cup {"prevdone", "dropext"},
         proc'[p].pc \in WaitPoints \cup {"prevdone", "dropext"} =>
            proc[p].pc \in WaitPoints \cup {"prevdone", "dropext"},
         SameStatesBut(i), SameCounts(p),
         OwnedState(Role(proc'[p]), tx'[i].state),
         OwnedPlace(Role(proc'[p]), tx'[i].state, i, running, listed),
         i \in listed /\ i # running => tx'[i].state >= UNBLOCKED,
         Role(proc'[p]) \in Sealers =>
            Role(proc[p]) \in Sealers \/ i # running \/ tx[i].writers = 1
  PROVE  Regular(p)
  <1>1. /\ Role(proc[p]) \in Committers \ {"walk"} /\ Target(proc[p]) = i
        /\ i # 0 /\ proc[p].doom = 0
        /\ proc[p].then = "again" => proc[p].type = "START"
        /\ proc[p].pc \in WaitPoints \cup {"prevdone", "dropext"} =>
              (proc[p].ext <=> proc[p].type \in EXTWRITERS)
    BY TaskFacts, CommitShape
  <1>2. proc'[p].pc \in WaitPoints \cup {"prevdone", "dropext"} =>
           (proc'[p].ext <=> proc'[p].type \in EXTWRITERS)
    BY <1>1
  <1>3. /\ Shape(proc'[p]) /\ Role(proc'[p]) \in Committers \ {"walk"}
        /\ Target(proc'[p]) = i
    BY <1>1, <1>2, CommitRecord
  <1>4. MovesOn(p)
    BY <1>1, <1>3, RoleSets
       DEF MovesOn, RoleOf, TargetOf, NewRole, NewTarget, list
  <1>5. QED BY <1>3, <1>4 DEF Regular, Kind

LEMMA PrevCommittedKind ==
  ASSUME CoreInv, NEW p \in Procs, PrevCommitted(p)
  PROVE  Regular(p)
  <1> DEFINE i == proc[p].tx
  <1>1. /\ proc[p].pc = "prevdone" /\ proc'[p].pc = "dropext"
        /\ proc'[p].cont = proc[p].cont
        /\ proc'[p].tx = i /\ proc'[p].doom = proc[p].doom
        /\ proc'[p].type = proc[p].type /\ proc'[p].ext = proc[p].ext
        /\ proc'[p].then = proc[p].then
        /\ OthersStay(p) /\ UNCHANGED <<list, fsError>>
        /\ tx' = [tx EXCEPT ![i].state = COMMIT_START]
    BY TaskFacts DEF PrevCommitted, Goto, At, OthersStay, ProcState
  <1>2. Role(proc[p]) = "prep" /\ Role(proc'[p]) = "start"
    BY <1>1, RolePoints
  <1>3. /\ i \in TransIds /\ tx \in [TransIds -> TxState]
        /\ OwnedPlace(Role(proc[p]), tx[i].state, i, running, listed)
    BY <1>1, CommitterFacts DEF CommitPoints
  <1>4. /\ tx'[i].state = COMMIT_START /\ SameStatesBut(i) /\ SameCounts(p)
    BY <1>1, <1>3, StateSet, CountsKept
  <1>5. /\ OwnedState(Role(proc'[p]), tx'[i].state)
        /\ OwnedPlace(Role(proc'[p]), tx'[i].state, i, running, listed)
        /\ i = running
    BY <1>2, <1>3, <1>4, StateValues DEF OwnedState, OwnedPlace
  <1>6. AfterError(proc'[p]) => fsError'
    BY <1>1, TaskFacts DEF AfterError, WalkPoints
  <1>7. QED
    BY <1>1, <1>2, <1>4, <1>5, <1>6, CommitterStep
       DEF CommitPoints, Sealers

LEMMA NoExtwritersKind ==
  ASSUME CoreInv, NEW p \in Procs, NoExtwriters(p)
  PROVE  Regular(p)
  <1> DEFINE i == proc[p].tx
  <1>1. /\ proc[p].pc = "extwait"
        /\ \/ proc'[p].pc = "ordwait" /\ proc'[p].cont = proc[p].cont
           \/ proc'[p].pc = "abort" /\ proc'[p].cont = "clean"
        /\ proc'[p].tx = i /\ proc'[p].doom = proc[p].doom
        /\ proc'[p].type = proc[p].type /\ proc'[p].ext = proc[p].ext
        /\ proc'[p].then = proc[p].then
        /\ OthersStay(p) /\ UNCHANGED <<list, fsError, tx>>
    BY TaskFacts
       DEF NoExtwriters, GotoOrFail, Fail, Goto, At, OthersStay, ProcState,
           shared
  <1>2. Role(proc[p]) = "start" /\ Role(proc'[p]) \in {"quiet", "fail"}
    BY <1>1, RolePoints DEF ErrorPoints
  <1>3. /\ i \in TransIds /\ tx \in [TransIds -> TxState]
        /\ OwnedState(Role(proc[p]), tx[i].state)
        /\ OwnedPlace(Role(proc[p]), tx[i].state, i, running, listed)
    BY <1>1, CommitterFacts DEF CommitPoints
  <1>4. tx'[i].state = tx[i].state /\ SameStatesBut(i) /\ SameCounts(p)
    BY <1>1, <1>3, CountsKept DEF SameStatesBut
  <1>5. /\ OwnedState(Role(proc'[p]), tx'[i].state)
        /\ OwnedPlace(Role(proc'[p]), tx'[i].state, i, running, listed)
        /\ i = running
    BY <1>2, <1>3, <1>4, StateValues DEF OwnedState, OwnedPlace
  <1>6. AfterError(proc'[p]) => fsError'
    BY <1>1, TaskFacts DEF AfterError, WalkPoints
  <1>7. QED
    BY <1>1, <1>2, <1>4, <1>5, <1>6, CommitterStep
       DEF CommitPoints, ErrorPoints, WaitPoints, Sealers

LEMMA NoPendingOrderedKind ==
  ASSUME CoreInv, NEW p \in Procs, NoPendingOrdered(p)
  PROVE  Regular(p)
  <1> DEFINE i == proc[p].tx
  <1>1. /\ proc[p].pc = "ordwait" /\ proc'[p].pc = "wrwait"
        /\ proc'[p].cont = proc[p].cont
        /\ proc'[p].tx = i /\ proc'[p].doom = proc[p].doom
        /\ proc'[p].type = proc[p].type /\ proc'[p].ext = proc[p].ext
        /\ proc'[p].then = proc[p].then
        /\ OthersStay(p) /\ UNCHANGED <<list, fsError>>
        /\ tx' = [tx EXCEPT ![i].state = COMMIT_DOING]
    BY TaskFacts DEF NoPendingOrdered, Goto, At, OthersStay, ProcState
  <1>2. Role(proc[p]) = "quiet" /\ Role(proc'[p]) = "doing"
    BY <1>1, RolePoints
  <1>3. /\ i \in TransIds /\ tx \in [TransIds -> TxState]
        /\ OwnedPlace(Role(proc[p]), tx[i].state, i, running, listed)
    BY <1>1, CommitterFacts DEF CommitPoints
  <1>4. /\ tx'[i].state = COMMIT_DOING /\ SameStatesBut(i) /\ SameCounts(p)
    BY <1>1, <1>3, StateSet, CountsKept
  <1>5. /\ OwnedState(Role(proc'[p]), tx'[i].state)
        /\ OwnedPlace(Role(proc'[p]), tx'[i].state, i, running, listed)
        /\ i = running
    BY <1>2, <1>3, <1>4, StateValues DEF OwnedState, OwnedPlace
  <1>6. AfterError(proc'[p]) => fsError'
    BY <1>1, TaskFacts DEF AfterError, WalkPoints
  <1>7. QED
    BY <1>1, <1>2, <1>4, <1>5, <1>6, CommitterStep
       DEF CommitPoints, Sealers, WaitPoints

LEMMA NoOtherWritersKind ==
  ASSUME CoreInv, NEW p \in Procs, NoOtherWriters(p)
  PROVE  Regular(p)
  <1> DEFINE i == proc[p].tx
  <1>1. /\ proc[p].pc = "wrwait"
        /\ \/ proc'[p].pc = "doing" /\ proc'[p].cont = proc[p].cont
           \/ proc'[p].pc = "abort" /\ proc'[p].cont = "clean"
        /\ proc'[p].tx = i /\ proc'[p].doom = proc[p].doom
        /\ proc'[p].type = proc[p].type /\ proc'[p].ext = proc[p].ext
        /\ proc'[p].then = proc[p].then
        /\ OthersStay(p) /\ UNCHANGED <<list, fsError, tx>>
        /\ tx[i].writers = 1
    BY TaskFacts
       DEF NoOtherWriters, Alone, Fail, Goto, At, OthersStay, ProcState,
           shared
  <1>2. Role(proc[p]) = "doing" /\ Role(proc'[p]) \in {"alone", "fail"}
    BY <1>1, RolePoints DEF ErrorPoints
  <1>3. /\ i \in TransIds /\ tx \in [TransIds -> TxState]
        /\ OwnedState(Role(proc[p]), tx[i].state)
        /\ OwnedPlace(Role(proc[p]), tx[i].state, i, running, listed)
    BY <1>1, CommitterFacts DEF CommitPoints
  <1>4. tx'[i].state = tx[i].state /\ SameStatesBut(i) /\ SameCounts(p)
    BY <1>1, <1>3, CountsKept DEF SameStatesBut
  <1>5. /\ OwnedState(Role(proc'[p]), tx'[i].state)
        /\ OwnedPlace(Role(proc'[p]), tx'[i].state, i, running, listed)
        /\ i = running
    BY <1>2, <1>3, <1>4, StateValues DEF OwnedState, OwnedPlace
  <1>6. AfterError(proc'[p]) => fsError'
    BY <1>1, TaskFacts DEF AfterError, WalkPoints
  <1>7. QED
    BY <1>1, <1>4, <1>5, <1>6, CommitterStep
       DEF CommitPoints, ErrorPoints, WaitPoints

LEMMA CommitDoingKind ==
  ASSUME CoreInv, NEW p \in Procs, CommitDoing(p)
  PROVE  Regular(p)
  <1> DEFINE i == proc[p].tx
  <1>1. /\ proc[p].pc = "doing"
        /\ \/ proc'[p].pc = "unblock" /\ proc'[p].cont = proc[p].cont
           \/ proc'[p].pc = "abort" /\ proc'[p].cont = "clean"
        /\ proc'[p].tx = i /\ proc'[p].doom = proc[p].doom
        /\ proc'[p].type = proc[p].type /\ proc'[p].ext = proc[p].ext
        /\ proc'[p].then = proc[p].then
        /\ OthersStay(p) /\ UNCHANGED <<list, fsError, tx>>
    BY TaskFacts
       DEF CommitDoing, Fail, Goto, At, OthersStay, ProcState
  <1>2. Role(proc[p]) = "alone" /\ Role(proc'[p]) \in {"alone", "fail"}
    BY <1>1, RolePoints DEF ErrorPoints
  <1>3. /\ i \in TransIds /\ tx \in [TransIds -> TxState]
        /\ OwnedState(Role(proc[p]), tx[i].state)
        /\ OwnedPlace(Role(proc[p]), tx[i].state, i, running, listed)
    BY <1>1, CommitterFacts DEF CommitPoints
  <1>4. tx'[i].state = tx[i].state /\ SameStatesBut(i) /\ SameCounts(p)
    BY <1>1, <1>3, CountsKept DEF SameStatesBut
  <1>5. /\ OwnedState(Role(proc'[p]), tx'[i].state)
        /\ OwnedPlace(Role(proc'[p]), tx'[i].state, i, running, listed)
        /\ i = running
    BY <1>2, <1>3, <1>4, StateValues DEF OwnedState, OwnedPlace
  <1>6. AfterError(proc'[p]) => fsError'
    BY <1>1, TaskFacts DEF AfterError, WalkPoints
  <1>7. QED
    BY <1>1, <1>2, <1>4, <1>5, <1>6, CommitterStep
       DEF CommitPoints, ErrorPoints, WaitPoints, Sealers

LEMMA WriteBlocksKind ==
  ASSUME CoreInv, NEW p \in Procs, WriteBlocks(p)
  PROVE  Regular(p)
  <1> DEFINE i == proc[p].tx
  <1>1. /\ proc[p].pc = "write"
        /\ \/ proc'[p].pc = "super" /\ proc'[p].cont = proc[p].cont
           \/ proc'[p].pc = "abort" /\ proc'[p].cont = "clean"
        /\ proc'[p].tx = i /\ proc'[p].doom = proc[p].doom
        /\ proc'[p].type = proc[p].type /\ proc'[p].ext = proc[p].ext
        /\ proc'[p].then = proc[p].then
        /\ OthersStay(p) /\ UNCHANGED <<list, tx>> /\ (fsError => fsError')
    BY TaskFacts
       DEF WriteBlocks, Fail, Goto, At, OthersStay, ProcState
  <1>2. Role(proc[p]) = "writing" /\ Role(proc'[p]) \in {"writing", "fail"}
    BY <1>1, RolePoints DEF ErrorPoints
  <1>3. /\ i \in TransIds /\ tx \in [TransIds -> TxState]
        /\ OwnedState(Role(proc[p]), tx[i].state)
        /\ OwnedPlace(Role(proc[p]), tx[i].state, i, running, listed)
    BY <1>1, CommitterFacts DEF CommitPoints
  <1>4. tx'[i].state = tx[i].state /\ SameStatesBut(i) /\ SameCounts(p)
    BY <1>1, <1>3, CountsKept DEF SameStatesBut
  <1>5. /\ OwnedState(Role(proc'[p]), tx'[i].state)
        /\ OwnedPlace(Role(proc'[p]), tx'[i].state, i, running, listed)
        /\ tx'[i].state >= UNBLOCKED
    BY <1>2, <1>3, <1>4, StateValues DEF OwnedState, OwnedPlace
  <1>6. AfterError(proc'[p]) => fsError'
    BY <1>1, TaskFacts DEF AfterError, WalkPoints
  <1>7. QED
    BY <1>1, <1>2, <1>4, <1>5, <1>6, CommitterStep
       DEF CommitPoints, ErrorPoints, WaitPoints, Sealers

LEMMA WriteSuperKind ==
  ASSUME CoreInv, NEW p \in Procs, WriteSuper(p)
  PROVE  Regular(p)
  <1> DEFINE i == proc[p].tx
  <1>1. /\ proc[p].pc = "super"
        /\ \/ /\ proc'[p].pc = "finish" /\ proc'[p].cont = proc[p].cont
              /\ tx' = [tx EXCEPT ![i].state = SUPER_COMMITTED]
           \/ /\ proc'[p].pc = "abort" /\ proc'[p].cont = "clean"
              /\ UNCHANGED tx
        /\ proc'[p].tx = i /\ proc'[p].doom = proc[p].doom
        /\ proc'[p].type = proc[p].type /\ proc'[p].ext = proc[p].ext
        /\ proc'[p].then = proc[p].then
        /\ OthersStay(p) /\ UNCHANGED list /\ (fsError => fsError')
    BY TaskFacts
       DEF WriteSuper, Fail, Goto, At, OthersStay, ProcState
  <1>2. /\ Role(proc[p]) = "writing"
        /\ proc'[p].pc = "finish" => Role(proc'[p]) = "done"
        /\ proc'[p].pc = "abort" => Role(proc'[p]) = "fail"
    BY <1>1, RolePoints DEF ErrorPoints
  <1>3. /\ i \in TransIds /\ tx \in [TransIds -> TxState]
        /\ OwnedState(Role(proc[p]), tx[i].state)
        /\ OwnedPlace(Role(proc[p]), tx[i].state, i, running, listed)
    BY <1>1, CommitterFacts DEF CommitPoints
  <1>4. /\ tx'[i].state = IF proc'[p].pc = "finish" THEN SUPER_COMMITTED
                          ELSE tx[i].state
        /\ SameStatesBut(i) /\ SameCounts(p)
    <2>1. CASE proc'[p].pc = "abort"
      BY <1>1, <1>3, <2>1, CountsKept DEF SameStatesBut
    <2>2. CASE proc'[p].pc = "finish"
      BY <1>1, <1>3, <2>2, StateSet, CountsKept
    <2>3. QED BY <1>1, <2>1, <2>2
  <1>5. /\ OwnedState(Role(proc'[p]), tx'[i].state)
        /\ OwnedPlace(Role(proc'[p]), tx'[i].state, i, running, listed)
        /\ tx'[i].state >= UNBLOCKED
    BY <1>1, <1>2, <1>3, <1>4, StateValues DEF OwnedState, OwnedPlace
  <1>6. AfterError(proc'[p]) => fsError'
    BY <1>1, TaskFacts DEF AfterError, WalkPoints
  <1>7. QED
    BY <1>1, <1>2, <1>4, <1>5, <1>6, CommitterStep
       DEF CommitPoints, ErrorPoints, WaitPoints, Sealers

LEMMA CommitFinishKind ==
  ASSUME CoreInv, NEW p \in Procs, CommitFinish(p)
  PROVE  Regular(p)
  <1> DEFINE i == proc[p].tx
  <1>1. /\ proc[p].pc = "finish" /\ proc'[p].pc = "unlist"
        /\ proc'[p].cont = proc[p].cont
        /\ proc'[p].tx = i /\ proc'[p].doom = proc[p].doom
        /\ proc'[p].type = proc[p].type /\ proc'[p].ext = proc[p].ext
        /\ proc'[p].then = proc[p].then
        /\ OthersStay(p) /\ UNCHANGED <<list, fsError>>
        /\ tx' = [tx EXCEPT ![i].state = COMPLETED]
    BY TaskFacts DEF CommitFinish, Goto, At, OthersStay, ProcState
  <1>2. Role(proc[p]) = "done" /\ Role(proc'[p]) = "done"
    BY <1>1, RolePoints
  <1>3. /\ i \in TransIds /\ tx \in [TransIds -> TxState]
        /\ OwnedPlace(Role(proc[p]), tx[i].state, i, running, listed)
    BY <1>1, CommitterFacts DEF CommitPoints
  <1>4. /\ tx'[i].state = COMPLETED /\ SameStatesBut(i) /\ SameCounts(p)
    BY <1>1, <1>3, StateSet, CountsKept
  <1>5. /\ OwnedState(Role(proc'[p]), tx'[i].state)
        /\ OwnedPlace(Role(proc'[p]), tx'[i].state, i, running, listed)
        /\ tx'[i].state >= UNBLOCKED
    BY <1>2, <1>3, <1>4, StateValues DEF OwnedState, OwnedPlace
  <1>6. AfterError(proc'[p]) => fsError'
    BY <1>1, TaskFacts DEF AfterError, WalkPoints
  <1>7. QED
    BY <1>1, <1>2, <1>4, <1>5, <1>6, CommitterStep
       DEF CommitPoints, Sealers, WaitPoints

LEMMA CleanupLockKind ==
  ASSUME CoreInv, NEW p \in Procs, CleanupLock(p)
  PROVE  Regular(p)
  <1> DEFINE i == proc[p].tx
  <1>1. /\ proc[p].pc = "cleanlock"
        /\ IF i = running
           THEN /\ proc'[p].pc = "cleanwait"
                /\ tx' = [tx EXCEPT ![i].state = COMMIT_DOING]
           ELSE proc'[p].pc = "cleandel" /\ UNCHANGED tx
        /\ proc'[p].cont = proc[p].cont
        /\ proc'[p].tx = i /\ proc'[p].doom = proc[p].doom
        /\ proc'[p].type = proc[p].type /\ proc'[p].ext = proc[p].ext
        /\ proc'[p].then = proc[p].then
        /\ OthersStay(p) /\ UNCHANGED <<list, fsError>>
    BY TaskFacts DEF CleanupLock, Goto, At, OthersStay, ProcState
  <1>2. /\ Role(proc[p]) = "fail"
        /\ Role(proc'[p]) = IF i = running THEN "failwait" ELSE "dead"
    BY <1>1, RolePoints
  <1>3. /\ i \in TransIds /\ tx \in [TransIds -> TxState]
        /\ OwnedState(Role(proc[p]), tx[i].state)
        /\ OwnedPlace(Role(proc[p]), tx[i].state, i, running, listed)
    BY <1>1, CommitterFacts DEF CommitPoints
  <1>4. /\ tx'[i].state = IF i = running THEN COMMIT_DOING ELSE tx[i].state
        /\ SameStatesBut(i) /\ SameCounts(p)
    <2>1. CASE i # running
      BY <1>1, <1>3, <2>1, CountsKept DEF SameStatesBut
    <2>2. CASE i = running
      BY <1>1, <1>3, <2>2, StateSet, CountsKept
    <2>3. QED BY <1>1, <2>1, <2>2
  <1>5. /\ OwnedState(Role(proc'[p]), tx'[i].state)
        /\ OwnedPlace(Role(proc'[p]), tx'[i].state, i, running, listed)
        /\ i # running => tx'[i].state >= UNBLOCKED
    BY <1>1, <1>2, <1>3, <1>4, StateValues DEF OwnedState, OwnedPlace
  <1>6. AfterError(proc'[p]) => fsError'
    BY <1>1, TaskFacts DEF AfterError, WalkPoints
  <1>7. QED
    BY <1>1, <1>2, <1>4, <1>5, <1>6, CommitterStep
       DEF CommitPoints, WaitPoints, Sealers

LEMMA CleanupWaitKind ==
  ASSUME CoreInv, NEW p \in Procs, CleanupWait(p)
  PROVE  Regular(p)
  <1> DEFINE i == proc[p].tx
  <1>1. /\ proc[p].pc = "cleanwait" /\ proc'[p].pc = "cleandel"
        /\ proc'[p].cont = proc[p].cont
        /\ proc'[p].tx = i /\ proc'[p].doom = proc[p].doom
        /\ proc'[p].type = proc[p].type /\ proc'[p].ext = proc[p].ext
        /\ proc'[p].then = proc[p].then
        /\ OthersStay(p) /\ UNCHANGED <<list, fsError, tx>>
        /\ tx[i].writers = 1
    BY TaskFacts
       DEF CleanupWait, Alone, Goto, At, OthersStay, ProcState, shared
  <1>2. Role(proc[p]) = "failwait" /\ Role(proc'[p]) = "dead"
    BY <1>1, RolePoints
  <1>3. /\ i \in TransIds /\ tx \in [TransIds -> TxState]
        /\ OwnedState(Role(proc[p]), tx[i].state)
        /\ OwnedPlace(Role(proc[p]), tx[i].state, i, running, listed)
    BY <1>1, CommitterFacts DEF CommitPoints
  <1>4. tx'[i].state = tx[i].state /\ SameStatesBut(i) /\ SameCounts(p)
    BY <1>1, <1>3, CountsKept DEF SameStatesBut
  <1>5. /\ OwnedState(Role(proc'[p]), tx'[i].state)
        /\ OwnedPlace(Role(proc'[p]), tx'[i].state, i, running, listed)
        /\ i = running
    BY <1>2, <1>3, <1>4, StateValues DEF OwnedState, OwnedPlace
  <1>6. AfterError(proc'[p]) => fsError'
    BY <1>1, TaskFacts DEF AfterError, WalkPoints
  <1>7. QED
    BY <1>1, <1>4, <1>5, <1>6, CommitterStep DEF CommitPoints, WaitPoints

(* The committer is no external writer any more. *)
LEMMA DropExtwriterKind ==
  ASSUME CoreInv, NEW p \in Procs, DropExtwriter(p)
  PROVE  Regular(p)
  <1> DEFINE i == proc[p].tx
  <1>1. /\ proc[p].pc = "dropext"
        /\ \/ proc'[p].pc = "extwait" /\ proc'[p].cont = proc[p].cont
           \/ proc'[p].pc = "abort" /\ proc'[p].cont = "clean"
        /\ proc'[p].tx = i /\ proc'[p].doom = proc[p].doom
        /\ proc'[p].type = proc[p].type /\ proc'[p].ext = FALSE
        /\ proc'[p].then = proc[p].then
        /\ OthersStay(p) /\ UNCHANGED <<list, fsError>>
        /\ tx' = [tx EXCEPT ![i].ext = @ - DropExt(p)]
    BY TaskFacts DEF DropExtwriter, At, OthersStay, ProcState
  <1>2. /\ Role(proc[p]) = "start" /\ Role(proc'[p]) \in {"start", "fail"}
        /\ proc[p].ext <=> proc[p].type \in EXTWRITERS
    BY <1>1, RolePoints, TaskFacts, CommitShape DEF ErrorPoints, CommitPoints
  <1>3. /\ i \in TransIds /\ tx \in [TransIds -> TxState]
        /\ OwnedState(Role(proc[p]), tx[i].state)
        /\ OwnedPlace(Role(proc[p]), tx[i].state, i, running, listed)
        /\ Target(proc[p]) = i
    BY <1>1, CommitterFacts DEF CommitPoints
  <1>4. tx'[i].state = tx[i].state /\ SameStatesBut(i) /\ SameCounts(p)
    <2>1. tx'[i].state = tx[i].state /\ SameStatesBut(i)
      BY <1>1, <1>3 DEF SameStatesBut, TxState
    <2>2. TargetOf(p) = i /\ RoleOf(p) \in Writing
      BY <1>2, <1>3 DEF TargetOf, RoleOf, Writing, Committers
    <2>3. DropExt(p) = One(proc[p].ext)
      BY <1>2 DEF DropExt, One
    <2>4. ASSUME NEW j \in TransIds
          PROVE  /\ tx'[j].writers = tx[j].writers
                 /\ tx'[j].ext = tx[j].ext - One(/\ j = TargetOf(p)
                                                 /\ RoleOf(p) \in Writing
                                                 /\ proc[p].ext
                                                 /\ ~proc'[p].ext)
      <3>1. CASE j = i
        BY <1>1, <1>3, <2>2, <2>3, <3>1 DEF TxState, One
      <3>2. CASE j # i
        BY <1>1, <1>3, <2>2, <3>2 DEF TxState, One
      <3>3. QED BY <3>1, <3>2
    <2>5. QED BY <1>1, <2>1, <2>4 DEF SameCounts
  <1>5. /\ OwnedState(Role(proc'[p]), tx'[i].state)
        /\ OwnedPlace(Role(proc'[p]), tx'[i].state, i, running, listed)
        /\ i = running
    BY <1>2, <1>3, <1>4, StateValues DEF OwnedState, OwnedPlace
  <1>6. AfterError(proc'[p]) => fsError'
    BY <1>1, TaskFacts DEF AfterError, WalkPoints
  <1>7. QED
    BY <1>1, <1>2, <1>4, <1>5, <1>6, CommitterStep
       DEF CommitPoints, ErrorPoints, WaitPoints, Sealers

LEMMA CommitUnblockKind ==
  ASSUME CoreInv, NEW p \in Procs, CommitUnblock(p)
  PROVE  Regular(p)
  <1> DEFINE i == proc[p].tx
  <1>1. /\ proc[p].pc = "unblock" /\ proc'[p].pc = "write"
        /\ proc'[p].cont = proc[p].cont
        /\ proc'[p].tx = i /\ proc'[p].doom = proc[p].doom
        /\ proc'[p].type = proc[p].type /\ proc'[p].ext = proc[p].ext
        /\ proc'[p].then = proc[p].then
        /\ OthersStay(p) /\ UNCHANGED <<generation, listed, fsError>>
        /\ running' = 0
        /\ tx' = [tx EXCEPT ![i].state = UNBLOCKED]
    BY TaskFacts DEF CommitUnblock, Goto, At, OthersStay, ProcState
  <1>2. Role(proc[p]) = "alone" /\ Role(proc'[p]) = "writing"
    BY <1>1, RolePoints
  <1>3. /\ i \in TransIds /\ tx \in [TransIds -> TxState]
        /\ OwnedPlace(Role(proc[p]), tx[i].state, i, running, listed)
        /\ Target(proc[p]) = i
    BY <1>1, CommitterFacts DEF CommitPoints
  <1>4. /\ tx'[i].state = UNBLOCKED /\ SameStatesBut(i) /\ SameCounts(p)
        /\ i # 0
    <2>1. /\ tx'[i].state = UNBLOCKED /\ SameStatesBut(i)
          /\ \A j \in TransIds : /\ tx'[j].writers = tx[j].writers
                                 /\ tx'[j].ext = tx[j].ext
      BY <1>1, <1>3, StateSet
    <2>2. SameCounts(p)
      BY <1>1, <1>3, <2>1, CountsKept
    <2>3. i # 0
      BY <1>3 DEF TransIds
    <2>4. QED BY <2>1, <2>2, <2>3
  <1>5. /\ OwnedState(Role(proc'[p]), tx'[i].state)
        /\ OwnedPlace(Role(proc'[p]), tx'[i].state, i, running', listed')
        /\ i = running
    BY <1>1, <1>2, <1>3, <1>4, StateValues DEF OwnedState, OwnedPlace
  <1>6. /\ Shape(proc'[p]) /\ Target(proc'[p]) = i
        /\ AfterError(proc'[p]) => fsError'
    <2>1. proc[p].doom = 0 /\ (proc[p].then = "again" => proc[p].type = "START")
      BY <1>1, TaskFacts, CommitShape DEF CommitPoints
    <2>2. QED
      BY <1>1, <1>4, <2>1, TaskFacts, CommitRecord
         DEF CommitPoints, WaitPoints, AfterError, WalkPoints
  <1>7. MovesOn(p)
    BY <1>1, <1>2, <1>3, <1>4, <1>5, <1>6, StateValues
       DEF MovesOn, RoleOf, TargetOf, NewRole, NewTarget, Owners, Committers,
           Sealers
  <1>8. QED BY <1>1, <1>6, <1>7 DEF Regular, Kind

LEMMA CommitUnlistKind ==
  ASSUME CoreInv, NEW p \in Procs, CommitUnlist(p)
  PROVE  Regular(p)
  <1> DEFINE i == proc[p].tx
  <1>1. /\ proc[p].pc = "unlist" /\ proc'[p].pc = "putbase"
        /\ proc'[p].cont = proc[p].cont
        /\ proc'[p].tx = i /\ proc'[p].doom = proc[p].doom
        /\ proc'[p].type = proc[p].type /\ proc'[p].ext = proc[p].ext
        /\ proc'[p].then = proc[p].then
        /\ OthersStay(p) /\ UNCHANGED <<running, generation, fsError, tx>>
        /\ listed' = listed \ {i}
    BY TaskFacts DEF CommitUnlist, Goto, At, OthersStay, ProcState
  <1>2. Role(proc[p]) = "done" /\ Role(proc'[p]) = "gone"
    BY <1>1, RolePoints
  <1>3. /\ i \in TransIds /\ tx \in [TransIds -> TxState]
        /\ OwnedState(Role(proc[p]), tx[i].state)
        /\ OwnedPlace(Role(proc[p]), tx[i].state, i, running, listed)
        /\ Target(proc[p]) = i
    BY <1>1, CommitterFacts DEF CommitPoints
  <1>4. tx'[i].state = tx[i].state /\ SameStatesBut(i) /\ SameCounts(p)
    BY <1>1, <1>3, CountsKept DEF SameStatesBut
  <1>5. /\ OwnedState(Role(proc'[p]), tx'[i].state)
        /\ OwnedPlace(Role(proc'[p]), tx'[i].state, i, running', listed')
        /\ i # running /\ i \notin listed'
    BY <1>1, <1>2, <1>3, <1>4, StateValues DEF OwnedState, OwnedPlace
  <1>6. /\ Shape(proc'[p]) /\ Target(proc'[p]) = i
        /\ AfterError(proc'[p]) => fsError'
    <2>1. /\ proc[p].doom = 0 /\ i # 0
          /\ proc[p].then = "again" => proc[p].type = "START"
      BY <1>1, TaskFacts, CommitShape DEF CommitPoints
    <2>2. QED
      BY <1>1, <2>1, TaskFacts, CommitRecord
         DEF CommitPoints, WaitPoints, AfterError, WalkPoints
  <1>7. MovesOn(p)
    BY <1>1, <1>2, <1>3, <1>4, <1>5, <1>6
       DEF MovesOn, RoleOf, TargetOf, NewRole, NewTarget, Owners, Committers,
           Sealers
  <1>8. QED BY <1>1, <1>6, <1>7 DEF Regular, Kind

LEMMA CommitPutKind ==
  ASSUME CoreInv, NEW p \in Procs, CommitPut(p)
  PROVE  Regular(p)
  <1> DEFINE i == proc[p].tx
  <1>1. /\ proc[p].pc = "putbase" /\ proc'[p].pc = "committed"
        /\ proc'[p].cont = proc[p].cont
        /\ proc'[p].tx = 0 /\ proc'[p].doom = proc[p].doom
        /\ proc'[p].type = proc[p].type /\ proc'[p].then = proc[p].then
        /\ OthersStay(p) /\ UNCHANGED <<list, fsError>>
    BY TaskFacts DEF CommitPut, At, OthersStay, ProcState
  <1>2. /\ Role(proc[p]) = "gone" /\ Target(proc[p]) = i
        /\ proc[p].doom = 0
        /\ proc[p].then = "again" => proc[p].type = "START"
    BY <1>1, RolePoints, TaskFacts, CommitShape DEF CommitPoints
  <1>3. i # running /\ i \notin listed
    BY <1>1, <1>2, CommitterFacts DEF CommitPoints, OwnedPlace
  <1>4. /\ Shape(proc'[p]) /\ Role(proc'[p]) = "out"
        /\ AfterError(proc'[p]) => fsError'
    BY <1>1, <1>2, TaskFacts, OutRecord DEF OutPoints, JoinPoints, AfterError
  <1>5. SameBooks
    BY Books DEF CommitPut, CoreInv
  <1>6. Drops(p)
    BY <1>1, <1>2, <1>3, <1>4, <1>5
       DEF Drops, RoleOf, TargetOf, NewRole, SameBooks, SameStates, list
  <1>7. QED BY <1>1, <1>4, <1>6 DEF Regular, Kind

(* What the invariant says of a task that tears a transaction down. *)
LEMMA WalkerFacts ==
  ASSUME CoreInv, NEW p \in Procs, proc[p].pc \in WalkPoints \cup {"drain"}
  PROVE  LET i == proc[p].doom IN
         /\ Target(proc[p]) = i /\ i # 0
         /\ Role(proc[p]) \in {"walk", "kwalk", "kdrain"}
         /\ i \in TransIds /\ tx \in [TransIds -> TxState]
         /\ OwnedState(Role(proc[p]), tx[i].state)
         /\ OwnedPlace(Role(proc[p]), tx[i].state, i, running, listed)
         /\ fsError
  <1>1. /\ Role(proc[p]) \in {"walk", "kwalk", "kdrain"}
        /\ Target(proc[p]) = proc[p].doom /\ proc[p].doom # 0
    BY TaskFacts, WalkShape
  <1>2. proc[p].doom \in 0..MaxTrans
    BY TaskFacts DEF ProcState
  <1>3. proc[p].doom \in TransIds
    BY <1>1, <1>2, ConstantsAssumption DEF TransIds
  <1>4. tx \in [TransIds -> TxState]
    BY DEF CoreInv, TypeOK
  <1>5. /\ OwnedState(Role(proc[p]), tx[proc[p].doom].state)
        /\ OwnedPlace(Role(proc[p]), tx[proc[p].doom].state, proc[p].doom,
                      running, listed)
    BY <1>1
       DEF CoreInv, RoleInv, Owned, RoleOf, TargetOf, Owners, Committers,
           Reapers
  <1>6. fsError
    BY TaskFacts DEF AfterError
  <1>7. QED BY <1>1, <1>3, <1>4, <1>5, <1>6

LEMMA CleanupUnlistKind ==
  ASSUME CoreInv, NEW p \in Procs, CleanupUnlist(p)
  PROVE  Regular(p)
  <1> DEFINE i == proc[p].tx
  <1>1. /\ proc[p].pc = "cleandel" /\ proc'[p].pc = "clean1"
        /\ proc'[p].tx = i /\ proc'[p].doom = i
        /\ proc'[p].type = proc[p].type /\ proc'[p].ext = proc[p].ext
        /\ proc'[p].then = proc[p].then
        /\ OthersStay(p) /\ UNCHANGED <<running, generation, fsError, tx>>
        /\ listed' = listed \ {i}
    BY TaskFacts DEF CleanupUnlist, At, OthersStay, ProcState
  <1>2. /\ i \in TransIds /\ tx \in [TransIds -> TxState]
        /\ OwnedState(Role(proc[p]), tx[i].state)
        /\ OwnedPlace(Role(proc[p]), tx[i].state, i, running, listed)
        /\ Target(proc[p]) = i
    BY <1>1, CommitterFacts DEF CommitPoints
  <1>3. /\ i # 0 /\ fsError
        /\ proc[p].then = "again" => proc[p].type = "START"
    BY <1>1, TaskFacts, CommitShape DEF CommitPoints, AfterError
  <1>4. /\ Shape(proc'[p]) /\ Target(proc'[p]) = i
        /\ Role(proc'[p]) = "walk"
    BY <1>1, <1>3, WalkRecord DEF WalkPoints
  <1>5. Role(proc[p]) = "dead"
    BY <1>1, RolePoints
  <1>6. tx'[i].state = tx[i].state /\ SameStatesBut(i) /\ SameCounts(p)
    BY <1>1, <1>2, CountsKept DEF SameStatesBut
  <1>7. /\ OwnedState(Role(proc'[p]), tx'[i].state)
        /\ OwnedPlace(Role(proc'[p]), tx'[i].state, i, running', listed')
        /\ i \notin listed'
    BY <1>1, <1>2, <1>4, <1>5, <1>6 DEF OwnedState, OwnedPlace
  <1>8. MovesOn(p)
    BY <1>1, <1>2, <1>4, <1>5, <1>6, <1>7
       DEF MovesOn, RoleOf, TargetOf, NewRole, NewTarget, Owners, Committers,
           Sealers
  <1>9. QED BY <1>1, <1>3, <1>4, <1>8 DEF Regular, Kind

LEMMA CleanupOneKind ==
  ASSUME CoreInv, NEW p \in Procs, CleanupOne(p)
  PROVE  Regular(p)
  <1> DEFINE i == proc[p].doom
  <1>0. PICK s \in {COMMIT_START, UNBLOCKED, COMPLETED} :
           /\ tx' = [tx EXCEPT ![i].state = s]
           /\ proc[p].pc \in WalkPoints /\ proc'[p].pc \in WalkPoints
           /\ proc'[p].tx = proc[p].tx /\ proc'[p].doom = i
           /\ proc'[p].type = proc[p].type /\ proc'[p].ext = proc[p].ext
           /\ proc'[p].then = proc[p].then
           /\ OthersStay(p) /\ UNCHANGED <<list, fsError>>
    BY TaskFacts
       DEF CleanupOne, CleanupState, Goto, At, OthersStay, ProcState,
           WalkPoints
  <1>1. /\ Target(proc[p]) = i /\ i # 0
        /\ i \in TransIds /\ tx \in [TransIds -> TxState] /\ fsError
        /\ OwnedPlace(Role(proc[p]), tx[i].state, i, running, listed)
    BY <1>0, WalkerFacts
  <1>2. /\ proc[p].tx = 0 \/ proc[p].tx = i
        /\ proc[p].then = "again" => proc[p].type = "START"
        /\ Role(proc[p]) = IF proc[p].tx = 0 THEN "kwalk" ELSE "walk"
    BY <1>0, TaskFacts, WalkShape DEF WalkPoints
  <1>3. /\ Shape(proc'[p]) /\ Target(proc'[p]) = i
        /\ Role(proc'[p]) = Role(proc[p])
    BY <1>0, <1>1, <1>2, WalkRecord DEF WalkPoints
  <1>4. /\ tx'[i].state = s /\ SameStatesBut(i) /\ SameCounts(p)
        /\ s >= COMMIT_PREP
    <2>1. /\ tx'[i].state = s /\ SameStatesBut(i)
          /\ \A j \in TransIds : /\ tx'[j].writers = tx[j].writers
                                 /\ tx'[j].ext = tx[j].ext
      BY <1>0, <1>1, StateSet
    <2>2. SameCounts(p)
      BY <1>0, <1>1, <2>1, CountsKept
    <2>3. s >= COMMIT_PREP
      BY StateValues
    <2>4. QED BY <2>1, <2>2, <2>3
  <1>5. /\ OwnedState(Role(proc'[p]), tx'[i].state)
        /\ OwnedPlace(Role(proc'[p]), tx'[i].state, i, running', listed')
        /\ i \in listed' => i = running'
    BY <1>0, <1>1, <1>2, <1>3, <1>4 DEF OwnedState, OwnedPlace, list
  <1>6. MovesOn(p)
    BY <1>0, <1>1, <1>2, <1>3, <1>4, <1>5
       DEF MovesOn, RoleOf, TargetOf, NewRole, NewTarget, Owners, Committers,
           Reapers, Sealers, list
  <1>7. QED BY <1>0, <1>1, <1>3, <1>6 DEF Regular, Kind

LEMMA CleanupDoneKind ==
  ASSUME CoreInv, NEW p \in Procs, CleanupDone(p)
  PROVE  Regular(p)
  <1> DEFINE i == proc[p].doom
  <1>1. /\ proc[p].pc = "cleandone" /\ UNCHANGED <<generation, fsError>>
        /\ running' = IF running = i THEN 0 ELSE running
        /\ listed' = listed \ {i}
    BY DEF CleanupDone, At
  <1>2. Target(proc[p]) = i /\ fsError /\ i \in TransIds
    BY <1>1, WalkerFacts DEF WalkPoints
  <1>3. Role(proc[p]) \in {"walk", "kwalk"}
    BY <1>1, RolePoints DEF WalkPoints
  <1>4. OthersStay(p) /\ Shape(proc'[p]) /\ Role(proc'[p]) = "out"
    <2>1. CASE Return(p)
      BY <2>1, TaskFacts, ReturnedRecord DEF Return, OthersStay
    <2>2. CASE proc' = [proc EXCEPT ![p] = Fresh("scan", "none", 0)]
      BY <2>2, TaskFacts, OutRecord
         DEF OthersStay, Fresh, OutPoints, JoinPoints
    <2>3. QED BY <2>1, <2>2 DEF CleanupDone
  <1>5. SameBooks
    <2>1. tx \in [TransIds -> TxState]
      BY DEF CoreInv, TypeOK
    <2>2. PICK n : tx' = [tx EXCEPT ![i].use = @ - n]
      BY DEF CleanupDone
    <2>3. QED BY <2>1, <2>2 DEF SameBooks, TxState
  <1>6. Drops(p)
    BY <1>1, <1>2, <1>3, <1>4, <1>5
       DEF Drops, RoleOf, TargetOf, NewRole, SameBooks, SameStates
  <1>7. QED BY <1>1, <1>2, <1>4, <1>6 DEF Regular, Kind

LEMMA KthreadDrainKind ==
  ASSUME CoreInv, NEW p \in Procs, KthreadDrain(p)
  PROVE  Regular(p)
  <1> DEFINE i == proc[p].doom
  <1>0. /\ proc[p].pc = "drain" /\ proc'[p].pc = "clean1"
        /\ proc'[p].tx = proc[p].tx /\ proc'[p].doom = i
        /\ proc'[p].type = proc[p].type /\ proc'[p].ext = proc[p].ext
        /\ proc'[p].then = proc[p].then
        /\ OthersStay(p) /\ UNCHANGED <<list, fsError, tx>>
        /\ tx[i].writers = 0
    BY TaskFacts DEF KthreadDrain, Goto, At, OthersStay, ProcState, shared
  <1>1. /\ Target(proc[p]) = i /\ i # 0
        /\ i \in TransIds /\ tx \in [TransIds -> TxState] /\ fsError
        /\ OwnedState(Role(proc[p]), tx[i].state)
        /\ OwnedPlace(Role(proc[p]), tx[i].state, i, running, listed)
    BY <1>0, WalkerFacts
  <1>2. /\ proc[p].tx = 0 /\ Role(proc[p]) = "kdrain"
        /\ proc[p].then = "again" => proc[p].type = "START"
    BY <1>0, TaskFacts, WalkShape DEF WalkPoints
  <1>3. /\ Shape(proc'[p]) /\ Target(proc'[p]) = i
        /\ Role(proc'[p]) = "kwalk"
    BY <1>0, <1>1, <1>2, WalkRecord DEF WalkPoints
  <1>4. tx'[i].state = tx[i].state /\ SameStatesBut(i) /\ SameCounts(p)
    BY <1>0, <1>1, CountsKept DEF SameStatesBut
  <1>5. /\ OwnedState(Role(proc'[p]), tx'[i].state)
        /\ OwnedPlace(Role(proc'[p]), tx'[i].state, i, running', listed')
        /\ i = running'
    BY <1>0, <1>1, <1>2, <1>3, <1>4 DEF OwnedState, OwnedPlace, list
  <1>6. MovesOn(p)
    BY <1>0, <1>1, <1>2, <1>3, <1>4, <1>5
       DEF MovesOn, RoleOf, TargetOf, NewRole, NewTarget, Owners, Reapers,
           Sealers, list
  <1>7. QED BY <1>0, <1>1, <1>3, <1>6 DEF Regular, Kind

LEMMA KthreadScanKind ==
  ASSUME CoreInv, NEW p \in Procs, KthreadScan(p)
  PROVE  Regular(p)
  <1>1. /\ proc[p].pc = "scan" /\ UNCHANGED <<list, fsError>> /\ fsError
    BY TaskFacts DEF KthreadScan, At, AfterError
  <1>2. /\ Role(proc[p]) = "out" /\ Target(proc[p]) = 0 /\ proc[p].tx = 0
        /\ proc[p].doom = 0
        /\ proc[p].cont = "none" /\ proc[p].then = "idle"
    BY <1>1, TaskFacts, OutShape DEF OutPoints, Shape
  <1>3. CASE Goto(p, "idle") /\ UNCHANGED tx
    <2>1. /\ proc'[p].pc = "idle" /\ OthersStay(p)
          /\ proc'[p].cont = proc[p].cont /\ proc'[p].type = proc[p].type
          /\ proc'[p].tx = proc[p].tx /\ proc'[p].doom = proc[p].doom
          /\ proc'[p].then = proc[p].then
      BY <1>3, TaskFacts DEF Goto, OthersStay, ProcState
    <2>2. /\ Shape(proc'[p]) /\ Role(proc'[p]) = "out" /\ Target(proc'[p]) = 0
      BY <1>2, <2>1, OutRecord DEF OutPoints, JoinPoints
    <2>3. QED
      BY <1>1, <1>2, <1>3, <2>1, <2>2, Books, SameRoleStep DEF CoreInv
  <1>4. ASSUME NEW i \in listed, tx' = Pin(i),
               proc' = [proc EXCEPT ![p].pc = "find", ![p].cont = "scan",
                                    ![p].goal = i, ![p].pin = i]
        PROVE  Regular(p)
    <2>1. /\ proc'[p].pc = "find" /\ OthersStay(p)
          /\ proc'[p].cont = "scan" /\ proc'[p].type = proc[p].type
          /\ proc'[p].tx = proc[p].tx /\ proc'[p].doom = proc[p].doom
          /\ proc'[p].then = proc[p].then
      BY <1>4, TaskFacts DEF OthersStay, ProcState
    <2>2. /\ Shape(proc'[p]) /\ Role(proc'[p]) = "out" /\ Target(proc'[p]) = 0
      BY <1>2, <2>1, OutRecord DEF OutPoints, JoinPoints
    <2>3. QED
      BY <1>1, <1>2, <1>4, <2>1, <2>2, Books, SameRoleStep DEF CoreInv
  <1>5. ASSUME NEW i \in listed, ~HasCommitter(i),
               proc' = [proc EXCEPT ![p].doom = i,
                          ![p].pc = IF i = running THEN "drain" ELSE "clean1"],
               tx' = IF i = running
                     THEN [tx EXCEPT ![i].state = COMMIT_DOING] ELSE tx
        PROVE  Regular(p)
    <2>1. /\ i \in TransIds /\ tx \in [TransIds -> TxState]
          /\ tx[i].state \in 0..6 /\ i # 0
      <3>1. i \in TransIds /\ tx \in [TransIds -> TxState]
        BY DEF CoreInv, TypeOK
      <3>2. tx[i].state \in 0..6
        BY <3>1, StateValues DEF TxState
      <3>3. QED BY <3>1, <3>2 DEF TransIds
    <2>2. tx[i].state < COMMIT_PREP
      BY <1>5, <2>1, StateValues DEF HasCommitter
    <2>3. i = running
      BY <2>1, <2>2, StateValues DEF CoreInv, RoleInv, EarlierUnblocked
    <2>4. /\ proc'[p].pc = "drain" /\ OthersStay(p) /\ proc'[p].doom = i
          /\ proc'[p].tx = proc[p].tx /\ proc'[p].type = proc[p].type
          /\ proc'[p].then = proc[p].then /\ proc'[p].ext = proc[p].ext
      BY <1>5, <2>3, TaskFacts DEF OthersStay, ProcState
    <2>5. /\ Shape(proc'[p]) /\ Role(proc'[p]) = "kdrain"
          /\ Target(proc'[p]) = i
      BY <1>2, <2>1, <2>4, WalkRecord DEF WalkPoints
    <2>6. /\ tx'[i].state = COMMIT_DOING /\ SameStatesBut(i)
          /\ \A j \in TransIds : /\ tx'[j].writers = tx[j].writers
                                 /\ tx'[j].ext = tx[j].ext
      BY <1>5, <2>1, <2>3, StateSet
    <2>7. /\ OwnedState("kdrain", tx'[i].state)
          /\ OwnedPlace("kdrain", tx'[i].state, i, running, listed)
      BY <2>3, <2>6, StateValues DEF OwnedState, OwnedPlace
    <2>8. Takes(p)
      BY <1>1, <1>2, <2>2, <2>3, <2>4, <2>5, <2>6, <2>7
         DEF Takes, RoleOf, NewRole, NewTarget, Owners, Reapers, Sealers
    <2>9. QED BY <1>1, <2>4, <2>5, <2>8 DEF Regular, Kind
  <1>6. QED BY <1>3, <1>4, <1>5 DEF KthreadScan

LEMMA WaitedKind ==
  ASSUME CoreInv, NEW p \in Procs, Waited(p)
  PROVE  Regular(p)
  <1> DEFINE i == proc[p].tx
  <1>1. /\ proc[p].pc = "waited" /\ UNCHANGED <<list, fsError>>
    BY DEF Waited, At
  <1>2. SameBooks
    BY Books DEF CoreInv, Waited
  <1>3. CASE proc[p].cont = "prev"
    <2>1. /\ \/ proc'[p].pc = "abort" /\ proc'[p].cont = "clean"
             \/ proc'[p].pc = "prevdone" /\ proc'[p].cont = "none"
          /\ proc'[p].tx = i /\ proc'[p].doom = proc[p].doom
          /\ proc'[p].type = proc[p].type /\ proc'[p].ext = proc[p].ext
          /\ proc'[p].then = proc[p].then
          /\ OthersStay(p)
      BY <1>3, TaskFacts DEF Waited, OthersStay, ProcState
    <2>2. Role(proc[p]) = "prep" /\ Role(proc'[p]) \in {"prep", "fail"}
      BY <1>1, <1>3, <2>1, RolePoints DEF ErrorPoints, WaitPoints
    <2>3. /\ i \in TransIds /\ tx \in [TransIds -> TxState]
          /\ OwnedState(Role(proc[p]), tx[i].state)
          /\ OwnedPlace(Role(proc[p]), tx[i].state, i, running, listed)
      BY <1>1, <1>3, CommitterFacts DEF WaitPoints
    <2>4. tx'[i].state = tx[i].state /\ SameStatesBut(i) /\ SameCounts(p)
      BY <1>2, <2>1, <2>3, CountsKept DEF SameStatesBut, SameBooks
    <2>5. /\ OwnedState(Role(proc'[p]), tx'[i].state)
          /\ OwnedPlace(Role(proc'[p]), tx'[i].state, i, running, listed)
          /\ i = running
      BY <2>2, <2>3, <2>4, StateValues DEF OwnedState, OwnedPlace
    <2>6. AfterError(proc'[p]) => fsError'
      BY <2>1 DEF AfterError, WalkPoints
    <2>7. QED
      BY <1>1, <1>3, <2>1, <2>2, <2>4, <2>5, <2>6, CommitterStep
         DEF CommitPoints, ErrorPoints, WaitPoints, Sealers
  <1>4. CASE proc[p].cont # "prev"
    <2>1. /\ Role(proc[p]) = "out" /\ Target(proc[p]) = 0
          /\ proc[p].tx = 0 /\ proc[p].doom = 0
          /\ proc[p].then = "again" => proc[p].type = "START"
      BY <1>1, <1>4, TaskFacts, OutShape DEF WaitPoints
    <2>2. /\ OthersStay(p)
          /\ Shape(proc'[p]) /\ Role(proc'[p]) = "out"
          /\ Target(proc'[p]) = 0 /\ (AfterError(proc'[p]) => fsError)
      <3>1. CASE proc[p].cont = "waiter" /\ Return(p)
        BY <3>1, TaskFacts, ReturnedRecord DEF Return, OthersStay
      <3>2. CASE proc[p].cont = "waiter" /\ ~Return(p)
        <4>1. /\ proc'[p].pc = "committed" /\ proc'[p].cont = "none"
              /\ proc'[p].type = proc[p].type /\ proc'[p].tx = proc[p].tx
              /\ proc'[p].doom = proc[p].doom
              /\ proc'[p].then = proc[p].then /\ OthersStay(p)
          BY <3>2, TaskFacts DEF Waited, OthersStay, ProcState
        <4>2. QED
          BY <2>1, <4>1, OutRecord DEF OutPoints, JoinPoints
      <3>3. CASE proc[p].cont # "waiter"
        <4>1. PICK ok \in BOOLEAN : WaitOver(p, ok)
          BY <1>4, <3>3 DEF Waited
        <4>2. QED BY <4>1, WaitOverRecord
      <3>4. QED BY <3>1, <3>2, <3>3
    <2>3. QED BY <1>1, <1>2, <2>1, <2>2, SameRoleStep
  <1>5. QED BY <1>3, <1>4

(* A task with a handle finds its transaction on trans_list. *)
LEMMA HandleIsListed ==
  ASSUME CoreInv, NEW p \in Procs, Role(proc[p]) = "handle"
  PROVE  /\ Target(proc[p]) = running /\ running # 0 /\ running \in listed
         /\ running \in TransIds
  <1>1. Target(proc[p]) = running
    BY DEF CoreInv, RoleInv, HandlesAreRunning, RoleOf, TargetOf
  <1>2. running # 0
    BY <1>1, TaskFacts, TargetOfRole DEF Holders
  <1>3. ASSUME NEW q \in Procs, RoleOf(q) = "walk", TargetOf(q) = running
        PROVE  FALSE
    <2>1. RoleOf(p) = "handle" /\ TargetOf(p) = running
      BY <1>1 DEF RoleOf, TargetOf
    <2>2. p # q
      BY <1>3, <2>1
    <2>3. QED
      BY <1>3, <2>1, <2>2, SealedAgainst, RoleSets DEF CoreInv
  <1>4. running \in listed
    BY <1>2, <1>3 DEF CoreInv, RoleInv, RunningIsListed
  <1>5. QED BY <1>1, <1>2, <1>4 DEF CoreInv, TypeOK

LEMMA CommitPrepKind ==
  ASSUME CoreInv, NEW p \in Procs, CommitPrep(p)
  PROVE  Regular(p)
  <1> DEFINE i == proc[p].tx
  <1>1. /\ proc[p].pc = "prep" /\ UNCHANGED <<list, fsError>>
        /\ OthersStay(p)
    BY TaskFacts DEF CommitPrep, At, Fail, Goto, OthersStay
  <1>2. /\ Role(proc[p]) = "handle" /\ Target(proc[p]) = i /\ i # 0
        /\ proc[p].doom = 0
        /\ proc[p].then = "again" => proc[p].type = "START"
        /\ proc[p].ext <=> proc[p].type \in EXTWRITERS
    BY <1>1, TaskFacts, HandleShape DEF HandlePoints
  <1>3. /\ i = running /\ i \in listed /\ i \in TransIds
        /\ tx \in [TransIds -> TxState]
    BY <1>2, HandleIsListed DEF CoreInv, TypeOK
  <1>4. CASE CommitHasStarted(i)
    <2>1. /\ tx' = Pin(i)
          /\ proc' = [proc EXCEPT ![p].pc = "endw", ![p].cont = "waiter",
                                  ![p].ref = i]
      BY <1>4 DEF CommitPrep
    <2>2. /\ proc'[p].pc = "endw" /\ proc'[p].cont = "waiter"
          /\ proc'[p].tx = i /\ proc'[p].doom = proc[p].doom
          /\ proc'[p].type = proc[p].type /\ proc'[p].ext = proc[p].ext
          /\ proc'[p].then = proc[p].then
      BY <2>1, TaskFacts DEF ProcState
    <2>3. SameBooks
      BY <2>1, Books DEF CoreInv
    <2>4. QED
      BY <1>1, <1>2, <2>2, <2>3, HandleStep DEF HandlePoints
  <1>5. CASE ~CommitHasStarted(i)
    <2>1. /\ \/ /\ proc'[p].pc = "wait" /\ proc'[p].cont = "prev"
                /\ \E k \in listed : /\ k < i
                      /\ tx' = [Pin(k) EXCEPT ![i].state = COMMIT_PREP]
             \/ /\ proc'[p].pc = "abort" /\ proc'[p].cont = "clean"
                /\ tx' = [tx EXCEPT ![i].state = COMMIT_PREP]
             \/ /\ proc'[p].pc = "dropext" /\ proc'[p].cont = proc[p].cont
                /\ tx' = [tx EXCEPT ![i].state = COMMIT_START]
          /\ proc'[p].tx = i /\ proc'[p].doom = proc[p].doom
          /\ proc'[p].type = proc[p].type /\ proc'[p].ext = proc[p].ext
          /\ proc'[p].then = proc[p].then
      <3>1. ASSUME NEW k \in listed, k < i,
                   tx' = [Pin(k) EXCEPT ![i].state = COMMIT_PREP],
                   proc' = [proc EXCEPT ![p].pc = "wait", ![p].cont = "prev",
                                        ![p].ref = k]
            PROVE  /\ proc'[p].pc = "wait" /\ proc'[p].cont = "prev"
                   /\ proc'[p].tx = i /\ proc'[p].doom = proc[p].doom
                   /\ proc'[p].type = proc[p].type
                   /\ proc'[p].ext = proc[p].ext
                   /\ proc'[p].then = proc[p].then
        BY <3>1, TaskFacts DEF ProcState
      <3>2. \/ \E k \in listed :
                  /\ k < i /\ tx' = [Pin(k) EXCEPT ![i].state = COMMIT_PREP]
                  /\ proc' = [proc EXCEPT ![p].pc = "wait",
                                          ![p].cont = "prev", ![p].ref = k]
            \/ Fail(p) /\ tx' = [tx EXCEPT ![i].state = COMMIT_PREP]
            \/ /\ Goto(p, "dropext")
               /\ tx' = [tx EXCEPT ![i].state = COMMIT_START]
        BY <1>5 DEF CommitPrep
      <3>3. CASE \E k \in listed :
                  /\ k < i /\ tx' = [Pin(k) EXCEPT ![i].state = COMMIT_PREP]
                  /\ proc' = [proc EXCEPT ![p].pc = "wait",
                                          ![p].cont = "prev", ![p].ref = k]
        BY <3>1, <3>3
      <3>4. CASE Fail(p) /\ tx' = [tx EXCEPT ![i].state = COMMIT_PREP]
        BY <3>4, TaskFacts DEF Fail, ProcState
      <3>5. CASE /\ Goto(p, "dropext")
                 /\ tx' = [tx EXCEPT ![i].state = COMMIT_START]
        BY <3>5, TaskFacts DEF Goto, ProcState
      <3>6. QED BY <3>2, <3>3, <3>4, <3>5
    <2>2. /\ Role(proc'[p]) \in {"prep", "fail", "start"}
          /\ Role(proc'[p]) = "start" <=> proc'[p].pc = "dropext"
      BY <2>1, RolePoints DEF WaitPoints, ErrorPoints
    <2>3. /\ tx'[i].state = IF proc'[p].pc = "dropext" THEN COMMIT_START
                            ELSE COMMIT_PREP
          /\ SameStatesBut(i)
          /\ \A j \in TransIds : /\ tx'[j].writers = tx[j].writers
                                 /\ tx'[j].ext = tx[j].ext
      <3>1. CASE proc'[p].pc = "wait"
        <4>1. PICK k \in listed :
                 k < i /\ tx' = [Pin(k) EXCEPT ![i].state = COMMIT_PREP]
          BY <2>1, <3>1
        <4>2. QED
          BY <1>3, <3>1, <4>1 DEF Pin, TxState, SameStatesBut
      <3>2. CASE proc'[p].pc # "wait"
        BY <1>3, <2>1, <3>2, StateSet
      <3>3. QED BY <3>1, <3>2
    <2>4. /\ Shape(proc'[p]) /\ Target(proc'[p]) = i
          /\ AfterError(proc'[p]) => fsError'
      <3>1. proc'[p].ext <=> proc'[p].type \in EXTWRITERS
        BY <1>2, <2>1
      <3>2. /\ Shape(proc'[p]) /\ Target(proc'[p]) = i
            /\ AfterError(proc'[p]) => proc'[p].cont = "scan"
        BY <1>2, <2>1, <3>1, CommitRecord
           DEF WaitPoints, ErrorPoints, CommitPoints
      <3>3. proc[p].cont = "scan" => fsError
        BY TaskFacts DEF AfterError
      <3>4. QED BY <1>1, <2>1, <3>2, <3>3
    <2>5. tx[i].state < COMMIT_PREP
      BY <1>3, <1>5, StateValues DEF CommitHasStarted, TxState
    <2>6. /\ OwnedState(Role(proc'[p]), tx'[i].state)
          /\ OwnedPlace(Role(proc'[p]), tx'[i].state, i, running, listed)
      BY <1>3, <2>2, <2>3, StateValues DEF OwnedState, OwnedPlace
    <2>7. Takes(p)
      BY <1>1, <1>2, <1>3, <2>1, <2>2, <2>3, <2>4, <2>5, <2>6
         DEF Takes, RoleOf, TargetOf, NewRole, NewTarget, Owners, Committers,
             Sealers
    <2>8. QED BY <1>1, <2>4, <2>7 DEF Regular, Kind
  <1>6. QED BY <1>4, <1>5

-----------------------------------------------------------------------------
(***************************************************************************)
(* The invariant                                                           *)
(***************************************************************************)
LEMMA StepIsRegular ==
  ASSUME CoreInv, NEW p \in Procs, Step(p)
  PROVE  Regular(p)
  <1>1. CASE Requests(p)
    <2>1. ASSUME NEW op \in Ops \ {"WAIT"}, StartRequest(p, op)
          PROVE  Regular(p)
      BY <2>1, StartRequestKind
    <2>2. ASSUME NEW i \in 0..generation, WaitRequest(p, i)
          PROVE  Regular(p)
      BY <2>2, WaitRequestKind
    <2>3. QED
      BY <1>1, <2>1, <2>2, HeldKind, ChargeOrderedKind DEF Requests
  <1>2. CASE Release(p)
    BY <1>2, HeldKind DEF Release
  <1>3. CASE LogLocks(p)
    BY <1>3, SyncLogKind, CommitUnblockKind DEF LogLocks
  <1>4. CASE Proceed(p)
    BY <1>4, StartEntryKind, WaitCurrentTransKind, CurrentTransUnblockedKind,
       JoinTransactionKind, NewTransactionKind, JoinedKind, NothingToJoinKind,
       AsyncCommitStartedKind, AbortTransactionKind, HandleFsErrorKind,
       SyncLogKind, EndTransactionKind, EndPutKind, FindCommitKind,
       CommitReachedKind, WaitForEarlierKind, WaitedKind, AcknowledgeKind,
       CommitEntryKind, CommitPrepKind, PrevCommittedKind, DropExtwriterKind,
       NoExtwritersKind, NoPendingOrderedKind, NoOtherWritersKind,
       CommitDoingKind, WriteBlocksKind, WriteSuperKind, CommitFinishKind,
       CommitUnlistKind, CommitPutKind, CleanupLockKind, CleanupWaitKind,
       CleanupUnlistKind, CleanupOneKind, CleanupDoneKind, KthreadAttachKind,
       HeldKind, KthreadErrorKind, KthreadScanKind, KthreadDrainKind
       DEF Proceed
  <1>5. QED BY <1>1, <1>2, <1>3, <1>4 DEF Step

LEMMA RegularStep ==
  ASSUME CoreInv, TypeOK', NEW p \in Procs, Regular(p)
  PROVE  CoreInv'
  <1>1. OthersStay(p) /\ Kind(p) /\ Shape(proc'[p])
    BY DEF Regular
  <1>2. Shapes'
    BY <1>1 DEF CoreInv, Shapes, OthersStay
  <1>3. RoleInv'
    BY <1>1, <1>2, KindRoleInv DEF CoreInv
  <1>4. TeardownAfterError'
    BY <1>1 DEF Regular, CoreInv, TeardownAfterError, OthersStay
  <1>5. WritersAreHandles'
    BY <1>1, <1>2, KindCounts DEF CoreInv
  <1>6. QED BY <1>2, <1>3, <1>4, <1>5 DEF CoreInv

(* A step without a task: the roles and the books of all transactions are  *)
(* as before.                                                              *)
LEMMA QuietStep ==
  ASSUME CoreInv, UNCHANGED <<proc, list, fsError>>, SameBooks
  PROVE  /\ Shapes' /\ RoleInv' /\ TeardownAfterError' /\ WritersAreHandles'
  <1>1. Shapes' /\ TeardownAfterError'
    BY DEF CoreInv, Shapes, TeardownAfterError
  <1>2. /\ running' = running /\ generation' = generation /\ listed' = listed
        /\ \A q \in Procs : RoleOf(q)' = RoleOf(q) /\ TargetOf(q)' = TargetOf(q)
    BY DEF list, RoleOf, TargetOf
  <1>3. \A i \in TransIds : tx'[i].state = tx[i].state
    BY DEF SameBooks
  <1>4. RoleInv'
    <2>1. Bounded' /\ HandlesAreRunning' /\ OneOwner' /\ RunningIsListed'
          /\ Sealed'
      BY <1>2
         DEF CoreInv, RoleInv, Bounded, HandlesAreRunning, OneOwner,
             RunningIsListed, Sealed, OthersReleased
    <2>2. EarlierUnblocked'
      BY <1>2, <1>3 DEF CoreInv, RoleInv, EarlierUnblocked, TypeOK
    <2>3. Owned'
      <3>1. ASSUME NEW q \in Procs, RoleOf(q) \in Owners
            PROVE  TargetOf(q) \in TransIds
        BY <3>1, TargetType, RoleSets DEF CoreInv
      <3>2. QED
        BY <1>2, <1>3, <3>1 DEF CoreInv, RoleInv, Owned, OwnedState, OwnedPlace
    <2>4. QED BY <2>1, <2>2, <2>3 DEF RoleInv
  <1>5. WritersAreHandles'
    <2>1. \A i \in listed : /\ i \in TransIds /\ tx'[i].writers = tx[i].writers
                            /\ tx'[i].ext = tx[i].ext
      BY DEF CoreInv, TypeOK, SameBooks
    <2>2. \A i : Writers(i)' = Writers(i)
      BY DEF Writers, At
    <2>3. QED
      BY <1>2, <2>1, <2>2 DEF CoreInv, WritersAreHandles
  <1>6. QED BY <1>1, <1>4, <1>5

LEMMA CoreStep ==
  ASSUME CoreInv, [Next]_vars
  PROVE  CoreInv'
  <1>1. TypeOK'
    BY TypeStep DEF CoreInv
  <1>2. ASSUME NEW p \in Procs, Step(p)
        PROVE  CoreInv'
    BY <1>1, <1>2, StepIsRegular, RegularStep
  <1>3. CASE OrderedComplete
    <2>1. SameBooks
      <3>1. CASE running = 0
        BY <1>3, <3>1, Books DEF OrderedComplete, CoreInv
      <3>2. CASE running # 0
        BY <1>3, <3>2, Books DEF OrderedComplete, CoreInv
      <3>3. QED BY <3>1, <3>2
    <2>2. QED
      BY <1>1, <1>3, <2>1, QuietStep DEF OrderedComplete, CoreInv
  <1>4. CASE UNCHANGED vars
    <2>1. SameBooks
      BY <1>4, Books DEF vars, shared, CoreInv
    <2>2. QED
      BY <1>1, <1>4, <2>1, QuietStep DEF vars, shared, CoreInv
  <1>5. QED BY <1>2, <1>3, <1>4 DEF Next

LEMMA CoreInit ==
  ASSUME Init
  PROVE  CoreInv
  <1>1. TypeOK
    BY InitType
  <1>2. \A p \in Procs : proc[p] = IdleProc
    BY DEF Init
  <1>3. \A p \in Procs : /\ Shape(proc[p]) /\ Role(proc[p]) = "out"
                         /\ Target(proc[p]) = 0 /\ ~AfterError(proc[p])
    BY <1>2, OutRecord DEF IdleProc, Fresh, OutPoints, JoinPoints
  <1>4. RoleInv
    BY <1>3, RoleSets, ConstantsAssumption
       DEF Init, RoleInv, Bounded, HandlesAreRunning, OneOwner, Owned, Sealed,
           EarlierUnblocked, RunningIsListed, RoleOf, TargetOf
  <1>5. Shapes /\ TeardownAfterError /\ WritersAreHandles
    BY <1>3 DEF Init, Shapes, TeardownAfterError, WritersAreHandles
  <1>6. QED BY <1>1, <1>4, <1>5 DEF CoreInv

(* What a task's part in the life of a transaction says of it: a handle is *)
(* on the running transaction and counted in num_writers; a transaction    *)
(* has one owner, who holds it sealed and on trans_list; every earlier one *)
(* is unblocked; and only a task that saw an error tears one down.         *)
(* Handles are those of the types in btrfs_blocked_trans_types that the    *)
(* model has, all but TRANS_JOIN_NOLOCK, which is admitted to a sealed      *)
(* transaction and is left out.                                            *)
THEOREM CoreInvariant == Spec => []CoreInv
  <1>1. Init => CoreInv
    BY CoreInit
  <1>2. CoreInv /\ [Next]_vars => CoreInv'
    BY CoreStep
  <1>3. QED BY <1>1, <1>2, PTL DEF Spec

(* num_writers and num_extwriters are the open handles and the open handles *)
(* of type TRANS_START or TRANS_ATTACH, for as long as the transaction is  *)
(* on trans_list: join_transaction, __btrfs_end_transaction, the commit's  *)
(* extwriter_counter_dec and the teardowns keep the books together.        *)
THEOREM WritersCorrect == Spec => []WritersAreHandles
  <1>1. CoreInv => WritersAreHandles
    BY DEF CoreInv
  <1>2. QED BY <1>1, CoreInvariant, PTL

LEMMA OwnerIsAlone ==
  ASSUME CoreInv
  PROVE  CommitIsAlone
  <1>1. ASSUME NEW p \in Procs, proc[p].pc \in {"doing", "unblock"},
               NEW q \in Procs \ {p}
        PROVE  /\ running = proc[p].tx
               /\ proc[q].tx = 0 \/ At(q, "endput") \/ proc[q].tx # running
    <2>1. RoleOf(p) = "alone" /\ TargetOf(p) = proc[p].tx
      BY <1>1, RolePoints, TaskFacts, CommitShape
         DEF RoleOf, TargetOf, CommitPoints
    <2>2. running = proc[p].tx
      BY <1>1, <2>1, CommitterFacts DEF CommitPoints, OwnedPlace, RoleOf
    <2>3. ASSUME proc[q].tx # 0, proc[q].tx = running
          PROVE  At(q, "endput")
      <3>1. TargetOf(q) = proc[q].tx
        BY <2>3, TaskFacts, TargetOfRole DEF TargetOf
      <3>2. RoleOf(q) = "put"
        BY <2>1, <2>2, <2>3, <3>1, SealedAgainst DEF CoreInv, Sealers
      <3>3. QED BY <3>2, RolePoints DEF RoleOf, At
    <2>4. QED BY <2>2, <2>3
  <1>2. ASSUME NEW p \in Procs, proc[p].pc \in {"doing", "unblock"}
        PROVE  running = proc[p].tx
    BY <1>2, RolePoints, CommitterFacts DEF CommitPoints, OwnedPlace
  <1>3. QED BY <1>1, <1>2 DEF CommitIsAlone

(* While a commit switches the roots, nobody else has a handle of type     *)
(* TRANS_START, ATTACH, JOIN or JOIN_NOSTART on the transaction and it is   *)
(* still the running one, so nobody can start another                      *)
(* (btrfs_commit_transaction between the wait on writer_wait and           *)
(* TRANS_STATE_UNBLOCKED).  Nothing is said of the TRANS_JOIN_NOLOCK        *)
(* handles of free space endio workers, which the code admits there.       *)
THEOREM CommitAlone == Spec => []CommitIsAlone
  <1>1. CoreInv => CommitIsAlone
    BY OwnerIsAlone
  <1>2. QED BY <1>1, CoreInvariant, PTL

LEMMA OwnerKeepsList ==
  ASSUME CoreInv
  PROVE  CommitterKeepsList
  <1> DEFINE Points1 == {"prevdone", "dropext", "extwait", "ordwait", "wrwait",
                         "doing", "unblock", "write", "super", "finish",
                         "unlist", "cleanlock", "cleanwait", "cleandel"}
  <1>1. ASSUME NEW p \in Procs, proc[p].pc \in Points1
        PROVE  /\ proc[p].tx \in listed
               /\ \A q \in Procs : proc[q].doom # proc[p].tx
    <2>1. /\ Role(proc[p]) \in Committers \ {"walk", "gone"}
          /\ Target(proc[p]) = proc[p].tx /\ proc[p].tx # 0
          /\ proc[p].doom = 0
      BY <1>1, RolePoints, TaskFacts, CommitShape DEF CommitPoints
    <2>2. proc[p].tx \in listed
      <3>1. OwnedPlace(Role(proc[p]), tx[proc[p].tx].state, proc[p].tx,
                       running, listed)
        BY <1>1, CommitterFacts DEF CommitPoints
      <3>2. QED BY <2>1, <3>1 DEF OwnedPlace
    <2>3. ASSUME NEW q \in Procs, proc[q].doom = proc[p].tx
          PROVE  FALSE
      <3>1. proc[q].pc \in WalkPoints \cup {"drain"}
        BY <2>1, <2>3, TaskFacts DEF Shape
      <3>2. /\ TargetOf(q) = TargetOf(p)
            /\ RoleOf(q) \in Owners /\ RoleOf(p) \in Owners
        BY <2>1, <2>3, <3>1, WalkerFacts, RoleSets
           DEF TargetOf, RoleOf, Owners, Committers, Reapers
      <3>3. p = q
        BY <3>2 DEF CoreInv, RoleInv, OneOwner
      <3>4. QED BY <2>1, <2>3, <3>3
    <2>4. QED BY <2>2, <2>3
  <1>2. QED BY <1>1 DEF CommitterKeepsList

(* From the end of its wait for the previous transaction to list_del_init, *)
(* a committer's transaction stays on trans_list and the kthread's cleanup *)
(* does not tear it down: BUG_ON(list_empty(&cur_trans->list)) holds.      *)
THEOREM KeepsList == Spec => []CommitterKeepsList
  <1>1. CoreInv => CommitterKeepsList
    BY OwnerKeepsList
  <1>2. QED BY <1>1, CoreInvariant, PTL
=============================================================================
