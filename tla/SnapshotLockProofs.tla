------------------------- MODULE SnapshotLockProofs -------------------------
(***************************************************************************)
(* The DREW lock, for any finite sets of readers and writers, and what a   *)
(* snapshot promises about data under such a lock, for any number of       *)
(* snapshotters, writers and files.                                        *)
(*                                                                         *)
(* The lock is a GroupLock: its counters are shown to be the sizes of the  *)
(* two sets of announced tasks; a task enters only when the other counter  *)
(* is zero, that is, when nobody of the other side is announced, let alone *)
(* inside.  Snapshot takes its lock to be a GroupLock.                     *)
(***************************************************************************)
EXTENDS DrewLock, Snapshot, FiniteSetTheorems, TLAPS

-----------------------------------------------------------------------------
(***************************************************************************)
(* The lock                                                                *)
(***************************************************************************)
ReadCounted  == {"wait", "queue", "retest", "asleep", "held"}
WriteCounted == {"recheck", "yield", "held"}
WriterSteps  == {"try", "count", "recheck", "yield", "failed"}

(* Only writers are in the writers' code. *)
WritersWrite == \A p \in Users : at[p] \in WriterSteps => p \in Writers

CountersCount ==
    /\ readers = Cardinality(CountedReaders)
    /\ writers = Cardinality(CountedWriters)

(* A reader between its wait and its unlock found no announced writer, and *)
(* the other way round.                                                    *)
Exclusion == HoldingReaders = {} \/ HoldingWriters = {}

LockInv == LockTypeOK /\ WritersWrite /\ CountersCount /\ Exclusion

-----------------------------------------------------------------------------
LEMMA CountersFinite ==
    /\ IsFiniteSet(CountedReaders) /\ IsFiniteSet(CountedWriters)
    /\ Cardinality(CountedReaders) \in Nat
    /\ Cardinality(CountedWriters) \in Nat
  BY SidesAssumption, FS_Subset, FS_CardinalityType, Zenon
     DEF CountedReaders, CountedWriters

(* A counter at zero means that nobody is in it. *)
LEMMA Zero ==
  ASSUME CountersCount
  PROVE  /\ readers = 0 => CountedReaders = {}
         /\ writers = 0 => CountedWriters = {}
  BY CountersFinite, FS_EmptySet, Zenon DEF CountersCount

LEMMA Labels ==
  /\ "out" \in Steps /\ "wait" \in Steps /\ "queue" \in Steps
  /\ "retest" \in Steps /\ "asleep" \in Steps /\ "held" \in Steps
  /\ "wake" \in Steps /\ "try" \in Steps /\ "count" \in Steps
  /\ "recheck" \in Steps /\ "yield" \in Steps /\ "failed" \in Steps
  BY DEF Steps

LEMMA Moved ==
  ASSUME LockTypeOK, NEW p \in Users, NEW s \in Steps, MoveTo(p, s)
  PROVE  /\ at' \in [Users -> Steps]
         /\ at'[p] = s
         /\ \A q \in Users : q # p => at'[q] = at[q]
  BY DEF LockTypeOK, MoveTo

-----------------------------------------------------------------------------
(* How a step of p changes the set of announced readers, and its size. *)
LEMMA ReadersSame ==
  ASSUME LockTypeOK, NEW p \in Users, NEW s \in Steps, MoveTo(p, s),
         \/ p \notin Readers
         \/ at[p] \in ReadCounted <=> s \in ReadCounted
  PROVE  CountedReaders' = CountedReaders
<1>1. \A q \in Readers :
          at'[q] \in ReadCounted <=> at[q] \in ReadCounted
  BY Moved DEF Users
<1>2. QED
  BY <1>1 DEF CountedReaders, ReadCounted

LEMMA ReadersPlus ==
  ASSUME LockTypeOK, NEW p \in Readers, NEW s \in ReadCounted, MoveTo(p, s),
         at[p] \notin ReadCounted
  PROVE  Cardinality(CountedReaders') = Cardinality(CountedReaders) + 1
<1>1. s \in Steps /\ p \in Users
  BY DEF ReadCounted, Steps, Users
<1>2. /\ at'[p] = s
      /\ \A q \in Readers : q # p => at'[q] = at[q]
  BY <1>1, Moved DEF Users
<1>3. CountedReaders' = CountedReaders \cup {p}
  BY <1>2 DEF CountedReaders, ReadCounted
<1>4. p \notin CountedReaders
  BY DEF CountedReaders, ReadCounted
<1>5. QED
  BY <1>3, <1>4, CountersFinite, FS_AddElement

LEMMA ReadersMinus ==
  ASSUME LockTypeOK, NEW p \in Readers, NEW s \in Steps, MoveTo(p, s),
         at[p] \in ReadCounted, s \notin ReadCounted
  PROVE  Cardinality(CountedReaders') = Cardinality(CountedReaders) - 1
<1>1. /\ at'[p] = s
      /\ \A q \in Readers : q # p => at'[q] = at[q]
  BY Moved DEF Users
<1>2. CountedReaders' = CountedReaders \ {p}
  BY <1>1 DEF CountedReaders, ReadCounted
<1>3. p \in CountedReaders
  BY DEF CountedReaders, ReadCounted
<1>4. QED
  BY <1>2, <1>3, CountersFinite, FS_RemoveElement

(* The same for the writers. *)
LEMMA WritersSame ==
  ASSUME LockTypeOK, NEW p \in Users, NEW s \in Steps, MoveTo(p, s),
         \/ p \notin Writers
         \/ at[p] \in WriteCounted <=> s \in WriteCounted
  PROVE  CountedWriters' = CountedWriters
<1>1. \A q \in Writers :
          at'[q] \in WriteCounted <=> at[q] \in WriteCounted
  BY Moved DEF Users
<1>2. QED
  BY <1>1 DEF CountedWriters, WriteCounted

LEMMA WritersPlus ==
  ASSUME LockTypeOK, NEW p \in Writers, NEW s \in WriteCounted, MoveTo(p, s),
         at[p] \notin WriteCounted
  PROVE  Cardinality(CountedWriters') = Cardinality(CountedWriters) + 1
<1>1. s \in Steps /\ p \in Users
  BY DEF WriteCounted, Steps, Users
<1>2. /\ at'[p] = s
      /\ \A q \in Writers : q # p => at'[q] = at[q]
  BY <1>1, Moved DEF Users
<1>3. CountedWriters' = CountedWriters \cup {p}
  BY <1>2 DEF CountedWriters, WriteCounted
<1>4. p \notin CountedWriters
  BY DEF CountedWriters, WriteCounted
<1>5. QED
  BY <1>3, <1>4, CountersFinite, FS_AddElement

LEMMA WritersMinus ==
  ASSUME LockTypeOK, NEW p \in Writers, NEW s \in Steps, MoveTo(p, s),
         at[p] \in WriteCounted, s \notin WriteCounted
  PROVE  Cardinality(CountedWriters') = Cardinality(CountedWriters) - 1
<1>1. /\ at'[p] = s
      /\ \A q \in Writers : q # p => at'[q] = at[q]
  BY Moved DEF Users
<1>2. CountedWriters' = CountedWriters \ {p}
  BY <1>1 DEF CountedWriters, WriteCounted
<1>3. p \in CountedWriters
  BY DEF CountedWriters, WriteCounted
<1>4. QED
  BY <1>2, <1>3, CountersFinite, FS_RemoveElement

-----------------------------------------------------------------------------
(* The holders of a side are announced. *)
LEMMA HoldersAreCounted ==
    /\ HoldingReaders \subseteq CountedReaders
    /\ HoldingWriters \subseteq CountedWriters
  BY DEF HoldingReaders, HoldingWriters, CountedReaders, CountedWriters

(* A step that does not end in "held" adds no holder; one that does adds   *)
(* only its task.                                                          *)
LEMMA HoldersApart ==
  ASSUME LockTypeOK, NEW p \in Users, NEW s \in Steps, MoveTo(p, s)
  PROVE  /\ HoldingReaders' =
              IF p \in Readers /\ s = "held" THEN HoldingReaders \cup {p}
                                             ELSE HoldingReaders \ {p}
         /\ HoldingWriters' =
              IF p \in Writers /\ s = "held" THEN HoldingWriters \cup {p}
                                             ELSE HoldingWriters \ {p}
<1>1. /\ at'[p] = s
      /\ \A q \in Users : q # p => at'[q] = at[q]
  BY Moved
<1>2. QED
  BY <1>1 DEF HoldingReaders, HoldingWriters, Users

(* A step that leaves the counters alone and enters the lock only when     *)
(* nobody of the other side is announced.                                  *)
LEMMA LockQuietStep ==
  ASSUME LockInv, NEW p \in Users, NEW s \in Steps, MoveTo(p, s),
         sleeping' \subseteq Users,
         readers' = readers, writers' = writers,
         s \in WriterSteps => p \in Writers,
         p \in Readers => (at[p] \in ReadCounted <=> s \in ReadCounted),
         p \in Writers => (at[p] \in WriteCounted <=> s \in WriteCounted),
         s = "held" /\ p \in Readers => writers = 0,
         s = "held" /\ p \in Writers => readers = 0
  PROVE  LockInv'
<1>1. LockTypeOK'
  BY Moved DEF LockInv, LockTypeOK
<1>2. WritersWrite'
  BY Moved DEF LockInv, WritersWrite
<1>3. CountersCount'
  BY ReadersSame, WritersSame DEF LockInv, CountersCount
<1>4. Exclusion'
  <2>1. CASE s = "held" /\ p \in Readers
    BY <2>1, Zero, HoldersAreCounted, HoldersApart, SidesAssumption
       DEF LockInv, Exclusion
  <2>2. CASE s = "held" /\ p \in Writers
    BY <2>2, Zero, HoldersAreCounted, HoldersApart, SidesAssumption
       DEF LockInv, Exclusion
  <2>3. CASE s # "held"
    BY <2>3, HoldersApart DEF LockInv, Exclusion
  <2>4. QED
    BY <2>1, <2>2, <2>3 DEF Users
<1>5. QED
  BY <1>1, <1>2, <1>3, <1>4 DEF LockInv

-----------------------------------------------------------------------------
LEMMA LockInitInv == LockInit => LockInv
<1> SUFFICES ASSUME LockInit PROVE LockInv
  OBVIOUS
<1>1. LockTypeOK /\ WritersWrite
  BY Labels DEF LockInit, LockTypeOK, WritersWrite, WriterSteps
<1>2. /\ CountedReaders = {} /\ CountedWriters = {}
      /\ HoldingReaders = {}
  BY DEF LockInit, CountedReaders, CountedWriters, HoldingReaders, Users
<1>3. CountersCount
  BY <1>2, FS_EmptySet DEF LockInit, CountersCount
<1>4. QED
  BY <1>1, <1>2, <1>3 DEF LockInv, Exclusion

(* The steps that leave the counters alone. *)
LEMMA LockWaitInv ==
  ASSUME LockInv, NEW p \in Users,
         WaitTest(p) \/ Queue(p) \/ WaitRetest(p) \/ Awake(p)
  PROVE  LockInv'
<1> USE Labels
<1>0. sleeping \subseteq Users
  BY DEF LockInv, LockTypeOK
<1>1. CASE WaitTest(p)
  <2>1. CASE ~Ready(p)
    BY <1>0, <1>1, <2>1, LockQuietStep
       DEF WaitTest, IsAt, ReadCounted, WriteCounted, WriterSteps
  <2>2. CASE Ready(p) /\ p \in Readers
    BY <1>0, <1>1, <2>2, LockQuietStep, SidesAssumption DEF WaitTest, IsAt,
       ReadCounted, WriteCounted, WriterSteps, AfterWait, Ready
  <2>3. CASE Ready(p) /\ p \notin Readers
    BY <1>0, <1>1, <2>3, LockQuietStep DEF WaitTest, IsAt,
       ReadCounted, WriteCounted, WriterSteps, AfterWait, Ready, Users
  <2>4. QED
    BY <2>1, <2>2, <2>3
<1>2. CASE Queue(p)
  BY <1>0, <1>2, LockQuietStep
     DEF Queue, IsAt, ReadCounted, WriteCounted, WriterSteps
<1>3. CASE WaitRetest(p)
  <2>1. CASE ~Ready(p)
    BY <1>0, <1>3, <2>1, LockQuietStep
       DEF WaitRetest, IsAt, ReadCounted, WriteCounted, WriterSteps
  <2>2. CASE Ready(p) /\ p \in Readers
    BY <1>0, <1>3, <2>2, LockQuietStep, SidesAssumption DEF WaitRetest, IsAt,
       ReadCounted, WriteCounted, WriterSteps, AfterWait, Ready
  <2>3. CASE Ready(p) /\ p \notin Readers
    BY <1>0, <1>3, <2>3, LockQuietStep DEF WaitRetest, IsAt,
       ReadCounted, WriteCounted, WriterSteps, AfterWait, Ready, Users
  <2>4. QED
    BY <2>1, <2>2, <2>3
<1>4. CASE Awake(p)
  BY <1>0, <1>4, LockQuietStep
     DEF Awake, IsAt, ReadCounted, WriteCounted, WriterSteps
<1>5. QED
  BY <1>1, <1>2, <1>3, <1>4

LEMMA WriterQuietInv ==
  ASSUME LockInv, NEW p \in Users,
         \/ WriteLock(p) \/ WriteTry(p) \/ WriteRecheck(p)
         \/ ReadWake(p) \/ WriteWake(p) \/ WriteFailed(p)
  PROVE  LockInv'
<1> USE Labels
<1>0. /\ sleeping \subseteq Users
      /\ at[p] \in WriterSteps => p \in Writers
  BY DEF LockInv, LockTypeOK, WritersWrite
<1>1. TryFailed(p) \in {"wait", "out"}
  BY DEF TryFailed
<1>2. CASE WriteLock(p)
  BY <1>0, <1>2, LockQuietStep, SidesAssumption
     DEF WriteLock, IsAt, ReadCounted, WriteCounted, WriterSteps
<1>3. CASE WriteTry(p)
  <2>1. CASE readers # 0
    BY <1>0, <1>1, <1>3, <2>1, LockQuietStep, SidesAssumption
       DEF WriteTry, IsAt, ReadCounted, WriteCounted, WriterSteps
  <2>2. CASE readers = 0
    BY <1>0, <1>3, <2>2, LockQuietStep, SidesAssumption
       DEF WriteTry, IsAt, ReadCounted, WriteCounted, WriterSteps
  <2>3. QED
    BY <2>1, <2>2
<1>4. CASE WriteRecheck(p)
  <2>1. CASE ReaderCame
    BY <1>0, <1>4, <2>1, LockQuietStep, SidesAssumption
       DEF WriteRecheck, IsAt, ReadCounted, WriteCounted, WriterSteps
  <2>2. CASE ~ReaderCame
    BY <1>0, <1>4, <2>2, LockQuietStep, SidesAssumption DEF WriteRecheck,
       ReaderCame, IsAt, ReadCounted, WriteCounted, WriterSteps
  <2>3. QED
    BY <2>1, <2>2
<1>5. CASE ReadWake(p) \/ WriteWake(p)
  BY <1>0, <1>5, LockQuietStep DEF ReadWake, WriteWake, WakeSide, IsAt,
     ReadCounted, WriteCounted, WriterSteps
<1>6. CASE WriteFailed(p)
  BY <1>0, <1>1, <1>6, LockQuietStep, SidesAssumption DEF WriteFailed, Yielded,
     IsAt, ReadCounted, WriteCounted, WriterSteps
<1>7. QED
  BY <1>2, <1>3, <1>4, <1>5, <1>6

(* The steps that change a counter.  Those of the readers: *)
LEMMA ReaderCountInv ==
  ASSUME LockInv, NEW p \in Readers, ReadLock(p) \/ ReadUnlock(p)
  PROVE  LockInv'
<1> USE Labels
<1>0. /\ p \in Users /\ p \notin Writers
      /\ LockTypeOK /\ WritersWrite /\ CountersCount /\ Exclusion
  BY SidesAssumption DEF Users, LockInv
<1>1. PICK s \in {"wait", "wake", "out"} :
        /\ MoveTo(p, s)
        /\ readers' \in {readers + 1, readers - 1}
        /\ Cardinality(CountedReaders') = readers'
        /\ UNCHANGED <<writers, sleeping>>
  <2>1. CASE ReadLock(p)
    <3>1. at[p] \notin ReadCounted
      BY <2>1 DEF ReadLock, IsAt, ReadCounted
    <3>2. Cardinality(CountedReaders') = Cardinality(CountedReaders) + 1
      BY <1>0, <2>1, <3>1, ReadersPlus DEF ReadLock, ReadCounted
    <3>3. QED
      BY <1>0, <2>1, <3>2 DEF ReadLock, CountersCount
  <2>2. CASE ReadUnlock(p)
    <3>1. at[p] \in ReadCounted
      BY <2>2 DEF ReadUnlock, IsAt, ReadCounted
    <3>2. PICK s \in {"wake", "out"} : MoveTo(p, s)
      BY <2>2 DEF ReadUnlock
    <3>3. Cardinality(CountedReaders') = Cardinality(CountedReaders) - 1
      BY <1>0, <3>1, <3>2, ReadersMinus DEF ReadCounted
    <3>4. QED
      BY <1>0, <2>2, <3>2, <3>3 DEF ReadUnlock, CountersCount
  <2>3. QED
    BY <2>1, <2>2
<1>2. CountedWriters' = CountedWriters
  BY <1>0, <1>1, WritersSame
<1>3. CountersCount'
  BY <1>0, <1>1, <1>2 DEF CountersCount
<1>4. IsFiniteSet(CountedReaders')
  BY SidesAssumption, FS_Subset, Zenon DEF CountedReaders
<1>5. readers' \in Nat
  BY <1>3, <1>4, FS_CardinalityType DEF CountersCount
<1>6. LockTypeOK'
  BY <1>0, <1>1, <1>5, Moved DEF LockTypeOK
<1>7. WritersWrite'
  BY <1>0, <1>1, Moved DEF WritersWrite, WriterSteps
<1>8. Exclusion'
  BY <1>0, <1>1, HoldersApart DEF Exclusion
<1>9. QED
  BY <1>3, <1>6, <1>7, <1>8 DEF LockInv

(* Those of the writers: *)
LEMMA WriterCountInv ==
  ASSUME LockInv, NEW p \in Users,
         WriteCount(p) \/ WriteUnlock(p) \/ WriteYield(p)
  PROVE  LockInv'
<1> USE Labels
<1>0. /\ LockTypeOK /\ WritersWrite /\ CountersCount /\ Exclusion
      /\ p \in Writers /\ p \notin Readers
  BY SidesAssumption DEF LockInv, WritersWrite, WriterSteps, WriteCount,
     WriteUnlock, WriteYield, IsAt
<1>1. PICK s \in {"recheck", "wake", "failed"} :
        /\ MoveTo(p, s)
        /\ Cardinality(CountedWriters') = writers'
        /\ UNCHANGED <<readers, sleeping>>
  <2>1. CASE WriteCount(p)
    <3>1. at[p] \notin WriteCounted
      BY <2>1 DEF WriteCount, IsAt, WriteCounted
    <3>2. Cardinality(CountedWriters') = Cardinality(CountedWriters) + 1
      BY <1>0, <2>1, <3>1, WritersPlus DEF WriteCount, WriteCounted
    <3>3. QED
      BY <1>0, <2>1, <3>2 DEF WriteCount, CountersCount
  <2>2. CASE WriteUnlock(p) \/ WriteYield(p)
    <3>1. at[p] \in WriteCounted
      BY <2>2 DEF WriteUnlock, WriteYield, IsAt, WriteCounted
    <3>2. PICK s \in {"wake", "failed"} : MoveTo(p, s)
      BY <2>2 DEF WriteUnlock, WriteYield
    <3>3. Cardinality(CountedWriters') = Cardinality(CountedWriters) - 1
      BY <1>0, <3>1, <3>2, WritersMinus DEF WriteCounted
    <3>4. QED
      BY <1>0, <2>2, <3>2, <3>3 DEF WriteUnlock, WriteYield, CountersCount
  <2>3. QED
    BY <2>1, <2>2
<1>2. CountedReaders' = CountedReaders
  BY <1>0, <1>1, ReadersSame
<1>3. CountersCount'
  BY <1>0, <1>1, <1>2 DEF CountersCount
<1>4. IsFiniteSet(CountedWriters')
  BY SidesAssumption, FS_Subset, Zenon DEF CountedWriters
<1>5. writers' \in Nat
  BY <1>3, <1>4, FS_CardinalityType DEF CountersCount
<1>6. LockTypeOK'
  BY <1>0, <1>1, <1>5, Moved DEF LockTypeOK
<1>7. WritersWrite'
  BY <1>0, <1>1, Moved DEF WritersWrite, WriterSteps
<1>8. Exclusion'
  BY <1>0, <1>1, HoldersApart DEF Exclusion
<1>9. QED
  BY <1>3, <1>6, <1>7, <1>8 DEF LockInv

-----------------------------------------------------------------------------
LEMMA LockNextInv == LockInv /\ [LockNext]_lockVars => LockInv'
<1> SUFFICES ASSUME LockInv, [LockNext]_lockVars PROVE LockInv'
  OBVIOUS
<1>1. CASE UNCHANGED lockVars
  BY <1>1 DEF lockVars, LockInv, LockTypeOK, WritersWrite, CountersCount,
     Exclusion, CountedReaders, CountedWriters, HoldingReaders, HoldingWriters
<1>2. ASSUME NEW p \in Users, Lock(p) \/ Unlock(p) \/ Advance(p)
      PROVE  LockInv'
  BY <1>2, LockWaitInv, WriterQuietInv, ReaderCountInv, WriterCountInv
     DEF Lock, Unlock, Advance, ReadLock, ReadUnlock
<1>3. QED
  BY <1>1, <1>2 DEF LockNext

(* In every state of the lock the counters are the numbers of announced    *)
(* tasks, and readers and writers exclude each other.                      *)
THEOREM LockInvariant == LockSpec => []LockInv
<1>1. QED
  BY LockInitInv, LockNextInv, PTL DEF LockSpec

(* btrfs_drew_*lock keep types and label ranges: the counters never become *)
(* negative, in particular.                                                *)
THEOREM LockTypeCorrect == LockSpec => []LockTypeOK
<1>1. LockInv => LockTypeOK
  BY DEF LockInv
<1>2. QED
  BY <1>1, LockInvariant, PTL

(* Every step of the lock is a step of the abstract lock or a stutter.     *)
LEMMA StepRefines ==
  ASSUME LockInv, LockInv', [LockNext]_lockVars
  PROVE  [Group!Next]_<<HoldingReaders, HoldingWriters>>
<1>1. CASE UNCHANGED lockVars
  BY <1>1 DEF lockVars, HoldingReaders, HoldingWriters
<1>2. ASSUME NEW p \in Users, Lock(p) \/ Unlock(p) \/ Advance(p)
      PROVE  [Group!Next]_<<HoldingReaders, HoldingWriters>>
  <2>0. LockTypeOK /\ Exclusion'
    BY DEF LockInv
  <2>1. PICK s \in Steps : MoveTo(p, s)
    BY <1>2, Labels DEF Lock, Unlock, Advance, ReadLock, WriteLock, ReadUnlock,
       WriteUnlock, WaitTest, Queue, WaitRetest, Awake, ReadWake, WriteTry,
       WriteCount, WriteRecheck, WriteYield, WriteWake, WriteFailed, Yielded,
       WakeSide, AfterWait, TryFailed
  <2>2. CASE s = "held" /\ p \in Readers
    <3>1. /\ HoldingReaders' = HoldingReaders \cup {p}
          /\ HoldingWriters' = HoldingWriters
      BY <2>0, <2>1, <2>2, HoldersApart, SidesAssumption DEF HoldingWriters
    <3>2. HoldingWriters = {}
      BY <2>0, <3>1 DEF Exclusion
    <3>3. QED
      BY <2>2, <3>1, <3>2 DEF Group!Next, Group!EnterA
  <2>3. CASE s = "held" /\ p \in Writers
    <3>1. /\ HoldingWriters' = HoldingWriters \cup {p}
          /\ HoldingReaders' = HoldingReaders
      BY <2>0, <2>1, <2>3, HoldersApart, SidesAssumption DEF HoldingReaders
    <3>2. HoldingReaders = {}
      BY <2>0, <3>1 DEF Exclusion
    <3>3. QED
      BY <2>3, <3>1, <3>2 DEF Group!Next, Group!EnterB
  <2>4. CASE s # "held"
    <3>1. /\ HoldingReaders' = HoldingReaders \ {p}
          /\ HoldingWriters' = HoldingWriters \ {p}
      BY <2>0, <2>1, <2>4, HoldersApart
    <3>2. CASE p \in HoldingReaders
      BY <3>1, <3>2, SidesAssumption
         DEF Group!Next, Group!LeaveA, HoldingReaders, HoldingWriters
    <3>3. CASE p \in HoldingWriters
      BY <3>1, <3>3, SidesAssumption
         DEF Group!Next, Group!LeaveB, HoldingReaders, HoldingWriters
    <3>4. QED
      BY <3>1, <3>2, <3>3
  <2>5. QED
    BY <2>2, <2>3, <2>4 DEF Users
<1>3. QED
  BY <1>1, <1>2 DEF LockNext

(* locking.c implements A-B exclusion that does not exclude AA or BB. *)
THEOREM DrewLockIsGroupLock == LockSpec => IsGroupLock
<1>1. LockInit => Group!Init
  BY DEF LockInit, Group!Init, HoldingReaders, HoldingWriters, Users
<1>2. LockInv /\ LockInv' /\ [LockNext]_lockVars
        => [Group!Next]_<<HoldingReaders, HoldingWriters>>
  BY StepRefines
<1>3. QED
  BY <1>1, <1>2, LockInvariant, PTL DEF LockSpec, IsGroupLock, Group!Spec

-----------------------------------------------------------------------------
(***************************************************************************)
(* Snapshots                                                               *)
(***************************************************************************)
ForcePhase == {"wait", "waiting", "create", "captured", "uncow"}
Forcing   == {s \in Snapshotters : snap[s] \in ForcePhase}
SwapFiles == {f \in Files : file[f].swap}
Walkers   == {t \in Tasks : task[t].at = "walk"}

(* The two counters are the numbers of tasks and files that they stand for. *)
Counts ==
    /\ forceCow = Cardinality(Forcing)
    /\ swapfiles = Cardinality(SwapFiles) + Cardinality(Walkers)

(* Who holds the lock, and that its sides exclude each other. *)
Holders ==
    /\ \A s \in Snapshotters : s \in inA <=> snap[s] \notin {"idle", "lock"}
    /\ \A t \in Tasks : t \in inB <=> task[t].at # "idle"
    /\ inA = {} \/ inB = {}

SwapInv ==
    /\ SwapNotShared
    /\ \A s \in Snapshotters : snap[s] = "create" => SwapFiles = {}

(* Data without a reservation is never on its way to COW because of a      *)
(* snapshot.                                                               *)
NocowInv ==
    /\ \A t \in Tasks : task[t].at = "write" => ~file[task[t].file].shared
    /\ \A f \in Delalloc : file[f].reserved \/ ~file[f].shared
    /\ CowIsReserved

(* What a snapshot has to write out first: data older than its call or     *)
(* than an expanding truncate, and data without a reservation.             *)
Old(s) == due[s] \cup {f \in Files : file[f].owed \/ ~file[f].reserved}

OldInv ==
    \A s \in Snapshotters :
        /\ Old(s) \subseteq Pending
        /\ snap[s] = "flushing" => Old(s) \cap Delalloc \subseteq todo[s]
        /\ snap[s] \in ForcePhase => Old(s) \cap Delalloc = {}
        /\ snap[s] = "waiting" => Old(s) \subseteq todo[s]
        /\ snap[s] = "create" => Old(s) = {}

IInv == SnapTypeOK /\ Counts /\ Holders /\ SwapInv /\ NocowInv /\ OldInv

-----------------------------------------------------------------------------
Extent == [stage : Stages, reserved : BOOLEAN, shared : BOOLEAN,
           owed : BOOLEAN, swap : BOOLEAN]

LEMMA FileType == SnapTypeOK => file \in [Files -> Extent]
  BY DEF SnapTypeOK, Extent

(* An extent after an update of some of its fields. *)
LEMMA Updated ==
  ASSUME NEW e \in Extent, NEW st \in Stages, NEW r \in BOOLEAN
  PROVE  /\ [e EXCEPT !.stage = st] \in Extent
         /\ [e EXCEPT !.stage = st, !.reserved = r] \in Extent
  BY DEF Extent

LEMMA UpdatedAll ==
  ASSUME NEW e \in Extent, NEW st \in Stages, NEW r \in BOOLEAN,
         NEW sh \in BOOLEAN, NEW o \in BOOLEAN
  PROVE  [e EXCEPT !.stage = st, !.reserved = r, !.shared = sh, !.owed = o]
           \in Extent
  BY DEF Extent

(* What a step makes of the extent of f; the other files stay. *)
Becomes(f, st, r, sh, o, sw) ==
    /\ file' \in [Files -> Extent]
    /\ \A g \in Files : g # f => file'[g] = file[g]
    /\ file'[f].stage = st /\ file'[f].reserved = r /\ file'[f].shared = sh
    /\ file'[f].owed = o /\ file'[f].swap = sw

LEMMA ExtentBecomes ==
  ASSUME SnapTypeOK, NEW f \in Files, NEW e \in Extent,
         file' = [file EXCEPT ![f] = e]
  PROVE  Becomes(f, e.stage, e.reserved, e.shared, e.owed, e.swap)
<1>1. file' \in [Files -> Extent] /\ file'[f] = e
  BY FileType
<1>2. \A g \in Files : g # f => file'[g] = file[g]
  BY FileType
<1>3. QED
  BY <1>1, <1>2, Zenon DEF Becomes

LEMMA StageBecomes ==
  ASSUME SnapTypeOK, NEW f \in Files, NEW st \in Stages, SetStage(f, st)
  PROVE  Becomes(f, st, file[f].reserved, file[f].shared, file[f].owed,
                 file[f].swap)
<1> DEFINE e == [file[f] EXCEPT !.stage = st]
<1>1. file[f] \in Extent
  BY FileType
<1>2. e \in Extent /\ file' = [file EXCEPT ![f] = e]
  BY <1>1, Updated DEF SetStage
<1>3. /\ e.stage = st /\ e.reserved = file[f].reserved
      /\ e.shared = file[f].shared /\ e.owed = file[f].owed
      /\ e.swap = file[f].swap
  BY <1>1 DEF Extent
<1> HIDE DEF e
<1>4. QED
  BY <1>2, <1>3, ExtentBecomes, Zenon

LEMMA DirtyBecomes ==
  ASSUME SnapTypeOK, NEW f \in Files, NEW r \in BOOLEAN, Dirty(f, r)
  PROVE  Becomes(f, "dirty", r, file[f].shared,
                 file[f].owed, file[f].swap)
<1> DEFINE e == [file[f] EXCEPT !.stage = "dirty", !.reserved = r]
<1>1. file[f] \in Extent /\ "dirty" \in Stages
  BY FileType DEF Stages
<1>2. e \in Extent /\ file' = [file EXCEPT ![f] = e]
  <2>1. e \in Extent
    BY <1>1, Updated, Zenon
  <2>2. file' = [file EXCEPT ![f] = e]
    BY DEF Dirty
  <2>3. QED
    BY <2>1, <2>2
<1>3. /\ e.stage = "dirty"
      /\ e.reserved = r
      /\ e.shared = file[f].shared
      /\ e.owed = file[f].owed
      /\ e.swap = file[f].swap
  BY <1>1 DEF Extent
<1> HIDE DEF e
<1>4. QED
  BY <1>2, <1>3, ExtentBecomes, Zenon

LEMMA CowBecomes ==
  ASSUME SnapTypeOK, NEW f \in Files, FallbackToCow(f)
  PROVE  Becomes(f, "cow", TRUE, file[f].shared,
                 file[f].owed, file[f].swap)
<1> DEFINE e == [file[f] EXCEPT !.stage = "cow", !.reserved = TRUE]
<1>1. file[f] \in Extent /\ "cow" \in Stages
  BY FileType DEF Stages
<1>2. e \in Extent /\ file' = [file EXCEPT ![f] = e]
  <2>1. e \in Extent
    BY <1>1, Updated, Zenon
  <2>2. file' = [file EXCEPT ![f] = e]
    BY DEF FallbackToCow
  <2>3. QED
    BY <2>1, <2>2
<1>3. /\ e.stage = "cow"
      /\ e.reserved = TRUE
      /\ e.shared = file[f].shared
      /\ e.owed = file[f].owed
      /\ e.swap = file[f].swap
  BY <1>1 DEF Extent
<1> HIDE DEF e
<1>4. QED
  BY <1>2, <1>3, ExtentBecomes, Zenon

LEMMA SettleBecomes ==
  ASSUME SnapTypeOK, NEW f \in Files, NEW sh \in BOOLEAN, Settle(f, sh)
  PROVE  Becomes(f, "clean", TRUE, sh,
                 FALSE, file[f].swap)
<1> DEFINE e == [file[f] EXCEPT !.stage = "clean", !.reserved = TRUE,
                                 !.shared = sh, !.owed = FALSE]
<1>1. file[f] \in Extent /\ "clean" \in Stages
  BY FileType DEF Stages
<1>2. e \in Extent /\ file' = [file EXCEPT ![f] = e]
  <2>1. e \in Extent
    BY <1>1, UpdatedAll, Zenon
  <2>2. file' = [file EXCEPT ![f] = e]
    BY DEF Settle
  <2>3. QED
    BY <2>1, <2>2
<1>3. /\ e.stage = "clean"
      /\ e.reserved = TRUE
      /\ e.shared = sh
      /\ e.owed = FALSE
      /\ e.swap = file[f].swap
  BY <1>1 DEF Extent
<1> HIDE DEF e
<1>4. QED
  BY <1>2, <1>3, ExtentBecomes, Zenon

LEMMA OwedBecomes ==
  ASSUME SnapTypeOK, NEW f \in Files, NEW o \in BOOLEAN,
         file' = [file EXCEPT ![f].owed = o]
  PROVE  Becomes(f, file[f].stage, file[f].reserved, file[f].shared,
                 o, file[f].swap)
<1> DEFINE e == [file[f] EXCEPT !.owed = o]
<1>1. file[f] \in Extent
  BY FileType
<1>2. e \in Extent /\ file' = [file EXCEPT ![f] = e]
  <2>1. e \in Extent
    BY <1>1 DEF Extent
  <2>2. file' = [file EXCEPT ![f] = e]
    OBVIOUS
  <2>3. QED
    BY <2>1, <2>2
<1>3. /\ e.stage = file[f].stage
      /\ e.reserved = file[f].reserved
      /\ e.shared = file[f].shared
      /\ e.owed = o
      /\ e.swap = file[f].swap
  BY <1>1 DEF Extent
<1> HIDE DEF e
<1>4. QED
  BY <1>2, <1>3, ExtentBecomes, Zenon

LEMMA SwapBecomes ==
  ASSUME SnapTypeOK, NEW f \in Files, NEW sw \in BOOLEAN,
         file' = [file EXCEPT ![f].swap = sw]
  PROVE  Becomes(f, file[f].stage, file[f].reserved, file[f].shared,
                 file[f].owed, sw)
<1> DEFINE e == [file[f] EXCEPT !.swap = sw]
<1>1. file[f] \in Extent
  BY FileType
<1>2. e \in Extent /\ file' = [file EXCEPT ![f] = e]
  <2>1. e \in Extent
    BY <1>1 DEF Extent
  <2>2. file' = [file EXCEPT ![f] = e]
    OBVIOUS
  <2>3. QED
    BY <2>1, <2>2
<1>3. /\ e.stage = file[f].stage
      /\ e.reserved = file[f].reserved
      /\ e.shared = file[f].shared
      /\ e.owed = file[f].owed
      /\ e.swap = sw
  BY <1>1 DEF Extent
<1> HIDE DEF e
<1>4. QED
  BY <1>2, <1>3, ExtentBecomes, Zenon

-----------------------------------------------------------------------------
(* Writes with reserved space and writeback: the extent of one file and    *)
(* what is due change, and nothing gets older or more shared.              *)
DelallocStages == {"dirty", "check", "tocow", "rocow", "tonocow"}
OrderedStages == {"cow", "nocow"}

LEMMA DataStep ==
  ASSUME IInv, NEW f \in Files, NEW st \in Stages, NEW r \in BOOLEAN,
         NEW sh \in BOOLEAN, NEW o \in BOOLEAN,
         Becomes(f, st, r, sh, o, file[f].swap),
         due' \in [Snapshotters -> SUBSET Files],
         \A s \in Snapshotters : due'[s] \subseteq due[s],
         UNCHANGED <<inA, inB, snap, todo, task, forceCow, swapfiles, dead>>,
         sh => file[f].shared,
         st = "tocow" => r,
         st \in DelallocStages /\ ~r => ~sh,
         o => file[f].owed,
         ~r => ~file[f].reserved,
         \A s \in Snapshotters :
           f \in due'[s] \/ o \/ ~r
             => /\ st \in DelallocStages => f \in Delalloc
                /\ st \in DelallocStages \cup OrderedStages
  PROVE  IInv'
<1>0. /\ SnapTypeOK /\ Counts /\ Holders /\ SwapInv /\ NocowInv /\ OldInv
      /\ \A t \in Tasks : task[t].file \in Files
  BY DEF IInv, SnapTypeOK
<1>1. SnapTypeOK'
  BY <1>0 DEF SnapTypeOK, Becomes, Extent
<1>2. Counts'
  <2>1. SwapFiles' = SwapFiles
    BY DEF SwapFiles, Becomes
  <2>2. Forcing' = Forcing /\ Walkers' = Walkers
    BY DEF Forcing, Walkers
  <2>3. QED
    BY <1>0, <2>1, <2>2 DEF Counts
<1>3. Holders'
  BY <1>0 DEF Holders
<1>4. SwapInv'
  BY <1>0 DEF SwapInv, SwapNotShared, SwapFiles, Becomes
<1>5. NocowInv'
  BY <1>0 DEF NocowInv, CowIsReserved, Delalloc, DelallocStages, Becomes
<1>6. OldInv'
  <2> SUFFICES ASSUME NEW s \in Snapshotters
      PROVE  /\ Old(s)' \subseteq Pending'
             /\ snap[s] = "flushing" => Old(s)' \cap Delalloc' \subseteq todo[s]
             /\ snap[s] \in ForcePhase => Old(s)' \cap Delalloc' = {}
             /\ snap[s] = "waiting" => Old(s)' \subseteq todo[s]
             /\ snap[s] = "create" => Old(s)' = {}
    BY DEF OldInv
  <2>1. Old(s)' \subseteq Old(s)
    BY DEF Old, Becomes
  <2>2. Old(s)' \cap Delalloc' \subseteq Old(s) \cap Delalloc
    BY <2>1 DEF Old, Becomes, Delalloc, DelallocStages
  <2>3. Old(s)' \subseteq Pending'
    BY <1>0, <2>1 DEF OldInv, Old, Becomes, Pending, Delalloc, Ordered,
       DelallocStages, OrderedStages
  <2>4. QED
    BY <1>0, <2>1, <2>2, <2>3 DEF OldInv
<1>7. QED
  BY <1>1, <1>2, <1>3, <1>4, <1>5, <1>6 DEF IInv

LEMMA DataInv ==
  ASSUME IInv, NEW f \in Files,
         \/ WriteReserved(f) \/ Writeback(f) \/ FinishOrdered(f)
         \/ WritebackError(f)
  PROVE  IInv'
<1>0. /\ SnapTypeOK /\ OldInv /\ NocowInv
      /\ due \in [Snapshotters -> SUBSET Files]
      /\ file[f] \in Extent
      /\ file[f].reserved \in BOOLEAN /\ file[f].shared \in BOOLEAN
      /\ file[f].owed \in BOOLEAN
  BY FileType DEF IInv, SnapTypeOK, Extent
<1> USE DEF Stages, DelallocStages, OrderedStages
<1>2. CASE WriteReserved(f)
  <2>1. Becomes(f, "dirty", TRUE, file[f].shared, file[f].owed, file[f].swap)
    BY <1>0, <1>2, DirtyBecomes DEF WriteReserved
  <2>2. \A s \in Snapshotters :
          f \in due[s] \/ file[f].owed => f \in Delalloc
    BY <1>0, <1>2 DEF WriteReserved, Settled, OldInv, Old, Pending, Delalloc,
       Ordered
  <2>3. UNCHANGED <<inA, inB, snap, todo, due, task, forceCow, swapfiles, dead>>
    BY <1>2 DEF WriteReserved
  <2>4. QED
    BY <1>0, <2>1, <2>2, <2>3, DataStep
<1>3. CASE Writeback(f)
  <2>0. /\ UNCHANGED <<inA, inB, snap, todo, due, task, forceCow, swapfiles,
                       dead>>
        /\ f \in Delalloc
    BY <1>3 DEF Writeback, StartWriteback, CheckForceCow, AddOrderedExtent,
       FallbackToCow, Delalloc
  <2>1. \A s \in Snapshotters : due'[s] \subseteq due[s]
    BY <2>0
  <2>2. f \in Delalloc => file[f].reserved \/ ~file[f].shared
    BY <1>0 DEF NocowInv
  <2>3. CASE StartWriteback(f) /\ file[f].shared
    <3>1. SetStage(f, "tocow")
      BY <2>3 DEF StartWriteback
    <3>2. QED
      BY <1>0, <2>0, <2>1, <2>2, <2>3, <3>1, StageBecomes, DataStep
  <2>4. CASE StartWriteback(f) /\ ~file[f].shared
    <3>1. SetStage(f, "check")
      BY <2>4 DEF StartWriteback
    <3>2. QED
      BY <1>0, <2>0, <2>1, <2>2, <2>4, <3>1, StageBecomes, DataStep
  <2>5. CASE CheckForceCow(f) /\ MustCow
    <3>1. SetStage(f, "tocow")
      BY <2>5 DEF CheckForceCow
    <3>2. \E s \in Snapshotters : snap[s] \in ForcePhase
      <4>1. CASE Forcing = {}
        BY <4>1, <2>5, FS_EmptySet DEF IInv, Counts, MustCow
      <4>2. CASE Forcing # {}
        BY <4>2 DEF Forcing
      <4>3. QED
        BY <4>1, <4>2
    <3>3. file[f].reserved
      BY <1>0, <2>0, <3>2 DEF OldInv, Old
    <3>4. QED
      BY <1>0, <2>0, <2>1, <2>2, <3>1, <3>3, StageBecomes, DataStep
  <2>6. CASE CheckForceCow(f) /\ ~MustCow
    <3>1. SetStage(f, "tonocow")
      BY <2>6 DEF CheckForceCow
    <3>2. QED
      BY <1>0, <2>0, <2>1, <2>2, <3>1, StageBecomes, DataStep
  <2>7. CASE FallbackToCow(f)
    <3>1. Becomes(f, "cow", TRUE, file[f].shared, file[f].owed, file[f].swap)
      BY <1>0, <2>7, CowBecomes
    <3>2. QED
      BY <1>0, <2>0, <2>1, <3>1, DataStep
  <2>8. ASSUME NEW stage \in {"nocow", "rocow"}, SetStage(f, stage)
        PROVE  IInv'
    BY <1>0, <2>0, <2>1, <2>2, <2>8, StageBecomes, DataStep
  <2>9. QED
    BY <1>3, <2>3, <2>4, <2>5, <2>6, <2>7, <2>8 DEF Writeback, AddOrderedExtent
<1>4. ASSUME NEW sh \in BOOLEAN, sh => file[f].shared, Settle(f, sh)
      PROVE  IInv'
  <2>1. Becomes(f, "clean", TRUE, sh, FALSE, file[f].swap)
    BY <1>0, <1>4, SettleBecomes
  <2>2. /\ due' \in [Snapshotters -> SUBSET Files]
        /\ \A s \in Snapshotters : due'[s] \subseteq due[s] /\ f \notin due'[s]
    BY <1>0, <1>4 DEF Settle
  <2>3. UNCHANGED <<inA, inB, snap, todo, task, forceCow, swapfiles, dead>>
    BY <1>4 DEF Settle
  <2>4. QED
    BY <1>0, <1>4, <2>1, <2>2, <2>3, DataStep
<1>5. CASE FinishOrdered(f)
  <2>1. PICK replaced \in BOOLEAN : Settle(f, file[f].shared /\ ~replaced)
    BY <1>5 DEF FinishOrdered
  <2>2. QED
    BY <1>0, <1>4, <2>1
<1>6. QED
  BY <1>0, <1>2, <1>3, <1>4, <1>5 DEF WritebackError

-----------------------------------------------------------------------------
(* The steps of btrfs_mksnapshot().                                        *)
LEMMA SnapMoved ==
  ASSUME SnapTypeOK, NEW s \in Snapshotters, NEW step \in SnapSteps,
         SnapTo(s, step)
  PROVE  /\ snap' \in [Snapshotters -> SnapSteps]
         /\ snap'[s] = step
         /\ \A q \in Snapshotters : q # s => snap'[q] = snap[q]
  BY DEF SnapTypeOK, SnapTo

LEMMA Finite ==
  /\ IsFiniteSet(Forcing) /\ IsFiniteSet(SwapFiles) /\ IsFiniteSet(Walkers)
  /\ Cardinality(Forcing) \in Nat /\ Cardinality(SwapFiles) \in Nat
  /\ Cardinality(Walkers) \in Nat
  BY SnapshotAssumption, FS_Subset, FS_CardinalityType, Zenon
     DEF Forcing, SwapFiles, Walkers

LEMMA ForcingChange ==
  ASSUME SnapTypeOK, NEW s \in Snapshotters, NEW step \in SnapSteps,
         SnapTo(s, step)
  PROVE  Cardinality(Forcing') = Cardinality(Forcing)
           + (IF step \in ForcePhase THEN 1 ELSE 0)
           - (IF snap[s] \in ForcePhase THEN 1 ELSE 0)
<1>1. CASE step \in ForcePhase /\ snap[s] \notin ForcePhase
  <2>1. Forcing' = Forcing \cup {s} /\ s \notin Forcing
    BY <1>1, SnapMoved DEF Forcing
  <2>2. Cardinality(Forcing') = Cardinality(Forcing) + 1
    BY <2>1, Finite, FS_AddElement, Zenon
  <2>3. QED
    BY <1>1, <2>2, Finite
<1>2. CASE step \notin ForcePhase /\ snap[s] \in ForcePhase
  <2>1. Forcing' = Forcing \ {s} /\ s \in Forcing
    BY <1>2, SnapMoved DEF Forcing
  <2>2. Cardinality(Forcing') = Cardinality(Forcing) - 1
    BY <2>1, Finite, FS_RemoveElement, Zenon
  <2>3. QED
    BY <1>2, <2>2, Finite
<1>3. CASE step \in ForcePhase <=> snap[s] \in ForcePhase
  <2>1. Forcing' = Forcing
    BY <1>3, SnapMoved DEF Forcing
  <2>2. QED
    BY <1>3, <2>1, Finite
<1>4. QED
  BY <1>1, <1>2, <1>3

OnlyAt(s, f, g) == \A q \in Snapshotters : q # s => g[q] = f[q]

(* A step of s that leaves the files alone keeps the invariant if the lock *)
(* and the counter follow, and what is old is what the new place allows.   *)
LEMMA SnapMove ==
  ASSUME IInv, NEW s \in Snapshotters, NEW step \in SnapSteps, SnapTo(s, step),
         step \in {"idle", "lock"} => inA' = inA \ {s},
         step \notin {"idle", "lock"} => inA' = inA \cup {s},
         inB' = inB, inA' = {} \/ inB = {},
         step \in ForcePhase /\ snap[s] \notin ForcePhase
           => forceCow' = forceCow + 1,
         step \notin ForcePhase /\ snap[s] \in ForcePhase
           => forceCow' = forceCow - 1,
         (step \in ForcePhase <=> snap[s] \in ForcePhase)
           => forceCow' = forceCow,
         OnlyAt(s, todo, todo'), todo' \in [Snapshotters -> SUBSET Files],
         OnlyAt(s, due, due'), due' \in [Snapshotters -> SUBSET Files],
         due'[s] \subseteq Pending,
         UNCHANGED <<task, file, swapfiles, dead>>,
         step = "create" => SwapFiles = {},
         step = "flushing" => Old(s)' \cap Delalloc \subseteq todo'[s],
         step \in ForcePhase => Old(s)' \cap Delalloc = {},
         step = "waiting" => Old(s)' \subseteq todo'[s],
         step = "create" => Old(s)' = {}
  PROVE  IInv'
<1>0. /\ SnapTypeOK /\ Counts /\ Holders /\ SwapInv /\ NocowInv /\ OldInv
      /\ snap' \in [Snapshotters -> SnapSteps]
      /\ snap'[s] = step
      /\ \A q \in Snapshotters : q # s => snap'[q] = snap[q]
  BY SnapMoved DEF IInv
<1>1. \A q \in Snapshotters : q # s => todo'[q] = todo[q] /\ due'[q] = due[q]
  BY DEF OnlyAt
<1>2. /\ SwapFiles' = SwapFiles /\ Walkers' = Walkers
      /\ Delalloc' = Delalloc /\ Ordered' = Ordered /\ Pending' = Pending
  BY DEF SwapFiles, Walkers, Delalloc, Ordered, Pending
<1>3. Counts'
  <2>1. forceCow' = Cardinality(Forcing')
    BY <1>0, ForcingChange, Finite DEF Counts
  <2>2. QED
    BY <1>0, <1>2, <2>1 DEF Counts
<1>4. forceCow' \in Nat
  <2>1. IsFiniteSet(Forcing')
    BY SnapshotAssumption, FS_Subset, Zenon DEF Forcing
  <2>2. QED
    BY <1>3, <2>1, FS_CardinalityType DEF Counts
<1>5. SnapTypeOK'
  BY <1>0, <1>1, <1>4 DEF SnapTypeOK
<1>6. Holders'
  BY <1>0 DEF Holders
<1>7. SwapInv'
  BY <1>0, <1>2 DEF SwapInv, SwapNotShared
<1>8. NocowInv'
  BY <1>0, <1>2 DEF NocowInv, CowIsReserved
<1>9. OldInv'
  <2> SUFFICES ASSUME NEW q \in Snapshotters
      PROVE  /\ Old(q)' \subseteq Pending
             /\ snap'[q] = "flushing" => Old(q)' \cap Delalloc \subseteq todo'[q]
             /\ snap'[q] \in ForcePhase => Old(q)' \cap Delalloc = {}
             /\ snap'[q] = "waiting" => Old(q)' \subseteq todo'[q]
             /\ snap'[q] = "create" => Old(q)' = {}
    BY <1>2 DEF OldInv
  <2>1. CASE q # s
    <3>1. Old(q)' = Old(q)
      BY <1>1, <2>1 DEF Old
    <3>2. QED
      BY <1>0, <1>1, <2>1, <3>1 DEF OldInv
  <2>2. CASE q = s
    <3>1. Old(s)' \subseteq Pending
      BY <1>0, <1>1 DEF OldInv, Old
    <3>2. QED
      BY <1>0, <1>1, <2>2, <3>1
  <2>3. QED
    BY <2>1, <2>2
<1>10. QED
  BY <1>3, <1>5, <1>6, <1>7, <1>8, <1>9 DEF IInv

(* The same for a holder of the lock that keeps it. *)
LEMMA SnapStay ==
  ASSUME IInv, NEW s \in Snapshotters, NEW step \in SnapSteps, SnapTo(s, step),
         snap[s] \notin {"idle", "lock"}, step \notin {"idle", "lock"},
         step \in ForcePhase /\ snap[s] \notin ForcePhase
           => forceCow' = forceCow + 1,
         step \notin ForcePhase /\ snap[s] \in ForcePhase
           => forceCow' = forceCow - 1,
         (step \in ForcePhase <=> snap[s] \in ForcePhase)
           => forceCow' = forceCow,
         OnlyAt(s, todo, todo'), todo' \in [Snapshotters -> SUBSET Files],
         UNCHANGED <<inA, inB, due, task, file, swapfiles, dead>>,
         step = "create" => SwapFiles = {},
         step = "flushing" => Old(s) \cap Delalloc \subseteq todo'[s],
         step \in ForcePhase => Old(s) \cap Delalloc = {},
         step = "waiting" => Old(s) \subseteq todo'[s],
         step = "create" => Old(s) = {}
  PROVE  IInv'
<1>1. /\ s \in inA /\ (inA = {} \/ inB = {})
      /\ due \in [Snapshotters -> SUBSET Files]
      /\ due[s] \in SUBSET Pending
  BY DEF IInv, Holders, SnapTypeOK, OldInv, Old
<1>2. /\ inA' = inA \cup {s} /\ inB' = inB /\ inA' = inA
      /\ OnlyAt(s, due, due') /\ due'[s] \subseteq Pending
      /\ due' \in [Snapshotters -> SUBSET Files]
      /\ UNCHANGED <<task, file, swapfiles, dead>>
  BY <1>1 DEF OnlyAt
<1>3. Old(s)' = Old(s)
  BY DEF Old
<1>4. QED
  BY <1>1, <1>2, <1>3, SnapMove

LEMMA SnapStepsKnown ==
  /\ "idle" \in SnapSteps /\ "lock" \in SnapSteps /\ "flush" \in SnapSteps
  /\ "flushing" \in SnapSteps /\ "wait" \in SnapSteps
  /\ "waiting" \in SnapSteps /\ "create" \in SnapSteps
  /\ "captured" \in SnapSteps /\ "uncow" \in SnapSteps
  /\ "unlock" \in SnapSteps
  BY DEF SnapSteps

(* Calling, locking and unlocking. *)
LEMMA SnapEdgeInv ==
  ASSUME IInv, NEW s \in Snapshotters,
         SnapCall(s) \/ SnapLock(s) \/ SnapUnlock(s)
  PROVE  IInv'
<1>0. /\ Holders
      /\ todo \in [Snapshotters -> SUBSET Files]
      /\ due \in [Snapshotters -> SUBSET Files]
      /\ due[s] \subseteq Pending /\ Pending \subseteq Files
  BY DEF IInv, SnapTypeOK, OldInv, Old, Pending, Delalloc, Ordered
<1> USE SnapStepsKnown
<1>1. CASE SnapCall(s)
  <2>1. /\ inA' = inA \ {s} /\ inB' = inB /\ SnapTo(s, "lock")
        /\ snap[s] = "idle" /\ forceCow' = forceCow
        /\ UNCHANGED <<task, file, swapfiles, dead>>
        /\ inA' = {} \/ inB = {}
    BY <1>0, <1>1 DEF SnapCall, Holders
  <2>2. /\ OnlyAt(s, todo, todo') /\ todo' \in [Snapshotters -> SUBSET Files]
        /\ OnlyAt(s, due, due') /\ due' \in [Snapshotters -> SUBSET Files]
        /\ due'[s] \subseteq Pending
    BY <1>0, <1>1 DEF SnapCall, OnlyAt
  <2>3. QED
    BY <2>1, <2>2, SnapMove DEF ForcePhase
<1>2. CASE SnapLock(s)
  <2>1. /\ inA' = inA \cup {s} /\ inB' = inB /\ inB = {}
        /\ SnapTo(s, "flush") /\ snap[s] = "lock" /\ forceCow' = forceCow
        /\ UNCHANGED <<task, file, swapfiles, dead>>
    BY <1>0, <1>2 DEF SnapLock, SnapshotLock!EnterA
  <2>2. /\ OnlyAt(s, todo, todo') /\ todo' \in [Snapshotters -> SUBSET Files]
        /\ OnlyAt(s, due, due') /\ due' \in [Snapshotters -> SUBSET Files]
        /\ due'[s] \subseteq Pending
    BY <1>0, <1>2 DEF SnapLock, OnlyAt
  <2>3. QED
    BY <2>1, <2>2, SnapMove DEF ForcePhase
<1>3. CASE SnapUnlock(s)
  <2>1. /\ inA' = inA \ {s} /\ inB' = inB
        /\ SnapTo(s, "idle") /\ snap[s] = "unlock" /\ forceCow' = forceCow
        /\ UNCHANGED <<task, file, swapfiles, dead>>
        /\ inA' = {} \/ inB = {}
    BY <1>0, <1>3 DEF SnapUnlock, SnapshotLock!LeaveA, Holders
  <2>2. /\ OnlyAt(s, todo, todo') /\ todo' \in [Snapshotters -> SUBSET Files]
        /\ OnlyAt(s, due, due') /\ due' \in [Snapshotters -> SUBSET Files]
        /\ due'[s] \subseteq Pending
    BY <1>0, <1>3 DEF SnapUnlock, OnlyAt
  <2>3. QED
    BY <2>1, <2>2, SnapMove DEF ForcePhase
<1>4. QED
  BY <1>1, <1>2, <1>3

(* Flushing. *)
LEMMA FlushInv ==
  ASSUME IInv, NEW s \in Snapshotters,
         \/ StartDelalloc(s) \/ FlushFailed(s) \/ ForceCow(s)
         \/ \E f \in Files : Flushed(s, f)
  PROVE  IInv'
<1>0. /\ todo \in [Snapshotters -> SUBSET Files]
      /\ Delalloc \subseteq Files
      /\ snap \in [Snapshotters -> SnapSteps]
      /\ snap[s] = "flushing" => Old(s) \cap Delalloc \subseteq todo[s]
  BY DEF IInv, SnapTypeOK, OldInv, Delalloc
<1> USE SnapStepsKnown
<1>1. CASE StartDelalloc(s)
  <2>1. /\ SnapTo(s, "flushing") /\ snap[s] = "flush" /\ forceCow' = forceCow
        /\ UNCHANGED <<inA, inB, due, task, file, swapfiles, dead>>
    BY <1>1 DEF StartDelalloc
  <2>2. /\ OnlyAt(s, todo, todo') /\ todo' \in [Snapshotters -> SUBSET Files]
        /\ Old(s) \cap Delalloc \subseteq todo'[s]
    BY <1>0, <1>1 DEF StartDelalloc, ToFlush, OnlyAt
  <2>3. QED
    BY <2>1, <2>2, SnapStay DEF ForcePhase
<1>2. CASE FlushFailed(s)
  <2>1. /\ SnapTo(s, "unlock") /\ snap[s] \in {"flush", "flushing"}
        /\ forceCow' = forceCow
        /\ UNCHANGED <<inA, inB, due, task, file, swapfiles, dead>>
    BY <1>2 DEF FlushFailed, AfterFailedFlush
  <2>2. OnlyAt(s, todo, todo') /\ todo' \in [Snapshotters -> SUBSET Files]
    BY <1>0, <1>2 DEF FlushFailed, OnlyAt
  <2>3. QED
    BY <2>1, <2>2, SnapStay DEF ForcePhase
<1>3. CASE ForceCow(s)
  <2>1. /\ SnapTo(s, "wait") /\ snap[s] = "flushing"
        /\ forceCow' = forceCow + 1
        /\ UNCHANGED <<inA, inB, due, task, file, swapfiles, dead>>
        /\ Old(s) \cap Delalloc = {}
    BY <1>0, <1>3 DEF ForceCow
  <2>2. OnlyAt(s, todo, todo') /\ todo' \in [Snapshotters -> SUBSET Files]
    BY <1>0, <1>3 DEF ForceCow, OnlyAt
  <2>3. QED
    BY <2>1, <2>2, SnapStay DEF ForcePhase
<1>4. ASSUME NEW f \in Files, Flushed(s, f) PROVE IInv'
  <2>1. /\ SnapTo(s, "flushing") /\ snap[s] = "flushing"
        /\ forceCow' = forceCow
        /\ UNCHANGED <<inA, inB, due, task, file, swapfiles, dead>>
    BY <1>0, <1>4 DEF Flushed, SnapTo
  <2>2. /\ OnlyAt(s, todo, todo') /\ todo' \in [Snapshotters -> SUBSET Files]
        /\ Old(s) \cap Delalloc \subseteq todo'[s]
    BY <1>0, <1>4 DEF Flushed, OnlyAt
  <2>3. QED
    BY <2>1, <2>2, SnapStay DEF ForcePhase
<1>5. QED
  BY <1>1, <1>2, <1>3, <1>4

(* Waiting for ordered extents, and the end. *)
LEMMA WaitInv ==
  ASSUME IInv, NEW s \in Snapshotters,
         \/ WaitOrdered(s) \/ CreateSnapshot(s) \/ CreateFailed(s)
         \/ UnforceCow(s)
         \/ \E f \in Files : OrderedWaited(s, f)
  PROVE  IInv'
<1>0. /\ todo \in [Snapshotters -> SUBSET Files]
      /\ Ordered \subseteq Files /\ Pending = Delalloc \cup Ordered
      /\ snap \in [Snapshotters -> SnapSteps]
      /\ Old(s) \subseteq Pending
      /\ snap[s] \in ForcePhase => Old(s) \cap Delalloc = {}
      /\ snap[s] = "waiting" => Old(s) \subseteq todo[s]
  BY DEF IInv, SnapTypeOK, OldInv, Ordered, Pending
<1> USE SnapStepsKnown
<1>1. CASE WaitOrdered(s)
  <2>1. /\ SnapTo(s, "waiting") /\ snap[s] = "wait" /\ forceCow' = forceCow
        /\ UNCHANGED <<inA, inB, due, task, file, swapfiles, dead>>
        /\ Old(s) \cap Delalloc = {}
    BY <1>0, <1>1 DEF WaitOrdered, ForcePhase
  <2>2. /\ OnlyAt(s, todo, todo') /\ todo' \in [Snapshotters -> SUBSET Files]
        /\ Old(s) \subseteq todo'[s]
    BY <1>0, <1>1, <2>1 DEF WaitOrdered, ToWaitFor, OnlyAt
  <2>3. QED
    BY <2>1, <2>2, SnapStay DEF ForcePhase
<1>2. CASE CreateSnapshot(s)
  <2>1. /\ snap[s] = "waiting" /\ forceCow' = forceCow
        /\ UNCHANGED <<inA, inB, due, task, file, swapfiles, dead>>
        /\ Old(s) = {}
    BY <1>0, <1>2 DEF CreateSnapshot
  <2>2. OnlyAt(s, todo, todo') /\ todo' \in [Snapshotters -> SUBSET Files]
    BY <1>0, <1>2 DEF CreateSnapshot, OnlyAt
  <2>3. CASE SwapPrevents
    <3>1. SnapTo(s, "uncow")
      BY <1>2, <2>3 DEF CreateSnapshot
    <3>2. QED
      BY <2>1, <2>2, <3>1, SnapStay DEF ForcePhase
  <2>4. CASE ~SwapPrevents
    <3>1. SnapTo(s, "create")
      BY <1>2, <2>4 DEF CreateSnapshot
    <3>2. Cardinality(SwapFiles) = 0
      BY <2>4, Finite DEF SwapPrevents, IInv, Counts
    <3>3. SwapFiles = {}
      BY <3>2, Finite, FS_EmptySet
    <3>4. QED
      BY <2>1, <2>2, <3>1, <3>3, SnapStay DEF ForcePhase
  <2>5. QED
    BY <2>3, <2>4
<1>3. CASE CreateFailed(s)
  <2>1. /\ SnapTo(s, "uncow") /\ snap[s] = "create" /\ forceCow' = forceCow
        /\ UNCHANGED <<inA, inB, due, task, file, swapfiles, dead>>
        /\ Old(s) \cap Delalloc = {}
    BY <1>0, <1>3 DEF CreateFailed, ForcePhase
  <2>2. OnlyAt(s, todo, todo') /\ todo' \in [Snapshotters -> SUBSET Files]
    BY <1>0, <1>3 DEF CreateFailed, OnlyAt
  <2>3. QED
    BY <2>1, <2>2, SnapStay DEF ForcePhase
<1>4. CASE UnforceCow(s)
  <2>1. /\ SnapTo(s, "unlock") /\ snap[s] \in {"captured", "uncow"}
        /\ forceCow' = forceCow - 1
        /\ UNCHANGED <<inA, inB, due, task, file, swapfiles, dead>>
    BY <1>4 DEF UnforceCow
  <2>2. OnlyAt(s, todo, todo') /\ todo' \in [Snapshotters -> SUBSET Files]
    BY <1>0, <1>4 DEF UnforceCow, OnlyAt
  <2>3. QED
    BY <2>1, <2>2, SnapStay DEF ForcePhase
<1>5. ASSUME NEW f \in Files, OrderedWaited(s, f) PROVE IInv'
  <2>1. /\ SnapTo(s, "waiting") /\ snap[s] = "waiting"
        /\ forceCow' = forceCow
        /\ UNCHANGED <<inA, inB, due, task, file, swapfiles, dead>>
        /\ Old(s) \cap Delalloc = {}
    BY <1>0, <1>5 DEF OrderedWaited, SnapTo, ForcePhase
  <2>2. /\ OnlyAt(s, todo, todo') /\ todo' \in [Snapshotters -> SUBSET Files]
        /\ Old(s) \subseteq todo'[s]
    BY <1>0, <1>5, <2>1 DEF OrderedWaited, OnlyAt
  <2>3. QED
    BY <2>1, <2>2, SnapStay DEF ForcePhase
<1>6. QED
  BY <1>1, <1>2, <1>3, <1>4, <1>5

(* The commit: every extent becomes shared. *)
LEMMA CaptureInv ==
  ASSUME IInv, NEW s \in Snapshotters, Capture(s)
  PROVE  IInv'
<1>0. /\ SnapTypeOK /\ Counts /\ Holders /\ SwapInv /\ NocowInv /\ OldInv
      /\ SnapTo(s, "captured") /\ snap[s] = "create"
      /\ snap' \in [Snapshotters -> SnapSteps]
      /\ snap'[s] = "captured"
      /\ \A q \in Snapshotters : q # s => snap'[q] = snap[q]
  BY SnapMoved, SnapStepsKnown DEF IInv, Capture
<1>1. UNCHANGED <<inA, inB, todo, due, task, forceCow, swapfiles, dead>>
  BY DEF Capture
<1>2. /\ file' \in [Files -> Extent]
      /\ \A f \in Files :
           /\ file'[f].stage = file[f].stage
           /\ file'[f].reserved = file[f].reserved
           /\ file'[f].owed = file[f].owed
           /\ file'[f].swap = file[f].swap
  <2>1. \A f \in Files : file[f] \in Extent
    BY <1>0, FileType
  <2>2. \A f \in Files : file'[f] = [file[f] EXCEPT !.shared = TRUE]
    BY DEF Capture
  <2>3. \A e \in Extent : [e EXCEPT !.shared = TRUE] \in Extent
    BY DEF Extent
  <2>4. file' \in [Files -> Extent]
    BY <2>1, <2>3 DEF Capture
  <2>5. QED
    BY <2>1, <2>2, <2>4 DEF Extent
<1>3. /\ SwapFiles' = SwapFiles /\ Walkers' = Walkers
      /\ Delalloc' = Delalloc /\ Ordered' = Ordered /\ Pending' = Pending
  BY <1>1, <1>2 DEF SwapFiles, Walkers, Delalloc, Ordered, Pending
<1>4. SwapFiles = {} /\ Old(s) = {}
  BY <1>0 DEF SwapInv, OldInv
<1>5. SnapTypeOK'
  BY <1>0, <1>1, <1>2 DEF SnapTypeOK, Extent
<1>6. Counts'
  <2>1. Forcing' = Forcing
    BY <1>0 DEF Forcing, ForcePhase
  <2>2. QED
    BY <1>0, <1>1, <1>3, <2>1 DEF Counts
<1>7. Holders'
  BY <1>0, <1>1 DEF Holders
<1>8. SwapInv'
  BY <1>0, <1>3, <1>4 DEF SwapInv, SwapNotShared, SwapFiles
<1>9. NocowInv'
  <2>1. \A t \in Tasks : task[t].at # "write"
    BY <1>0 DEF Holders
  <2>2. \A f \in Files : file[f].reserved
    BY <1>4 DEF Old
  <2>3. QED
    BY <1>0, <1>1, <1>2, <1>3, <2>1, <2>2 DEF NocowInv, CowIsReserved, Delalloc
<1>10. OldInv'
  <2>1. \A q \in Snapshotters : Old(q)' = Old(q)
    BY <1>1, <1>2 DEF Old
  <2>2. QED
    BY <1>0, <1>1, <1>3, <2>1 DEF OldInv, ForcePhase
<1>11. QED
  BY <1>5, <1>6, <1>7, <1>8, <1>9, <1>10 DEF IInv

-----------------------------------------------------------------------------
(* The steps of the write side.                                            *)
TaskRecord == [at : TaskSteps, file : Files]

LEMMA TaskMoved ==
  ASSUME SnapTypeOK, NEW t \in Tasks, NEW step \in TaskSteps, TaskTo(t, step)
  PROVE  /\ task' \in [Tasks -> TaskRecord]
         /\ task'[t].at = step /\ task'[t].file = task[t].file
         /\ \A u \in Tasks : u # t => task'[u] = task[u]
<1>1. task \in [Tasks -> TaskRecord] /\ task[t] \in TaskRecord
  BY DEF SnapTypeOK, TaskRecord
<1> DEFINE e == [task[t] EXCEPT !.at = step]
<1>2. e \in TaskRecord /\ e.at = step /\ e.file = task[t].file
  BY <1>1 DEF TaskRecord
<1>3. task' = [task EXCEPT ![t] = e]
  BY DEF TaskTo
<1> HIDE DEF e
<1>4. QED
  BY <1>1, <1>2, <1>3

(* No file changes. *)
LEMMA FileStays ==
  ASSUME SnapTypeOK, NEW f \in Files, UNCHANGED file
  PROVE  Becomes(f, file[f].stage, file[f].reserved, file[f].shared,
                 file[f].owed, file[f].swap)
  BY FileType DEF Becomes

(* A task on the write side excludes the snapshotters, so what becomes old *)
(* only has to be pending.                                                 *)
LEMMA TaskMove ==
  ASSUME IInv, NEW t \in Tasks, inA = {},
         task' \in [Tasks -> TaskRecord],
         \A u \in Tasks : u # t => task'[u] = task[u],
         \A u \in Tasks : u \in inB' <=> task'[u].at # "idle",
         inB' \subseteq Tasks,
         UNCHANGED <<inA, snap, todo, due, forceCow>>, dead' \in BOOLEAN,
         NEW f \in Files, NEW st \in Stages, NEW r \in BOOLEAN,
         NEW o \in BOOLEAN, NEW sw \in BOOLEAN,
         Becomes(f, st, r, file[f].shared, o, sw),
         swapfiles' = Cardinality(SwapFiles') + Cardinality(Walkers'),
         sw => ~file[f].shared,
         task'[t].at = "write" => ~file[task'[t].file].shared,
         st = "tocow" => r,
         st \in DelallocStages /\ ~r => ~file[f].shared,
         \A s \in Snapshotters : f \in due[s] \/ o \/ ~r
           => st \in DelallocStages \cup OrderedStages
  PROVE  IInv'
<1>0. /\ SnapTypeOK /\ Counts /\ Holders /\ SwapInv /\ NocowInv /\ OldInv
      /\ \A u \in Tasks : task[u].file \in Files /\ task'[u].file \in Files
      /\ \A g \in Files : file'[g].shared = file[g].shared
      /\ forceCow' = forceCow
  BY DEF IInv, SnapTypeOK, TaskRecord, Becomes
<1>1. Counts'
  <2>1. Forcing' = Forcing
    BY DEF Forcing
  <2>2. QED
    BY <1>0, <2>1 DEF Counts
<1>2. SnapTypeOK'
  <2>1. IsFiniteSet(SwapFiles') /\ IsFiniteSet(Walkers')
    BY SnapshotAssumption, FS_Subset, Zenon DEF SwapFiles, Walkers
  <2>2. swapfiles' \in Nat
    BY <2>1, FS_CardinalityType
  <2>3. QED
    BY <1>0, <2>2 DEF SnapTypeOK, TaskRecord, Becomes, Extent
<1>3. Holders'
  BY <1>0 DEF Holders
<1>4. SwapInv'
  <2>1. \A s \in Snapshotters : snap[s] # "create"
    BY <1>0 DEF Holders
  <2>2. SwapNotShared'
    BY <1>0 DEF SwapInv, SwapNotShared, Becomes
  <2>3. QED
    BY <2>1, <2>2 DEF SwapInv
<1>5. NocowInv'
  <2>1. \A u \in Tasks : task'[u].at = "write" => ~file'[task'[u].file].shared
    BY <1>0 DEF NocowInv
  <2>2. QED
    BY <1>0, <2>1
       DEF NocowInv, CowIsReserved, Delalloc, DelallocStages, Becomes
<1>6. OldInv'
  <2> SUFFICES ASSUME NEW s \in Snapshotters
      PROVE  Old(s)' \subseteq Pending' /\ snap[s] \in {"idle", "lock"}
    BY DEF OldInv, ForcePhase
  <2>1. snap[s] \in {"idle", "lock"}
    BY <1>0 DEF Holders
  <2>2. Old(s)' \subseteq Pending'
    BY <1>0 DEF OldInv, Old, Becomes, Pending, Delalloc, Ordered,
       DelallocStages, OrderedStages
  <2>3. QED
    BY <2>1, <2>2
<1>7. QED
  BY <1>1, <1>2, <1>3, <1>4, <1>5, <1>6 DEF IInv

(* The number of walkers after a step of t. *)
LEMMA WalkersChange ==
  ASSUME NEW t \in Tasks, \A u \in Tasks : u # t => task'[u] = task[u]
  PROVE  Cardinality(Walkers') = Cardinality(Walkers)
           + (IF task'[t].at = "walk" THEN 1 ELSE 0)
           - (IF task[t].at = "walk" THEN 1 ELSE 0)
<1>1. CASE task'[t].at = "walk" /\ task[t].at # "walk"
  <2>1. Walkers' = Walkers \cup {t} /\ t \notin Walkers
    BY <1>1 DEF Walkers
  <2>2. Cardinality(Walkers') = Cardinality(Walkers) + 1
    BY <2>1, Finite, FS_AddElement, Zenon
  <2>3. QED
    BY <1>1, <2>2, Finite
<1>2. CASE task'[t].at # "walk" /\ task[t].at = "walk"
  <2>1. Walkers' = Walkers \ {t} /\ t \in Walkers
    BY <1>2 DEF Walkers
  <2>2. Cardinality(Walkers') = Cardinality(Walkers) - 1
    BY <2>1, Finite, FS_RemoveElement, Zenon
  <2>3. QED
    BY <1>2, <2>2, Finite
<1>3. CASE task'[t].at = "walk" <=> task[t].at = "walk"
  <2>1. Walkers' = Walkers
    BY <1>3 DEF Walkers
  <2>2. QED
    BY <1>3, <2>1, Finite
<1>4. QED
  BY <1>1, <1>2, <1>3

(* What holds of a file and of a task on the write side. *)
LEMMA FileFacts ==
  ASSUME IInv, NEW f \in Files
  PROVE  /\ file[f].stage \in Stages /\ file[f].reserved \in BOOLEAN
         /\ file[f].owed \in BOOLEAN /\ file[f].swap \in BOOLEAN
         /\ file[f].swap => ~file[f].shared
         /\ file[f].stage = "tocow" => file[f].reserved
         /\ file[f].stage \in DelallocStages /\ ~file[f].reserved
              => ~file[f].shared
         /\ \A s \in Snapshotters :
              f \in due[s] \/ file[f].owed \/ ~file[f].reserved
                => /\ f \in Pending
                   /\ file[f].stage \in DelallocStages \cup OrderedStages
<1>1. file[f] \in Extent
  BY FileType DEF IInv
<1>2. file[f].swap => ~file[f].shared
  BY DEF IInv, SwapInv, SwapNotShared
<1>3. /\ file[f].stage = "tocow" => file[f].reserved
      /\ file[f].stage \in DelallocStages /\ ~file[f].reserved
           => ~file[f].shared
  BY DEF IInv, NocowInv, CowIsReserved, Delalloc, DelallocStages
<1>4. \A s \in Snapshotters :
        f \in due[s] \/ file[f].owed \/ ~file[f].reserved => f \in Pending
  BY DEF IInv, OldInv, Old
<1>5. f \in Pending => file[f].stage \in DelallocStages \cup OrderedStages
  BY DEF Pending, Delalloc, Ordered, DelallocStages, OrderedStages
<1>6. QED
  BY <1>1, <1>2, <1>3, <1>4, <1>5 DEF Extent

LEMMA TaskFacts ==
  ASSUME IInv, NEW t \in Tasks, task[t].at # "idle"
  PROVE  /\ inA = {} /\ inB \subseteq Tasks /\ t \in inB
         /\ \A u \in Tasks : u \in inB <=> task[u].at # "idle"
         /\ task[t].file \in Files
         /\ swapfiles = Cardinality(SwapFiles) + Cardinality(Walkers)
  BY DEF IInv, Holders, SnapTypeOK, Counts

(* Steps that change no file. *)
LEMMA TaskLockInv ==
  ASSUME IInv, NEW t \in Tasks, NEW op \in Operations, NEW f \in Files,
         TaskLock(t, op, f)
  PROVE  IInv'
<1>1. /\ inA = {} /\ inA' = inA /\ inB' = inB \cup {t}
      /\ task[t].at = "idle"
      /\ UNCHANGED <<snap, todo, due, file, forceCow, swapfiles, dead>>
  BY DEF TaskLock, ExpandLock, WriteLocked, SnapshotLock!EnterB
<1>2. /\ op \in {"nocow", "expand", "swap"}
      /\ task \in [Tasks -> TaskRecord] /\ inB \subseteq Tasks
      /\ \A u \in Tasks : u \in inB <=> task[u].at # "idle"
      /\ swapfiles = Cardinality(SwapFiles) + Cardinality(Walkers)
      /\ dead \in BOOLEAN /\ SnapTypeOK
  BY SnapshotAssumption DEF IInv, SnapTypeOK, TaskRecord, Holders, Counts
<1> DEFINE e == [at |-> op, file |-> f]
<1>3. e \in TaskRecord /\ e.at = op /\ e.file = f
  BY <1>2 DEF TaskRecord, TaskSteps
<1>4. task' = [task EXCEPT ![t] = e]
  BY DEF TaskLock
<1> HIDE DEF e
<1>5. /\ task' \in [Tasks -> TaskRecord] /\ task'[t].at = op
      /\ \A u \in Tasks : u # t => task'[u] = task[u]
  BY <1>2, <1>3, <1>4
<1>6. /\ \A u \in Tasks : u \in inB' <=> task'[u].at # "idle"
      /\ inB' \subseteq Tasks
  BY <1>1, <1>2, <1>5
<1>7. swapfiles' = Cardinality(SwapFiles') + Cardinality(Walkers')
  <2>1. SwapFiles' = SwapFiles
    BY <1>1 DEF SwapFiles
  <2>2. Walkers' = Walkers
    BY <1>1, <1>2, <1>5 DEF Walkers
  <2>3. QED
    BY <1>1, <1>2, <2>1, <2>2
<1>8. /\ Becomes(f, file[f].stage, file[f].reserved, file[f].shared,
                 file[f].owed, file[f].swap)
      /\ task'[t].at # "write"
  BY <1>1, <1>2, <1>5, FileStays
<1>9. QED
  BY <1>1, <1>2, <1>5, <1>6, <1>7, <1>8, FileFacts, TaskMove

LEMMA TaskPlainInv ==
  ASSUME IInv, NEW t \in Tasks,
         TaskUnlock(t) \/ NocowCheck(t) \/ NocowWrite(t) \/ Expand(t)
  PROVE  IInv'
<1> DEFINE f == task[t].file
<1>0. task[t].at \in {"unlock", "nocow", "write", "expand"}
  BY DEF TaskUnlock, NocowCheck, NocowWrite, Expand
<1>1. /\ inA = {} /\ inB \subseteq Tasks /\ f \in Files /\ SnapTypeOK
      /\ dead \in BOOLEAN /\ task[t].at # "walk" /\ t \in inB
      /\ \A u \in Tasks : u \in inB <=> task[u].at # "idle"
      /\ swapfiles = Cardinality(SwapFiles) + Cardinality(Walkers)
  BY <1>0, TaskFacts DEF IInv, SnapTypeOK
<1>2. /\ UNCHANGED <<inA, snap, todo, due, forceCow, swapfiles, dead>>
  BY DEF TaskUnlock, NocowCheck, NocowWrite, Expand, SnapshotLock!LeaveB
<1>3. PICK step \in {"idle", "unlock", "write"} : TaskTo(t, step)
  BY DEF TaskUnlock, NocowCheck, NocowWrite, Expand
<1>4. /\ task' \in [Tasks -> TaskRecord]
      /\ task'[t].at = step /\ task'[t].file = f
      /\ \A u \in Tasks : u # t => task'[u] = task[u]
  BY <1>1, <1>3, TaskMoved DEF TaskSteps
<1>5. Walkers' = Walkers
  BY <1>1, <1>4 DEF Walkers
<1> HIDE DEF f
<1>6. /\ inB' \subseteq Tasks
      /\ \A u \in Tasks : u \in inB' <=> task'[u].at # "idle"
  <2>1. CASE TaskUnlock(t)
    <3>1. inB' = inB \ {t} /\ TaskTo(t, "idle")
      BY <2>1 DEF TaskUnlock, SnapshotLock!LeaveB
    <3>2. task'[t].at = "idle"
      BY <1>1, <3>1, TaskMoved DEF TaskSteps
    <3>3. QED
      BY <1>1, <1>4, <3>1, <3>2
  <2>2. CASE NocowCheck(t) \/ NocowWrite(t) \/ Expand(t)
    <3>1. inB' = inB
      BY <2>2 DEF NocowCheck, NocowWrite, Expand
    <3>2. TaskTo(t, "unlock") \/ TaskTo(t, "write")
      BY <2>2 DEF NocowCheck, NocowWrite, Expand
    <3>3. task'[t].at # "idle"
      BY <1>1, <3>2, TaskMoved DEF TaskSteps
    <3>4. QED
      BY <1>1, <1>4, <3>1, <3>3
  <2>3. QED
    BY <2>1, <2>2
<1>7. task'[t].at = "write" => ~file[f].shared
  <2>1. CASE NocowCheck(t) /\ ~file[f].shared
    BY <2>1
  <2>2. CASE NocowCheck(t) /\ file[f].shared
    <3>1. TaskTo(t, "unlock")
      BY <2>2 DEF NocowCheck, f
    <3>2. QED
      BY <1>1, <3>1, TaskMoved DEF TaskSteps
  <2>3. CASE TaskUnlock(t) \/ NocowWrite(t) \/ Expand(t)
    <3>1. TaskTo(t, "unlock") \/ TaskTo(t, "idle")
      BY <2>3 DEF TaskUnlock, NocowWrite, Expand
    <3>2. QED
      BY <1>1, <3>1, TaskMoved DEF TaskSteps
  <2>4. QED
    BY <2>1, <2>2, <2>3
<1>8. ASSUME NEW st \in Stages, NEW r \in BOOLEAN, NEW o \in BOOLEAN,
             Becomes(f, st, r, file[f].shared, o, file[f].swap),
             st = "tocow" => r,
             st \in DelallocStages /\ ~r => ~file[f].shared,
             \A s \in Snapshotters : f \in due[s] \/ o \/ ~r
               => st \in DelallocStages \cup OrderedStages
      PROVE  IInv'
  <2>1. SwapFiles' = SwapFiles
    BY <1>1, <1>8 DEF SwapFiles, Becomes
  <2>2. swapfiles' = Cardinality(SwapFiles') + Cardinality(Walkers')
    BY <1>1, <1>2, <1>5, <2>1
  <2>3. file[f].swap \in BOOLEAN /\ (file[f].swap => ~file[f].shared)
    BY <1>1, FileFacts
  <2>4. QED
    BY <1>1, <1>2, <1>4, <1>6, <1>7, <1>8, <2>2, <2>3, TaskMove
<1>9. CASE UNCHANGED file
  <2>1. Becomes(f, file[f].stage, file[f].reserved, file[f].shared,
                file[f].owed, file[f].swap)
    BY <1>1, <1>9, FileStays
  <2>2. QED
    BY <1>1, <1>8, <2>1, FileFacts
<1>10. CASE task[t].at = "write" /\ Dirty(f, FALSE)
  <2>1. Becomes(f, "dirty", FALSE, file[f].shared, file[f].owed, file[f].swap)
    BY <1>1, <1>10, DirtyBecomes
  <2>2. ~file[f].shared
    BY <1>10 DEF IInv, NocowInv, f
  <2>3. "dirty" \in Stages /\ "dirty" \in DelallocStages
    BY DEF Stages, DelallocStages
  <2>4. QED
    BY <1>1, <1>8, <2>1, <2>2, <2>3, FileFacts
<1>11. ASSUME file' = [file EXCEPT ![f].owed = @ \/ f \in Pending]
       PROVE  IInv'
  <2> DEFINE o == file[f].owed \/ f \in Pending
  <2>1. o \in BOOLEAN /\ file' = [file EXCEPT ![f].owed = o]
    BY <1>1, <1>11, FileType
  <2>2. Becomes(f, file[f].stage, file[f].reserved, file[f].shared, o,
                file[f].swap)
    BY <1>1, <2>1, OwedBecomes
  <2>3. f \in Pending => file[f].stage \in DelallocStages \cup OrderedStages
    BY DEF Pending, Delalloc, Ordered, DelallocStages, OrderedStages
  <2>4. \A s \in Snapshotters : f \in due[s] \/ o \/ ~file[f].reserved
          => file[f].stage \in DelallocStages \cup OrderedStages
    BY <1>1, <2>3, FileFacts
  <2> HIDE DEF o
  <2>5. QED
    BY <1>1, <1>8, <2>1, <2>2, <2>4, FileFacts
<1>12. QED
  BY <1>9, <1>10, <1>11 DEF TaskUnlock, NocowCheck, NocowWrite, Expand, f

(* Swap files: one task at a time has an inode locked, and the inode of a  *)
(* swap file is not activated again.                                       *)
Active(t) == task[t].at \notin {"idle", "leaked"}

InodeInv ==
    /\ \A t, u \in Tasks :
         Active(t) /\ Active(u) /\ task[t].file = task[u].file => t = u
    /\ \A t \in Tasks :
         task[t].at \in {"swap", "walk"} => ~file[task[t].file].swap

LEMMA SwapCountInv ==
  ASSUME IInv, NEW t \in Tasks, SwapCount(t)
  PROVE  IInv'
<1> DEFINE f == task[t].file
<1>1. /\ inA = {} /\ inB \subseteq Tasks /\ f \in Files /\ SnapTypeOK
      /\ dead \in BOOLEAN /\ task[t].at = "swap" /\ t \in inB
      /\ \A u \in Tasks : u \in inB <=> task[u].at # "idle"
      /\ swapfiles = Cardinality(SwapFiles) + Cardinality(Walkers)
  BY TaskFacts DEF IInv, SnapTypeOK, SwapCount
<1>2. /\ UNCHANGED <<inA, inB, snap, todo, due, file, forceCow, dead>>
      /\ \/ TaskTo(t, "leaked") /\ swapfiles' = swapfiles
         \/ TaskTo(t, "walk") /\ swapfiles' = swapfiles + 1
  BY DEF SwapCount
<1> HIDE DEF f
<1>3. SwapFiles' = SwapFiles
  BY <1>2 DEF SwapFiles
<1>4. ASSUME NEW step \in {"leaked", "walk"}, TaskTo(t, step),
             swapfiles' = swapfiles + (IF step = "walk" THEN 1 ELSE 0)
      PROVE  IInv'
  <2>1. /\ task' \in [Tasks -> TaskRecord] /\ task'[t].at = step
        /\ \A u \in Tasks : u # t => task'[u] = task[u]
    BY <1>1, <1>4, TaskMoved DEF TaskSteps
  <2>2. Cardinality(Walkers') = Cardinality(Walkers)
          + (IF step = "walk" THEN 1 ELSE 0)
    BY <1>1, <2>1, WalkersChange, Finite
  <2>3. swapfiles' = Cardinality(SwapFiles') + Cardinality(Walkers')
    BY <1>1, <1>3, <1>4, <2>2, Finite
  <2>4. Becomes(f, file[f].stage, file[f].reserved, file[f].shared,
                file[f].owed, file[f].swap)
    BY <1>1, <1>2, FileStays
  <2>5. \A u \in Tasks : u \in inB' <=> task'[u].at # "idle"
    BY <1>1, <1>2, <2>1
  <2>6. QED
    BY <1>1, <1>2, <2>1, <2>3, <2>4, <2>5, FileFacts, TaskMove
<1>5. CASE TaskTo(t, "leaked") /\ swapfiles' = swapfiles
  <2>1. swapfiles' = swapfiles + (IF "leaked" = "walk" THEN 1 ELSE 0)
    BY <1>1, <1>5, Finite
  <2>2. QED
    BY <1>4, <1>5, <2>1
<1>6. CASE TaskTo(t, "walk") /\ swapfiles' = swapfiles + 1
  BY <1>4, <1>6
<1>7. QED
  BY <1>2, <1>5, <1>6

LEMMA SwapWalkInv ==
  ASSUME IInv, InodeInv, NEW t \in Tasks, SwapWalk(t)
  PROVE  IInv'
<1> DEFINE f == task[t].file
<1>1. /\ inA = {} /\ inB \subseteq Tasks /\ f \in Files /\ SnapTypeOK
      /\ dead \in BOOLEAN /\ task[t].at = "walk" /\ t \in inB
      /\ \A u \in Tasks : u \in inB <=> task[u].at # "idle"
      /\ swapfiles = Cardinality(SwapFiles) + Cardinality(Walkers)
  BY TaskFacts DEF IInv, SnapTypeOK, SwapWalk
<1>2. /\ UNCHANGED <<inA, inB, snap, todo, due, forceCow, dead>>
      /\ TaskTo(t, "unlock")
  BY DEF SwapWalk
<1>3. f \notin SwapFiles
  BY <1>1 DEF InodeInv, SwapFiles
<1>4. /\ task' \in [Tasks -> TaskRecord] /\ task'[t].at = "unlock"
      /\ \A u \in Tasks : u # t => task'[u] = task[u]
  BY <1>1, <1>2, TaskMoved DEF TaskSteps
<1>5. Cardinality(Walkers') = Cardinality(Walkers) - 1
  BY <1>1, <1>4, WalkersChange, Finite
<1>6. \A u \in Tasks : u \in inB' <=> task'[u].at # "idle"
  BY <1>1, <1>2, <1>4
<1>7. CASE /\ ~file[f].shared /\ swapfiles' = swapfiles
           /\ file' = [file EXCEPT ![f].swap = TRUE]
  <2> HIDE DEF f
  <2>0. PICK sw \in BOOLEAN : sw = TRUE
    OBVIOUS
  <2>1. Becomes(f, file[f].stage, file[f].reserved, file[f].shared,
                file[f].owed, sw)
    BY <1>1, <1>7, <2>0, SwapBecomes
  <2>2. SwapFiles' = SwapFiles \cup {f}
    BY <1>1, <2>0, <2>1 DEF SwapFiles, Becomes
  <2>3. Cardinality(SwapFiles') = Cardinality(SwapFiles) + 1
    BY <1>3, <2>2, Finite, FS_AddElement, Zenon
  <2>4. swapfiles' = Cardinality(SwapFiles') + Cardinality(Walkers')
    BY <1>1, <1>5, <1>7, <2>3, Finite
  <2>5. QED
    BY <1>1, <1>2, <1>4, <1>6, <1>7, <2>1, <2>4, FileFacts, TaskMove
<1>8. CASE swapfiles' = swapfiles - 1 /\ UNCHANGED file
  <2> HIDE DEF f
  <2>1. Becomes(f, file[f].stage, file[f].reserved, file[f].shared,
                file[f].owed, file[f].swap)
    BY <1>1, <1>8, FileStays
  <2>2. SwapFiles' = SwapFiles
    BY <1>8 DEF SwapFiles
  <2>3. swapfiles' = Cardinality(SwapFiles') + Cardinality(Walkers')
    BY <1>1, <1>5, <1>8, <2>2, Finite
  <2>4. QED
    BY <1>1, <1>2, <1>4, <1>6, <2>1, <2>3, FileFacts, TaskMove
<1>9. QED
  BY <1>7, <1>8 DEF SwapWalk

LEMMA SwapDeactivateInv ==
  ASSUME IInv, NEW f \in Files, SwapDeactivate(f)
  PROVE  IInv'
<1>0. /\ SnapTypeOK /\ Counts /\ Holders /\ SwapInv /\ NocowInv /\ OldInv
      /\ f \in SwapFiles
  BY DEF IInv, SwapDeactivate, SwapFiles
<1>1. /\ UNCHANGED <<inA, inB, snap, todo, due, task, forceCow, dead>>
      /\ swapfiles' = swapfiles - 1
      /\ file' = [file EXCEPT ![f].swap = FALSE]
  BY DEF SwapDeactivate
<1>2. Becomes(f, file[f].stage, file[f].reserved, file[f].shared,
              file[f].owed, FALSE)
  BY <1>0, <1>1, SwapBecomes
<1>3. SwapFiles' = SwapFiles \ {f}
  BY <1>2 DEF SwapFiles, Becomes
<1>4. Cardinality(SwapFiles') = Cardinality(SwapFiles) - 1
  BY <1>0, <1>3, Finite, FS_RemoveElement, Zenon
<1>5. Counts'
  <2>1. Forcing' = Forcing /\ Walkers' = Walkers
    BY <1>1 DEF Forcing, Walkers
  <2>2. QED
    BY <1>0, <1>1, <1>4, <2>1, Finite DEF Counts
<1>6. SnapTypeOK'
  <2>1. IsFiniteSet(SwapFiles') /\ IsFiniteSet(Walkers')
    BY SnapshotAssumption, FS_Subset, Zenon DEF SwapFiles, Walkers
  <2>2. swapfiles' \in Nat
    BY <1>5, <2>1, FS_CardinalityType DEF Counts
  <2>3. QED
    BY <1>0, <1>1, <1>2, <2>2 DEF SnapTypeOK, Becomes, Extent
<1>7. Holders'
  BY <1>0, <1>1 DEF Holders
<1>8. SwapInv'
  BY <1>0, <1>1, <1>2, <1>3 DEF SwapInv, SwapNotShared, Becomes
<1>9. NocowInv'
  <2>1. \A t \in Tasks : task[t].file \in Files
    BY <1>0 DEF SnapTypeOK
  <2>2. QED
    BY <1>0, <1>1, <1>2, <2>1 DEF NocowInv, CowIsReserved, Delalloc, Becomes
<1>10. OldInv'
  <2>1. \A s \in Snapshotters : Old(s)' = Old(s)
    BY <1>1, <1>2 DEF Old, Becomes
  <2>2. Delalloc' = Delalloc /\ Pending' = Pending
    BY <1>2 DEF Pending, Delalloc, Ordered, Becomes
  <2>3. QED
    BY <1>0, <1>1, <2>1, <2>2 DEF OldInv
<1>11. QED
  BY <1>5, <1>6, <1>7, <1>8, <1>9, <1>10 DEF IInv

LEMMA DeleteInv ==
  ASSUME IInv, DeleteSubvolume \/ DeleteFailed
  PROVE  IInv'
<1>1. /\ UNCHANGED <<inA, inB, snap, todo, due, task, file, forceCow, swapfiles>>
      /\ dead' \in BOOLEAN
  BY DEF DeleteSubvolume, DeleteFailed
<1>2. SnapTypeOK'
  BY <1>1 DEF IInv, SnapTypeOK
<1>3. Counts' /\ Holders' /\ SwapInv' /\ NocowInv' /\ OldInv'
  BY <1>1 DEF IInv, Counts, Forcing, SwapFiles, Walkers, Holders, SwapInv,
     SwapNotShared, NocowInv, CowIsReserved, OldInv, Old, Pending, Delalloc,
     Ordered
<1>4. QED
  BY <1>2, <1>3 DEF IInv

-----------------------------------------------------------------------------
(* Locked inodes. *)
LEMMA InodeStay ==
  ASSUME SnapTypeOK, InodeInv, UNCHANGED task,
         \A f \in Files : file'[f].swap => file[f].swap
  PROVE  InodeInv'
  BY DEF InodeInv, Active, SnapTypeOK

LEMMA InodeData ==
  ASSUME IInv, InodeInv, NEW f \in Files,
         \/ WriteReserved(f) \/ Writeback(f) \/ FinishOrdered(f)
         \/ WritebackError(f) \/ SwapDeactivate(f)
  PROVE  InodeInv'
<1>0. SnapTypeOK /\ file[f].shared \in BOOLEAN
  BY FileType DEF IInv, Extent
<1>1. UNCHANGED task
  BY DEF WriteReserved, Writeback, FinishOrdered, WritebackError,
     SwapDeactivate, Settle
<1>2. CASE WriteReserved(f)
  <2>1. Becomes(f, "dirty", TRUE, file[f].shared, file[f].owed, file[f].swap)
    BY <1>0, <1>2, DirtyBecomes DEF WriteReserved
  <2>2. QED
    BY <1>0, <1>1, <2>1, InodeStay DEF Becomes
<1>3. CASE Writeback(f)
  <2>1. ASSUME NEW st \in Stages, SetStage(f, st) PROVE InodeInv'
    BY <1>0, <1>1, <2>1, StageBecomes, InodeStay DEF Becomes
  <2>2. CASE FallbackToCow(f)
    <3>1. Becomes(f, "cow", TRUE, file[f].shared, file[f].owed, file[f].swap)
      BY <1>0, <2>2, CowBecomes
    <3>2. QED
      BY <1>0, <1>1, <3>1, InodeStay DEF Becomes
  <2>3. QED
    BY <1>3, <2>1, <2>2 DEF Writeback, StartWriteback, CheckForceCow,
       AddOrderedExtent, Stages
<1>4. ASSUME NEW sh \in BOOLEAN, Settle(f, sh) PROVE InodeInv'
  BY <1>0, <1>1, <1>4, SettleBecomes, InodeStay DEF Becomes
<1>5. CASE SwapDeactivate(f)
  <2>1. Becomes(f, file[f].stage, file[f].reserved, file[f].shared,
                file[f].owed, FALSE)
    BY <1>0, <1>5, SwapBecomes DEF SwapDeactivate
  <2>2. QED
    BY <1>0, <1>1, <2>1, InodeStay DEF Becomes
<1>6. CASE FinishOrdered(f)
  <2>1. PICK replaced \in BOOLEAN : Settle(f, file[f].shared /\ ~replaced)
    BY <1>6 DEF FinishOrdered
  <2>2. QED
    BY <1>0, <1>4, <2>1
<1>7. QED
  BY <1>0, <1>2, <1>3, <1>4, <1>5, <1>6 DEF WritebackError

LEMMA InodeSnap ==
  ASSUME IInv, InodeInv, NEW s \in Snapshotters,
         SnapStep(s) \/ SnapCall(s) \/ FlushFailed(s) \/ CreateFailed(s)
  PROVE  InodeInv'
<1>1. UNCHANGED task
  BY DEF SnapStep, SnapCall, FlushFailed, CreateFailed, SnapLock,
     StartDelalloc, ForceCow, WaitOrdered, CreateSnapshot, Capture,
     UnforceCow, SnapUnlock, Flushed, OrderedWaited
<1>2. \A f \in Files : file'[f].swap = file[f].swap
  <2>1. CASE Capture(s)
    <3>1. \A f \in Files : /\ file[f] \in Extent
                           /\ file'[f] = [file[f] EXCEPT !.shared = TRUE]
      BY <2>1, FileType DEF IInv, Capture
    <3>2. QED
      BY <3>1 DEF Extent
  <2>2. CASE UNCHANGED file
    BY <2>2
  <2>3. QED
    BY <2>1, <2>2 DEF SnapStep, SnapCall, FlushFailed, CreateFailed, SnapLock,
     StartDelalloc, ForceCow, WaitOrdered, CreateSnapshot, UnforceCow,
     SnapUnlock, Flushed, OrderedWaited
<1>3. QED
  BY <1>1, <1>2, InodeStay DEF IInv

LEMMA InodeLocks ==
  ASSUME IInv, InodeInv, NEW t \in Tasks, NEW op \in Operations,
         NEW f \in Files, TaskLock(t, op, f)
  PROVE  InodeInv'
<1> DEFINE e == [at |-> op, file |-> f]
<1>1. /\ ~file[f].swap /\ UNCHANGED file
      /\ \A u \in Tasks : task[u].file = f => ~Active(u)
  BY DEF TaskLock, InodeLocked, Active
<1>2. task \in [Tasks -> TaskRecord] /\ task' = [task EXCEPT ![t] = e]
  BY DEF IInv, SnapTypeOK, TaskRecord, TaskLock
<1>3. e.file = f
  OBVIOUS
<1> HIDE DEF e
<1>4. task'[t].file = f /\ \A u \in Tasks : u # t => task'[u] = task[u]
  BY <1>2, <1>3
<1>5. QED
  BY <1>1, <1>4 DEF InodeInv, Active

LEMMA InodeTask ==
  ASSUME IInv, InodeInv, NEW t \in Tasks, TaskStep(t)
  PROVE  InodeInv'
<1> DEFINE f == task[t].file
<1>0. SnapTypeOK /\ f \in Files /\ Active(t)
  BY DEF IInv, SnapTypeOK, Active, TaskStep, TaskUnlock, NocowCheck,
     NocowWrite, Expand, SwapCount, SwapWalk
<1>1. PICK step \in {"idle", "unlock", "write", "leaked", "walk"} :
        /\ TaskTo(t, step)
        /\ step = "walk" => task[t].at = "swap"
  BY DEF TaskStep, TaskUnlock, NocowCheck, NocowWrite, Expand, SwapCount,
     SwapWalk
<1>2. /\ task'[t].at = step /\ task'[t].file = f
      /\ \A u \in Tasks : u # t => task'[u] = task[u]
  BY <1>0, <1>1, TaskMoved DEF TaskSteps
<1>3. ASSUME NEW g \in Files, file'[g].swap, ~file[g].swap
      PROVE  g = f /\ task'[t].at = "unlock"
  <2>1. CASE SwapWalk(t)
    <3>1. TaskTo(t, "unlock") /\ (file' = [file EXCEPT ![f].swap = TRUE]
                                  \/ UNCHANGED file)
      BY <2>1 DEF SwapWalk
    <3>2. task'[t].at = "unlock"
      BY <1>0, <3>1, TaskMoved DEF TaskSteps
    <3> HIDE DEF f
    <3>3. CASE file' = [file EXCEPT ![f].swap = TRUE]
      <4>1. g # f => file'[g] = file[g]
        BY <1>0, <3>3, SwapBecomes DEF Becomes
      <4>2. QED
        BY <1>3, <3>2, <4>1
    <3>4. QED
      BY <1>3, <3>1, <3>3
  <2>2. CASE NocowWrite(t) /\ Dirty(f, FALSE)
    <3> HIDE DEF f
    <3>1. file'[g].swap = file[g].swap
      BY <1>0, <2>2, DirtyBecomes DEF Becomes
    <3>2. QED
      BY <1>3, <3>1
  <2>3. CASE file' = [file EXCEPT ![f].owed = @ \/ f \in Pending]
    <3>1. file[f].owed \in BOOLEAN
      BY <1>0, FileType DEF Extent
    <3> DEFINE o == file[f].owed \/ f \in Pending
    <3>2. o \in BOOLEAN /\ file' = [file EXCEPT ![f].owed = o]
      BY <2>3, <3>1
    <3> HIDE DEF f, o
    <3>3. file'[g].swap = file[g].swap
      BY <1>0, <3>2, OwedBecomes DEF Becomes
    <3>4. QED
      BY <1>3, <3>3
  <2>4. CASE UNCHANGED file
    BY <1>3, <2>4
  <2>5. QED
    BY <2>1, <2>2, <2>3, <2>4 DEF TaskStep, TaskUnlock, NocowCheck,
       NocowWrite, Expand, SwapCount
<1> HIDE DEF f
<1>4. Active(t)' => Active(t)
  BY <1>0
<1>5. \A u \in Tasks : u # t => Active(u)' = Active(u)
  BY <1>2 DEF Active
<1>6. \A u \in Tasks : task[u].file \in Files
  BY <1>0 DEF SnapTypeOK
<1>7. \A u \in Tasks : task'[u].file = task[u].file
  BY <1>2 DEF f
<1>8. ASSUME NEW u \in Tasks, task'[u].at \in {"swap", "walk"}
      PROVE  ~file'[task'[u].file].swap
  <2>1. task[u].at \in {"swap", "walk"}
    BY <1>1, <1>2, <1>8
  <2>2. ~file[task[u].file].swap
    BY <2>1 DEF InodeInv
  <2>3. CASE u = t
    BY <1>2, <1>3, <1>6, <1>7, <1>8, <2>2, <2>3
  <2>4. CASE u # t
    <3>1. task[u].file # f
      BY <1>0, <2>1, <2>4 DEF InodeInv, Active, f
    <3>2. QED
      BY <1>3, <1>6, <1>7, <2>2, <3>1
  <2>5. QED
    BY <2>3, <2>4
<1>9. QED
  BY <1>0, <1>5, <1>7, <1>8 DEF InodeInv

-----------------------------------------------------------------------------
LEMMA InitInv == SnapInit => IInv /\ InodeInv
<1> SUFFICES ASSUME SnapInit PROVE IInv /\ InodeInv
  OBVIOUS
<1>1. /\ inA = {} /\ inB = {} /\ forceCow = 0 /\ swapfiles = 0
      /\ \A s \in Snapshotters : snap[s] = "idle" /\ due[s] = {}
      /\ \A t \in Tasks : task[t].at = "idle"
      /\ file = [f \in Files |-> CleanFile]
  BY DEF SnapInit, SnapshotLock!Init, NoTask
<1>2. CleanFile \in Extent
  BY DEF CleanFile, Extent, Stages
<1>3. /\ file \in [Files -> Extent]
      /\ \A f \in Files : /\ file[f].stage = "clean" /\ file[f].reserved
                          /\ ~file[f].shared /\ ~file[f].owed /\ ~file[f].swap
  BY <1>1, <1>2 DEF CleanFile
<1>4. SnapTypeOK
  <2>1. NoTask \in TaskRecord
    BY SnapshotAssumption DEF NoTask, TaskRecord, TaskSteps
  <2>2. task \in [Tasks -> TaskRecord]
    BY <2>1 DEF SnapInit
  <2>3. /\ snap \in [Snapshotters -> SnapSteps]
        /\ todo \in [Snapshotters -> SUBSET Files]
        /\ due \in [Snapshotters -> SUBSET Files]
    BY DEF SnapInit, SnapSteps
  <2>4. dead \in BOOLEAN
    BY DEF SnapInit
  <2>5. QED
    BY <1>1, <1>3, <2>2, <2>3, <2>4 DEF SnapTypeOK, Extent, TaskRecord
<1>5. Counts
  <2>1. Forcing = {} /\ SwapFiles = {} /\ Walkers = {}
    BY <1>1, <1>3 DEF Forcing, ForcePhase, SwapFiles, Walkers
  <2>2. QED
    BY <1>1, <2>1, FS_EmptySet DEF Counts
<1>6. Holders
  BY <1>1 DEF Holders
<1>7. SwapInv /\ NocowInv
  BY <1>1, <1>3 DEF SwapInv, SwapNotShared, NocowInv, CowIsReserved, Delalloc
<1>8. OldInv
  BY <1>1, <1>3 DEF OldInv, Old, ForcePhase
<1>9. InodeInv
  BY <1>1 DEF InodeInv, Active
<1>10. QED
  BY <1>4, <1>5, <1>6, <1>7, <1>8, <1>9 DEF IInv

LEMMA NextInv == IInv /\ InodeInv /\ [SnapNext]_vars => IInv' /\ InodeInv'
<1> SUFFICES ASSUME IInv, InodeInv, [SnapNext]_vars PROVE IInv' /\ InodeInv'
  OBVIOUS
<1>1. ASSUME NEW f \in Files,
             \/ WriteReserved(f) \/ Writeback(f) \/ FinishOrdered(f)
             \/ WritebackError(f) \/ SwapDeactivate(f)
      PROVE  IInv' /\ InodeInv'
  BY <1>1, DataInv, SwapDeactivateInv, InodeData
<1>2. ASSUME NEW t \in Tasks, TaskStep(t)
      PROVE  IInv' /\ InodeInv'
  <2>1. IInv'
    BY <1>2, TaskPlainInv, SwapCountInv, SwapWalkInv DEF TaskStep
  <2>2. QED
    BY <1>2, <2>1, InodeTask
<1>3. ASSUME NEW t \in Tasks, NEW op \in Operations, NEW f \in Files,
             TaskLock(t, op, f)
      PROVE  IInv' /\ InodeInv'
  BY <1>3, TaskLockInv, InodeLocks
<1>4. ASSUME NEW s \in Snapshotters,
             SnapStep(s) \/ SnapCall(s) \/ FlushFailed(s) \/ CreateFailed(s)
      PROVE  IInv' /\ InodeInv'
  <2>1. IInv'
    BY <1>4, SnapEdgeInv, FlushInv, WaitInv, CaptureInv DEF SnapStep
  <2>2. QED
    BY <1>4, <2>1, InodeSnap
<1>5. CASE DeleteSubvolume \/ DeleteFailed
  <2>1. UNCHANGED <<task, file>> /\ SnapTypeOK
    BY <1>5 DEF DeleteSubvolume, DeleteFailed, IInv
  <2>2. QED
    BY <1>5, <2>1, DeleteInv, InodeStay
<1>6. CASE UNCHANGED vars
  BY <1>6 DEF vars, IInv, SnapTypeOK, Counts, Forcing, SwapFiles, Walkers,
     Holders, SwapInv, SwapNotShared, NocowInv, CowIsReserved, OldInv, Old,
     Pending, Delalloc, Ordered, InodeInv, Active
<1>7. QED
  BY <1>1, <1>2, <1>3, <1>4, <1>5, <1>6 DEF SnapNext

(* The inductive invariant. *)
THEOREM SnapInvariant == SnapSpec => [](IInv /\ InodeInv)
<1>1. QED
  BY InitInv, NextInv, PTL DEF SnapSpec

(* Types; snapshot_force_cow and nr_swapfiles never go negative, whichever *)
(* error paths of btrfs_mksnapshot() and btrfs_swap_activate() are taken.  *)
THEOREM SnapTypeCorrect == SnapSpec => []SnapTypeOK
<1>1. IInv => SnapTypeOK
  BY DEF IInv
<1>2. QED
  BY <1>1, SnapInvariant, PTL

(* No snapshot ever shares the extents of an active swap file: the check   *)
(* of nr_swapfiles in create_snapshot() and the lock that                  *)
(* btrfs_swap_activate() takes are enough together.                        *)
THEOREM SwapfilesNotShared == SnapSpec => []SwapNotShared
<1>1. IInv => SwapNotShared
  BY DEF IInv, SwapInv
<1>2. QED
  BY <1>1, SnapInvariant, PTL

(* Data that btrfs_buffered_write() took without a reservation of space    *)
(* never falls back to COW because of a snapshot: btrfs_mksnapshot()       *)
(* flushes it before it raises snapshot_force_cow, and keeps such writers  *)
(* out.  What is left is the block group that is read-only at writeback.   *)
THEOREM NocowIsReserved == SnapSpec => []CowIsReserved
<1>1. IInv => CowIsReserved
  BY DEF IInv, NocowInv
<1>2. QED
  BY <1>1, SnapInvariant, PTL

(* When the commit captures the subvolume nothing is old any more. *)
LEMMA CaptureNothingOld ==
  ASSUME IInv, NEW s \in Snapshotters, Captures(s)
  PROVE  due[s] = {} /\ \A f \in Files : ~file[f].owed
<1>1. Old(s) = {}
  BY DEF IInv, OldInv, Captures
<1>2. QED
  BY <1>1 DEF Old

(* A snapshot holds every write that was made before the call. *)
THEOREM EarlierWritesCaptured == SnapSpec => SnapshotHasEarlierWrites
<1>1. IInv => [\A s \in Snapshotters : Captures(s) => due[s] = {}]_vars
  BY CaptureNothingOld
<1>2. QED
  BY <1>1, SnapInvariant, PTL DEF SnapshotHasEarlierWrites

(* A snapshot that holds an expanding truncate holds the writes made       *)
(* before it.                                                              *)
THEOREM TruncatedWritesCaptured == SnapSpec => SnapshotHasTruncatedWrites
<1>1. IInv => [\A s \in Snapshotters :
                 Captures(s) => \A f \in Files : ~file[f].owed]_vars
  BY CaptureNothingOld
<1>2. QED
  BY <1>1, SnapInvariant, PTL DEF SnapshotHasTruncatedWrites
=============================================================================
