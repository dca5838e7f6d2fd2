--------------------------- MODULE MfsMountProofs ---------------------------
(***************************************************************************)
(* Mounting and unmounting, for any tasks, any number of partitions and of *)
(* mounts: types; that the array of fs_infos is right and nothing is left  *)
(* behind as long as no mounts overlap and at most the opening of          *)
(* partition 0 fails; and, for two tasks that may overlap and fail         *)
(* anywhere, that no fs_info in use is freed (the invariant is in          *)
(* MfsMountOverlap).                                                       *)
(*                                                                         *)
(* In a run without overlap at most one task is in btrfs_mount_root or     *)
(* btrfs_kill_super.  Mounting says what it has done of a mount, Killing   *)
(* of a teardown, and Rest what is there when no task is in either.        *)
(***************************************************************************)
EXTENDS MfsMountOverlap, TLAPS

(* Entry q of the array is the fs_info of mount m, which knows its super   *)
(* block.                                                                  *)
Settled(m, q) ==
  /\ list[q] = Id(m, q)
  /\ info[Id(m, q)].state = "live" /\ info[Id(m, q)].sb = Id(m, q)

(* The super block of partition q of mount m is there, with its root. *)
Ready(m, q) ==
  /\ Settled(m, q)
  /\ Alive(Id(m, q)) /\ super[Id(m, q)].root
  /\ super[Id(m, q)].info = Id(m, q)

Mounting(t) ==
  LET m == task[t].mount  p == task[t].part IN
  task[t].pc \in {"alloc", "open", "sget", "fill"} =>
    /\ m \in 1 .. MaxMounts
    /\ \A q \in Partitions : q > p => Ready(m, q)
    /\ \A s \in Ids : Alive(s) =>
         /\ s[1] = m
         /\ s[2] > p \/ (task[t].pc = "fill" /\ s[2] = p)
    /\ task[t].pc # "alloc" =>
         list[p] = Id(m, p) /\ info[Id(m, p)].state = "live"
    /\ task[t].pc = "fill" => /\ Alive(Id(m, p))
                              /\ super[Id(m, p)].info = Id(m, p)

Killing(t) ==
  LET m == task[t].sb[1]  c == task[t].cur IN
  task[t].pc \in {"compare", "umount"} =>
    /\ task[t].sb \in Ids /\ task[t].sb[2] = 0
    /\ Alive(task[t].sb)
    /\ \A q \in Partitions : Settled(m, q)
    /\ \A s \in Ids : Alive(s) => s[1] = m
    /\ c = 0 => \A q \in Partitions :
         task[t].pc = "compare" \/ q <= task[t].part => Alive(Id(m, q))
    /\ task[t].pc = "umount" =>
         /\ c = 0
         /\ \A s \in Ids : Alive(s) => s[2] <= task[t].part
    /\ c > 0 => \A s \in Ids : Alive(s) => s = task[t].sb

Busy(t) == task[t].pc # "idle"

Whole ==
  \A s \in Ids : Alive(s) =>
    /\ super[Id(s[1], 0)].state = "free"
    /\ super[s].state = "free" => s[2] = 0
    /\ \A q \in Partitions : Ready(s[1], q)

Rest == (\A t \in Tasks : ~Busy(t)) => Whole

NoneFree == \A s \in Ids : super[s].state # "free"

OrderlyInv ==
  /\ \A t, u \in Tasks : Busy(t) /\ Busy(u) => t = u
  /\ \A t \in Tasks : /\ task[t].pc # "oops"
                      /\ Mounting(t) /\ Killing(t)
                      /\ Busy(t) => NoneFree
  /\ Rest

(* A task in btrfs_mount_root has the number of a mount, one in            *)
(* btrfs_umount_multiple came there from an entry of the array.            *)
Numbered(r) ==
  /\ r.pc \in {"alloc", "open", "sget", "fill"} => r.mount # 0
  /\ r.pc = "umount" => r.cur < Parts

TypeInv == MountTypeOK /\ \A t \in Tasks : Numbered(task[t])

IInv == TypeInv /\ (Orderly => OrderlyInv)

-----------------------------------------------------------------------------
(***************************************************************************)
(* Types                                                                   *)
(***************************************************************************)
Infos  == [state : {"none", "live", "freed"}, sb : Ids \cup {None},
           devices : BOOLEAN]
Supers == [state : {"none", "locked", "free", "dead"}, root : BOOLEAN,
           info : Ids \cup {None}]
Places == {"idle", "alloc", "open", "sget", "fill", "compare", "umount",
           "oops"}
TaskRecords == [pc : Places, mount : 0 .. MaxMounts, part : Partitions,
                sb : Ids \cup {None}, cur : 0 .. Parts]

LEMMA Facts ==
  /\ Parts \in Nat /\ Parts > 1 /\ Last \in Partitions /\ 0 \in Partitions
  /\ MaxMounts \in Nat /\ Last > 0 /\ 0 \in 0 .. Parts /\ 0 \in 0 .. MaxMounts
  /\ None \notin Ids
  /\ \A q \in Partitions : q \in Nat /\ q <= Last /\ q < Parts /\ q \in 0 .. Parts
  /\ \A s \in Ids : /\ s = Id(s[1], s[2])
                     /\ s[1] \in 1 .. MaxMounts /\ s[2] \in Partitions
  /\ \A m \in 1 .. MaxMounts, q \in Partitions :
        Id(m, q) \in Ids /\ Id(m, q)[1] = m /\ Id(m, q)[2] = q
  BY MountAssumption DEF Partitions, Last, Ids, Id

LEMMA TypeFacts ==
  ASSUME TypeInv
  PROVE  /\ list \in [Partitions -> Ids \cup {None}]
         /\ \A p \in Partitions : list[p] # None => list[p][2] = p
         /\ info \in [Ids -> Infos] /\ super \in [Ids -> Supers]
         /\ task \in [Tasks -> TaskRecords]
         /\ mounts \in 0 .. MaxMounts
  BY DEF TypeInv, MountTypeOK, Infos, Supers, TaskRecords, Places

(* What each kind of change leaves of the types. *)
TaskType(t) == /\ task' \in [Tasks -> TaskRecords]
               /\ \A u \in Tasks : Numbered(task'[u])

LEMMA TaskMoves ==
  ASSUME TypeInv, NEW t \in Tasks, NEW r \in TaskRecords, Numbered(r),
         task' = [task EXCEPT ![t] = r]
  PROVE  TaskType(t)
  <1>1. task' \in [Tasks -> TaskRecords]
    BY TypeFacts
  <1>2. ASSUME NEW u \in Tasks
        PROVE  Numbered(task'[u])
    <2>1. CASE u = t
      BY <2>1, TypeFacts
    <2>2. CASE u # t
      BY <2>2, TypeFacts DEF TypeInv
    <2>3. QED BY <2>1, <2>2
  <1>3. QED BY <1>1, <1>2 DEF TaskType

LEMMA IdleTask ==
  /\ Idle \in TaskRecords /\ Idle.pc = "idle" /\ Numbered(Idle)
  /\ \A s \in Ids : LET r == [Idle EXCEPT !.pc = "compare", !.sb = s] IN
       r \in TaskRecords /\ Numbered(r)
  BY Facts DEF Idle, TaskRecords, Places, Numbered

LEMMA GotoType ==
  ASSUME TypeInv, NEW t \in Tasks, NEW pc \in Places \ {"umount"}, Goto(t, pc),
         pc \in {"alloc", "open", "sget", "fill"} => task[t].mount # 0
  PROVE  TaskType(t)
  <1> DEFINE r == [task[t] EXCEPT !.pc = pc]
  <1>1. r \in TaskRecords /\ Numbered(r)
    BY TypeFacts DEF TaskRecords, Numbered
  <1>2. task' = [task EXCEPT ![t] = r]
    BY TypeFacts DEF Goto, TaskRecords
  <1> HIDE DEF r
  <1>3. QED BY <1>1, <1>2, TaskMoves

LEMMA ReturnType ==
  ASSUME TypeInv, NEW t \in Tasks, Return(t)
  PROVE  TaskType(t)
  BY IdleTask, TaskMoves DEF Return

LEMMA KillType ==
  ASSUME TypeInv, NEW t \in Tasks, NEW s \in Ids, KillSuper(t, s)
  PROVE  TaskType(t)
  BY IdleTask, TaskMoves DEF KillSuper

LEMMA TaskAt ==
  ASSUME TypeInv, NEW t \in Tasks
  PROVE  /\ task[t] \in TaskRecords
         /\ task[t].part \in Partitions
         /\ task[t].pc \in {"alloc", "open", "sget", "fill"} =>
              /\ task[t].mount \in 1 .. MaxMounts
              /\ Id(task[t].mount, task[t].part) \in Ids
         /\ \A p \in Partitions : ~Stale(p) => list[p] \in Ids
  <1>1. task[t] \in TaskRecords /\ task[t].part \in Partitions
    BY TypeFacts DEF TaskRecords
  <1>2. task[t].pc \in {"alloc", "open", "sget", "fill"} =>
              task[t].mount \in 1 .. MaxMounts
    BY <1>1, Facts DEF TypeInv, Numbered, TaskRecords
  <1>3. QED BY <1>1, <1>2, TypeFacts, Facts DEF Stale

(* Everything but task. *)
RestType ==
  /\ list' \in [Partitions -> Ids \cup {None}]
  /\ \A p \in Partitions : list'[p] # None => list'[p][2] = p
  /\ info' \in [Ids -> Infos] /\ super' \in [Ids -> Supers]
  /\ mounts' \in 0 .. MaxMounts
  /\ failed' \subseteq {"alloc", "open", "bdi", "fill"} \X Partitions
  /\ overlapped' \in BOOLEAN

LEMMA TypesKept ==
  ASSUME NEW t, TaskType(t), RestType
  PROVE  TypeInv'
  BY DEF TaskType, RestType, TypeInv, MountTypeOK, Infos, Supers,
         TaskRecords, Places

LEMMA Failures ==
  ASSUME TypeInv, NEW w \in {"alloc", "open", "bdi", "fill"},
         NEW p \in Partitions, Failure(w, p)
  PROVE  failed' \subseteq {"alloc", "open", "bdi", "fill"} \X Partitions
  BY DEF Failure, TypeInv, MountTypeOK

LEMMA Unmoved ==
  ASSUME TypeInv
  PROVE  /\ UNCHANGED list =>
              /\ list' \in [Partitions -> Ids \cup {None}]
              /\ \A p \in Partitions : list'[p] # None => list'[p][2] = p
         /\ UNCHANGED info => info' \in [Ids -> Infos]
         /\ UNCHANGED super => super' \in [Ids -> Supers]
         /\ UNCHANGED mounts => mounts' \in 0 .. MaxMounts
         /\ UNCHANGED failed =>
              failed' \subseteq {"alloc", "open", "bdi", "fill"} \X Partitions
         /\ UNCHANGED overlapped => overlapped' \in BOOLEAN
  BY TypeFacts DEF TypeInv, MountTypeOK

(* A field of an fs_info or of a super block, wherever it is. *)
LEMMA FieldType ==
  ASSUME TypeInv, NEW i
  PROVE  /\ \A x \in {"none", "live", "freed"} :
              [info EXCEPT ![i].state = x] \in [Ids -> Infos]
         /\ \A x \in BOOLEAN : [info EXCEPT ![i].devices = x] \in [Ids -> Infos]
         /\ \A x \in Ids : [info EXCEPT ![i].sb = x] \in [Ids -> Infos]
         /\ \A x \in {"none", "locked", "free", "dead"} :
              [super EXCEPT ![i].state = x] \in [Ids -> Supers]
         /\ \A x \in BOOLEAN : [super EXCEPT ![i].root = x] \in [Ids -> Supers]
  <1>1. info \in [Ids -> Infos] /\ super \in [Ids -> Supers]
    BY TypeFacts
  <1>2. \A r \in Infos :
          /\ \A x \in {"none", "live", "freed"} : [r EXCEPT !.state = x] \in Infos
          /\ \A x \in BOOLEAN : [r EXCEPT !.devices = x] \in Infos
          /\ \A x \in Ids : [r EXCEPT !.sb = x] \in Infos
    BY DEF Infos
  <1>3. \A r \in Supers :
          /\ \A x \in {"none", "locked", "free", "dead"} :
               [r EXCEPT !.state = x] \in Supers
          /\ \A x \in BOOLEAN : [r EXCEPT !.root = x] \in Supers
    BY DEF Supers
  <1>4. QED BY <1>1, <1>2, <1>3

LEMMA OopsType ==
  ASSUME TypeInv, NEW t \in Tasks, Oops(t),
         mounts' \in 0 .. MaxMounts, overlapped' \in BOOLEAN,
         failed' \subseteq {"alloc", "open", "bdi", "fill"} \X Partitions
  PROVE  TypeInv'
  <1>1. TaskType(t)
    BY GotoType DEF Oops, Places
  <1>2. RestType
    BY Unmoved DEF Oops, RestType
  <1>3. QED BY <1>1, <1>2, TypesKept

LEMMA MountCallType ==
  ASSUME TypeInv, NEW t \in Tasks, MountCall(t)
  PROVE  TypeInv'
  <1> DEFINE r == [Idle EXCEPT !.pc = "alloc", !.mount = mounts + 1,
                               !.part = Last]
  <1>1. mounts + 1 \in 1 .. MaxMounts /\ mounts' = mounts + 1
    BY TypeFacts, Facts DEF MountCall
  <1>2. r \in TaskRecords /\ Numbered(r)
    <2>1. mounts + 1 \in 0 .. MaxMounts /\ mounts + 1 # 0
      BY <1>1, Facts
    <2>2. QED BY <2>1, Facts DEF Idle, TaskRecords, Places, Numbered
  <1>3. task' = [task EXCEPT ![t] = r]
    BY DEF MountCall
  <1>4. overlapped' \in BOOLEAN
    BY DEF MountCall, TypeInv, MountTypeOK
  <1>5. RestType
    <2>1. UNCHANGED <<list, info, super, failed>>
      BY DEF MountCall
    <2>2. mounts' \in 0 .. MaxMounts
      BY <1>1, Facts
    <2>3. QED BY <2>1, <2>2, <1>4, Unmoved DEF RestType
  <1> HIDE DEF r
  <1>6. TaskType(t)
    BY <1>2, <1>3, TaskMoves
  <1>7. QED BY <1>5, <1>6, TypesKept

LEMMA AllocType ==
  ASSUME TypeInv, NEW t \in Tasks, Alloc(t)
  PROVE  TypeInv'
  <1> DEFINE i == <<task[t].mount, task[t].part>>
  <1>1. i \in Ids /\ i[2] = task[t].part /\ task[t].part \in Partitions
        /\ task[t].mount # 0
    BY TaskAt, Facts DEF Alloc, Id
  <1>2. /\ list' = [list EXCEPT ![task[t].part] = i]
        /\ info' = [info EXCEPT ![i].state = "live"]
        /\ Goto(t, "open") /\ UNCHANGED <<super, mounts, failed, overlapped>>
    BY DEF Alloc
  <1> HIDE DEF i
  <1>3. TaskType(t)
    BY <1>1, <1>2, GotoType DEF Places
  <1>4. info' \in [Ids -> Infos]
    BY <1>2, FieldType
  <1>5. /\ list' \in [Partitions -> Ids \cup {None}]
        /\ \A p \in Partitions : list'[p] # None => list'[p][2] = p
    BY <1>1, <1>2, TypeFacts
  <1>6. RestType
    BY <1>2, <1>4, <1>5, Unmoved DEF RestType
  <1>7. QED BY <1>3, <1>6, TypesKept

LEMMA AllocFailsType ==
  ASSUME TypeInv, NEW t \in Tasks, AllocFails(t)
  PROVE  TypeInv'
  <1>1. task[t].part \in Partitions
    BY TaskAt
  <1>2. /\ list' = [list EXCEPT ![task[t].part] = None]
        /\ Failure("alloc", task[t].part)
        /\ Return(t) /\ UNCHANGED <<info, super, mounts, overlapped>>
    BY DEF AllocFails
  <1>3. TaskType(t)
    BY <1>2, ReturnType
  <1>4. /\ list' \in [Partitions -> Ids \cup {None}]
        /\ \A p \in Partitions : list'[p] # None => list'[p][2] = p
    BY <1>1, <1>2, TypeFacts
  <1>5. failed' \subseteq {"alloc", "open", "bdi", "fill"} \X Partitions
    BY <1>1, <1>2, Failures
  <1>6. RestType
    BY <1>2, <1>4, <1>5, Unmoved DEF RestType
  <1>7. QED BY <1>3, <1>6, TypesKept

LEMMA OpenType ==
  ASSUME TypeInv, NEW t \in Tasks, OpenDevices(t) \/ OpenFails(t)
  PROVE  TypeInv'
  <1> DEFINE p == task[t].part
  <1>1. p \in Partitions /\ task[t].mount # 0
    BY TaskAt, Facts DEF OpenDevices, OpenFails
  <1>2. CASE OpenFails(t)
    <2>1. failed' \subseteq {"alloc", "open", "bdi", "fill"} \X Partitions
      BY <1>1, <1>2, Failures DEF OpenFails
    <2>2. QED BY <1>2, <2>1, OopsType, Unmoved DEF OpenFails
  <1>3. CASE OpenDevices(t) /\ Stale(p)
    BY <1>3, OopsType, Unmoved DEF OpenDevices
  <1>4. CASE OpenDevices(t) /\ ~Stale(p)
    <2>1. /\ info' = [info EXCEPT ![list[p]].devices = TRUE]
          /\ Goto(t, "sget") /\ UNCHANGED <<list, super, mounts, failed, overlapped>>
      BY <1>4 DEF OpenDevices
    <2>2. TaskType(t)
      BY <1>1, <2>1, GotoType DEF Places
    <2> HIDE DEF p
    <2>3. RestType
      BY <2>1, FieldType, Unmoved DEF RestType
    <2>4. QED BY <2>2, <2>3, TypesKept
  <1>5. QED BY <1>2, <1>3, <1>4

LEMMA AdvanceType ==
  ASSUME TypeInv, NEW t \in Tasks, NEW s, NEW supers \in [Ids -> Supers],
         task[t].pc \in {"sget", "fill"}, Advance(t, s, supers)
  PROVE  TaskType(t) /\ super' \in [Ids -> Supers]
  <1> DEFINE p == task[t].part
  <1>0. p \in Partitions /\ task[t].mount \in 1 .. MaxMounts /\ task[t].mount # 0
        /\ task[t] \in TaskRecords
    BY TaskAt, Facts
  <1>1. CASE p = 0
    <2>1. Return(t) /\ super' = [supers EXCEPT ![s].state = "free"]
      BY <1>1 DEF Advance
    <2>2. super' \in [Ids -> Supers]
      BY <2>1 DEF Supers
    <2>3. QED BY <2>1, <2>2, ReturnType
  <1>2. CASE p # 0
    <2> DEFINE r == [task[t] EXCEPT !.pc = "alloc", !.part = p - 1]
    <2>1. super' = supers
          /\ task' = [task EXCEPT ![t].pc = "alloc", ![t].part = p - 1]
      BY <1>2 DEF Advance
    <2>2. p - 1 \in Partitions
      BY <1>0, <1>2, MountAssumption DEF Partitions
    <2>3. r \in TaskRecords /\ Numbered(r)
      BY <1>0, <2>2 DEF TaskRecords, Places, Numbered
    <2>4. task' = [task EXCEPT ![t] = r]
      BY <2>1, TypeFacts DEF TaskRecords
    <2> HIDE DEF r
    <2>5. QED BY <2>1, <2>3, <2>4, TaskMoves
  <1>3. QED BY <1>1, <1>2

LEMMA SgetType ==
  ASSUME TypeInv, NEW t \in Tasks, Sget(t)
  PROVE  TypeInv'
  <1> DEFINE p == task[t].part
             s == <<task[t].mount, p>>
  <1>1. /\ p \in Partitions /\ task[t].mount # 0 /\ s \in Ids
        /\ ~Stale(p) => list[p] \in Ids
        /\ task[t].pc = "sget" /\ UNCHANGED <<mounts, failed, overlapped>>
    BY TaskAt, Facts DEF Sget, Id
  <1>2. CASE Stale(p)
    BY <1>1, <1>2, OopsType, Unmoved DEF Sget
  <1>3. CASE ~Stale(p) /\ Matching(p) = {}
    <2>1. /\ super' = [super EXCEPT ![s] = [state |-> "locked", root |-> FALSE,
                                           info |-> list[p]]]
          /\ Goto(t, "fill") /\ UNCHANGED <<list, info>>
      BY <1>3 DEF Sget
    <2>2. TaskType(t)
      BY <1>1, <2>1, GotoType DEF Places
    <2>3. [state |-> "locked", root |-> FALSE, info |-> list[p]] \in Supers
      BY <1>1, <1>3 DEF Supers
    <2> HIDE DEF p, s
    <2>4. super' \in [Ids -> Supers]
      BY <1>1, <2>1, <2>3, TypeFacts
    <2>5. RestType
      BY <1>1, <2>1, <2>4, Unmoved DEF RestType
    <2>6. QED BY <2>2, <2>5, TypesKept
  <1>4. CASE ~Stale(p) /\ Matching(p) # {}
    <2>1. PICK old \in Matching(p) :
            /\ info' = [info EXCEPT ![list[p]].state = "freed"]
            /\ Advance(t, old, [super EXCEPT ![old].state = "locked"])
      BY <1>4 DEF Sget
    <2>2. UNCHANGED list /\ [super EXCEPT ![old].state = "locked"] \in [Ids -> Supers]
      BY <1>4, FieldType DEF Sget
    <2>3. TaskType(t) /\ super' \in [Ids -> Supers]
      BY <1>1, <2>1, <2>2, AdvanceType
    <2> HIDE DEF p, s
    <2>4. RestType
      BY <1>1, <2>1, <2>2, <2>3, FieldType, Unmoved DEF RestType
    <2>5. QED BY <2>3, <2>4, TypesKept
  <1>5. QED BY <1>2, <1>3, <1>4

LEMMA FillType ==
  ASSUME TypeInv, NEW t \in Tasks, Fill(t)
  PROVE  TypeInv'
  <1> DEFINE s == <<task[t].mount, task[t].part>>
  <1>1. s \in Ids /\ task[t].pc = "fill" /\ UNCHANGED <<mounts, failed, overlapped>>
    BY TaskAt DEF Fill, Id
  <1>2. CASE ~Alive(s)
    BY <1>1, <1>2, OopsType, Unmoved DEF Fill
  <1>3. CASE Alive(s)
    <2> DEFINE i == super[s].info
               supers == [super EXCEPT ![s].root = TRUE]
    <2>1. info' = [info EXCEPT ![i].sb = s] /\ Advance(t, s, supers) /\ UNCHANGED list
      BY <1>3 DEF Fill
    <2> HIDE DEF s, i
    <2>2. supers \in [Ids -> Supers]
      BY FieldType
    <2> HIDE DEF supers
    <2>3. TaskType(t) /\ super' \in [Ids -> Supers]
      BY <1>1, <2>1, <2>2, AdvanceType
    <2>4. RestType
      BY <1>1, <2>1, <2>3, FieldType, Unmoved DEF RestType
    <2>5. QED BY <2>3, <2>4, TypesKept
  <1>4. QED BY <1>2, <1>3

LEMMA FillFailsType ==
  ASSUME TypeInv, NEW t \in Tasks, SetupBdiFails(t) \/ OpenCtreeFails(t)
  PROVE  TypeInv'
  <1> DEFINE s == <<task[t].mount, task[t].part>>
             i == super[s].info
  <1>1. s \in Ids /\ task[t].pc = "fill" /\ task[t].part \in Partitions
    BY TaskAt DEF SetupBdiFails, OpenCtreeFails, Id
  <1>2. /\ KillSuper(t, s) /\ UNCHANGED <<list, super, mounts, overlapped>>
        /\ UNCHANGED info \/ info' = [info EXCEPT ![i].sb = s]
    BY DEF SetupBdiFails, OpenCtreeFails
  <1>3. failed' \subseteq {"alloc", "open", "bdi", "fill"} \X Partitions
    BY <1>1, Failures DEF SetupBdiFails, OpenCtreeFails
  <1> HIDE DEF s, i
  <1>4. TaskType(t)
    BY <1>1, <1>2, KillType
  <1>5. info' \in [Ids -> Infos]
    <2>1. CASE UNCHANGED info
      BY <2>1, Unmoved
    <2>2. CASE info' = [info EXCEPT ![i].sb = s]
      BY <1>1, <2>2, FieldType
    <2>3. QED BY <1>2, <2>1, <2>2
  <1>6. RestType
    BY <1>2, <1>3, <1>5, Unmoved DEF RestType
  <1>7. QED BY <1>4, <1>6, TypesKept

LEMMA UnmountType ==
  ASSUME TypeInv, NEW t \in Tasks, NEW s \in Ids, Unmount(t, s)
  PROVE  TypeInv'
  <1>1. TaskType(t)
    BY KillType DEF Unmount
  <1>2. RestType
    BY FieldType, Unmoved DEF Unmount, RestType
  <1>3. QED BY <1>1, <1>2, TypesKept

LEMMA CompareType ==
  ASSUME TypeInv, NEW t \in Tasks, Compare(t)
  PROVE  TypeInv'
  <1> DEFINE c == task[t].cur
  <1>1. task[t] \in TaskRecords /\ c \in 0 .. Parts /\ c < Parts /\ c + 1 \in 0 .. Parts
        /\ task[t].pc = "compare" /\ UNCHANGED <<mounts, failed, overlapped>>
    BY TaskAt, Facts DEF Compare, TaskRecords
  <1>2. CASE Stale(c)
    BY <1>1, <1>2, OopsType, Unmoved DEF Compare
  <1>3. CASE ~Stale(c)
    <2> DEFINE r1 == [task[t] EXCEPT !.pc = "umount", !.part = UmountFrom]
               r2 == [task[t] EXCEPT !.cur = c + 1]
    <2>1. UNCHANGED <<list, info, super>>
          /\ \/ task' = [task EXCEPT ![t].pc = "umount", ![t].part = UmountFrom]
             \/ task' = [task EXCEPT ![t].cur = c + 1]
      BY <1>3 DEF Compare
    <2>2. r1 \in TaskRecords /\ Numbered(r1) /\ r2 \in TaskRecords /\ Numbered(r2)
      BY <1>1, Facts DEF TaskRecords, Places, Numbered, UmountFrom
    <2>3. task' = [task EXCEPT ![t] = r1] \/ task' = [task EXCEPT ![t] = r2]
      BY <2>1, TypeFacts DEF TaskRecords
    <2> HIDE DEF r1, r2, c
    <2>4. TaskType(t)
      BY <2>2, <2>3, TaskMoves
    <2>5. RestType
      BY <1>1, <2>1, Unmoved DEF RestType
    <2>6. QED BY <2>4, <2>5, TypesKept
  <1>4. QED BY <1>2, <1>3

LEMMA UmountType ==
  ASSUME TypeInv, NEW t \in Tasks, UmountMultiple(t)
  PROVE  TypeInv'
  <1> DEFINE q == task[t].part
             s == info[list[q]].sb
             r1 == [task[t] EXCEPT !.pc = "compare", !.cur = @ + 1]
             r2 == [task[t] EXCEPT !.part = q - 1]
  <1>0. /\ UNCHANGED <<mounts, failed, overlapped>>
        /\ task[t] \in TaskRecords /\ q \in Partitions /\ task[t].pc = "umount"
    BY TaskAt DEF UmountMultiple
  <1>1. CASE Oops(t)
    BY <1>0, <1>1, OopsType, Unmoved
  <1>2. CASE ~Oops(t)
    <2>1. /\ UNCHANGED list
          /\ UNCHANGED <<info, super>> \/ Deactivated(s)
          /\ \/ /\ q = UmountTo
                /\ task' = [task EXCEPT ![t].pc = "compare", ![t].cur = @ + 1]
             \/ q # UmountTo /\ task' = [task EXCEPT ![t].part = q - 1]
      BY <1>2 DEF UmountMultiple
    <2>2. task' = [task EXCEPT ![t] = r1] \/ (q # 0 /\ task' = [task EXCEPT ![t] = r2])
      BY <2>1, TypeFacts DEF TaskRecords, UmountTo
    <2>3. r1 \in TaskRecords /\ Numbered(r1)
      <3>1. task[t].cur + 1 \in 0 .. Parts
        BY <1>0, Facts DEF TypeInv, Numbered, TaskRecords
      <3>2. QED BY <1>0, <3>1 DEF TaskRecords, Places, Numbered
    <2>4. q # 0 => r2 \in TaskRecords /\ Numbered(r2)
      <3>1. q # 0 => q - 1 \in Partitions
        BY <1>0, MountAssumption DEF Partitions
      <3>2. QED BY <1>0, <3>1 DEF TypeInv, TaskRecords, Places, Numbered
    <2>5. super' \in [Ids -> Supers] /\ info' \in [Ids -> Infos]
      <3> HIDE DEF s
      <3>1. CASE UNCHANGED <<info, super>>
        BY <3>1, Unmoved
      <3>2. CASE Deactivated(s)
        BY <3>2, FieldType, Unmoved DEF Deactivated
      <3>3. QED BY <2>1, <3>1, <3>2
    <2> HIDE DEF r1, r2
    <2>6. TaskType(t)
      BY <2>2, <2>3, <2>4, TaskMoves
    <2>7. RestType
      BY <1>0, <2>1, <2>5, Unmoved DEF RestType
    <2>8. QED BY <2>6, <2>7, TypesKept
  <1>3. QED BY <1>1, <1>2

LEMMA KilledType ==
  ASSUME TypeInv, NEW t \in Tasks, Killed(t)
  PROVE  TypeInv'
  <1> DEFINE s == task[t].sb
             i == super[s].info
  <1>1. UNCHANGED <<mounts, failed, overlapped>> /\ task[t].pc = "compare"
    BY DEF Killed
  <1>2. CASE ~Alive(s)
    BY <1>1, <1>2, OopsType, Unmoved DEF Killed
  <1>3. CASE Alive(s)
    <2>1. /\ super' = [super EXCEPT ![s].state = "dead"]
          /\ info' = [info EXCEPT ![i].state = "freed"]
          /\ Return(t) /\ UNCHANGED list
      BY <1>3 DEF Killed
    <2>2. TaskType(t)
      BY <2>1, ReturnType
    <2> HIDE DEF s, i
    <2>3. RestType
      BY <1>1, <2>1, FieldType, Unmoved DEF RestType
    <2>4. QED BY <2>2, <2>3, TypesKept
  <1>4. QED BY <1>2, <1>3

LEMMA TypeInit == Init => TypeInv
  <1> SUFFICES ASSUME Init PROVE TypeInv
    OBVIOUS
  <1>1. NoInfo \in Infos /\ NoSuper \in Supers /\ Idle \in TaskRecords
        /\ Numbered(Idle)
    BY IdleTask DEF NoInfo, NoSuper, Infos, Supers
  <1>2. /\ list \in [Partitions -> Ids \cup {None}]
        /\ \A p \in Partitions : list[p] # None => list[p][2] = p
        /\ info \in [Ids -> Infos] /\ super \in [Ids -> Supers]
        /\ task \in [Tasks -> TaskRecords]
        /\ \A t \in Tasks : Numbered(task[t])
        /\ mounts \in 0 .. MaxMounts
    BY <1>1, Facts DEF Init
  <1>3. failed \subseteq {"alloc", "open", "bdi", "fill"} \X Partitions
        /\ overlapped \in BOOLEAN
    BY DEF Init
  <1>4. QED BY <1>2, <1>3 DEF TypeInv, MountTypeOK, Infos, Supers, TaskRecords,
                               Places

LEMMA TypeStep == TypeInv /\ [Next]_vars => TypeInv'
  <1> SUFFICES ASSUME TypeInv, [Next]_vars PROVE TypeInv'
    OBVIOUS
  <1>1. CASE Next
    <2> PICK t \in Tasks :
          \/ MountCall(t) \/ Alloc(t) \/ AllocFails(t) \/ OpenDevices(t)
          \/ OpenFails(t) \/ Sget(t) \/ Fill(t) \/ SetupBdiFails(t)
          \/ OpenCtreeFails(t) \/ Compare(t) \/ UmountMultiple(t) \/ Killed(t)
          \/ \E s \in Ids : Unmount(t, s)
      BY <1>1 DEF Next
    <2>1. QED BY MountCallType, AllocType, AllocFailsType, OpenType, SgetType,
                 FillType, FillFailsType, CompareType, UmountType, KilledType,
                 UnmountType
  <1>2. CASE UNCHANGED vars
    BY <1>2 DEF vars, TypeInv, MountTypeOK, Numbered
  <1>3. QED BY <1>1, <1>2

(* Whatever the tasks do and whatever fails, the variables keep their      *)
(* types: entry p of global_fs_info_list is null or an fs_info that was    *)
(* allocated for partition p, and the loops of btrfs_kill_super and        *)
(* btrfs_umount_multiple stay inside the array.                            *)
THEOREM MountTypeCorrect == Spec => []MountTypeOK
  <1>1. TypeInv => MountTypeOK
    BY DEF TypeInv
  <1>2. QED BY <1>1, TypeInit, TypeStep, PTL DEF Spec

-----------------------------------------------------------------------------
(***************************************************************************)
(* Mounts that do not overlap                                              *)
(***************************************************************************)

(* All tasks but t do nothing, and keep doing nothing. *)
Others(t) == \A u \in Tasks \ {t} : ~Busy(u) /\ task'[u] = task[u]

(* What a step of t has to leave. *)
After(t) ==
  /\ task'[t].pc # "oops"
  /\ Mounting(t)' /\ Killing(t)'
  /\ Busy(t)' => NoneFree'
  /\ ~Busy(t)' => Whole'

LEMMA OneTask ==
  ASSUME NEW t \in Tasks, Others(t), After(t)
  PROVE  OrderlyInv'
  <1>1. ASSUME NEW u \in Tasks, u # t
        PROVE  task'[u].pc = "idle"
    BY <1>1 DEF Others, Busy
  <1>2. \A u, v \in Tasks : Busy(u)' /\ Busy(v)' => u = v
    BY <1>1 DEF Busy
  <1>3. ASSUME NEW u \in Tasks
        PROVE  /\ task'[u].pc # "oops"
               /\ Mounting(u)' /\ Killing(u)'
               /\ Busy(u)' => NoneFree'
    <2>1. CASE u = t
      BY <2>1 DEF After
    <2>2. CASE u # t
      <3>1. task'[u].pc = "idle"
        BY <1>1, <2>2
      <3>2. Mounting(u)' /\ Killing(u)'
        BY <3>1 DEF Mounting, Killing
      <3>3. QED BY <3>1, <3>2 DEF Busy
    <2>3. QED BY <2>1, <2>2
  <1>4. Rest'
    BY DEF After, Rest
  <1>5. QED BY <1>2, <1>3, <1>4 DEF OrderlyInv

LEMMA OthersIdle ==
  ASSUME OrderlyInv, NEW t \in Tasks, Busy(t), TypeInv,
         \E r : task' = [task EXCEPT ![t] = r]
  PROVE  Others(t)
  BY TypeFacts DEF OrderlyInv, Others

LEMMA TaskChange ==
  ASSUME TypeInv, NEW t \in Tasks
  PROVE  /\ \A pc : Goto(t, pc) =>
              /\ task'[t].pc = pc /\ task'[t].mount = task[t].mount
              /\ task'[t].part = task[t].part /\ task'[t].cur = task[t].cur
              /\ task' = [task EXCEPT ![t] = task'[t]]
         /\ Return(t) => task'[t] = Idle /\ task' = [task EXCEPT ![t] = task'[t]]
         /\ \A s : KillSuper(t, s) =>
              /\ task'[t].pc = "compare" /\ task'[t].sb = s
              /\ task'[t].cur = 0 /\ task' = [task EXCEPT ![t] = task'[t]]
  <1>1. task \in [Tasks -> TaskRecords] /\ task[t] \in TaskRecords
    BY TypeFacts
  <1>2. ASSUME NEW pc, Goto(t, pc)
        PROVE  /\ task'[t].pc = pc /\ task'[t].mount = task[t].mount
               /\ task'[t].part = task[t].part /\ task'[t].cur = task[t].cur
               /\ task' = [task EXCEPT ![t] = task'[t]]
    <2>1. task' = [task EXCEPT ![t] = [task[t] EXCEPT !.pc = pc]]
      BY <1>2 DEF Goto
    <2>2. task'[t] = [task[t] EXCEPT !.pc = pc]
      BY <1>1, <2>1
    <2>3. QED BY <1>1, <2>1, <2>2 DEF TaskRecords
  <1>3. ASSUME NEW s, KillSuper(t, s)
        PROVE  /\ task'[t].pc = "compare" /\ task'[t].sb = s
               /\ task'[t].cur = 0 /\ task' = [task EXCEPT ![t] = task'[t]]
    <2>1. /\ task'[t] = [Idle EXCEPT !.pc = "compare", !.sb = s]
          /\ task' = [task EXCEPT ![t] = task'[t]]
      BY <1>1, <1>3 DEF KillSuper
    <2>2. QED BY <2>1 DEF Idle
  <1>4. QED BY <1>1, <1>2, <1>3 DEF Return

(* The super block of partition 0 of a complete mount is mounted. *)
LEMMA WholeIsMounted ==
  ASSUME Whole, TypeInv, NEW s \in Ids, Alive(s)
  PROVE  Id(s[1], 0) \in Ids /\ Mounted(Id(s[1], 0))
  BY Facts DEF Whole, Mounted, PartOf

LEMMA MountCallKeeps ==
  ASSUME TypeInv, OrderlyInv, NEW t \in Tasks, MountCall(t), Orderly'
  PROVE  OrderlyInv'
  <1> DEFINE r == [Idle EXCEPT !.pc = "alloc", !.mount = mounts + 1,
                               !.part = Last]
  <1>1. /\ task' = [task EXCEPT ![t] = r] /\ task[t].pc = "idle"
        /\ ~(\E s \in Ids : Mounted(s))
        /\ ~(\E u \in Tasks \ {t} : task[u].pc # "idle")
        /\ UNCHANGED <<list, info, super>>
    BY DEF MountCall, Orderly
  <1>2. Others(t)
    BY <1>1, TypeFacts DEF Others, Busy
  <1>3. \A s \in Ids : ~Alive(s)
    <2>1. Whole
      BY <1>1 DEF OrderlyInv, Rest, Busy
    <2>2. QED BY <1>1, <2>1, WholeIsMounted
  <1>4. NoneFree' /\ \A s \in Ids : ~Alive(s)'
    BY <1>1, <1>3 DEF NoneFree, Alive
  <1>5. /\ task'[t].pc = "alloc" /\ task'[t].part = Last
        /\ task'[t].mount \in 1 .. MaxMounts
    <2>1. r.pc = "alloc" /\ r.part = Last /\ r.mount = mounts + 1
      BY DEF Idle
    <2>2. mounts + 1 \in 1 .. MaxMounts
      BY TypeFacts, Facts DEF MountCall
    <2> HIDE DEF r
    <2>3. QED BY <1>1, <2>1, <2>2, TypeFacts
  <1>6. Mounting(t)'
    BY <1>4, <1>5, Facts DEF Mounting
  <1>7. After(t)
    BY <1>4, <1>5, <1>6 DEF After, Killing, Busy
  <1>8. QED BY <1>2, <1>7, OneTask

LEMMA AllocKeeps ==
  ASSUME TypeInv, OrderlyInv, NEW t \in Tasks, Alloc(t)
  PROVE  OrderlyInv'
  <1> PICK m : m = task[t].mount
    OBVIOUS
  <1> PICK p : p = task[t].part
    OBVIOUS
  <1>1. /\ m \in 1 .. MaxMounts /\ p \in Partitions /\ Id(m, p) \in Ids
        /\ task[t].pc = "alloc" /\ task[t] \in TaskRecords
    BY TaskAt DEF Alloc
  <1>2. /\ list' = [list EXCEPT ![p] = Id(m, p)]
        /\ info' = [info EXCEPT ![Id(m, p)].state = "live"]
        /\ Goto(t, "open") /\ UNCHANGED super
    BY DEF Alloc, Id
  <1>3. /\ task'[t].pc = "open" /\ task'[t].mount = m /\ task'[t].part = p
        /\ task' = [task EXCEPT ![t] = task'[t]]
    BY <1>1, <1>2, TaskChange
  <1>4. Others(t)
    BY <1>1, <1>3, OthersIdle DEF Busy
  <1>5. /\ \A q \in Partitions : q > p => Ready(m, q)
        /\ \A s \in Ids : Alive(s) => s[1] = m /\ s[2] > p
        /\ NoneFree
    BY <1>1 DEF OrderlyInv, Mounting, Busy
  <1>6. list'[p] = Id(m, p) /\ info'[Id(m, p)].state = "live"
    BY <1>1, <1>2, TypeFacts DEF Infos
  <1>7. ASSUME NEW q \in Partitions, q > p
        PROVE  Ready(m, q)'
    <2>1. q # p /\ Id(m, q) # Id(m, p)
      BY <1>1, <1>7, Facts
    <2>2. list'[q] = list[q] /\ info'[Id(m, q)] = info[Id(m, q)]
      BY <1>1, <1>2, <2>1, TypeFacts, Facts
    <2>3. QED BY <1>2, <1>5, <1>7, <2>2 DEF Ready, Settled, Alive
  <1>8. Mounting(t)'
    BY <1>1, <1>2, <1>3, <1>5, <1>6, <1>7 DEF Mounting, Alive
  <1>9. After(t)
    BY <1>2, <1>3, <1>5, <1>8 DEF After, Killing, Busy, NoneFree
  <1>10. QED BY <1>4, <1>9, OneTask

LEMMA OpenKeeps ==
  ASSUME TypeInv, OrderlyInv, NEW t \in Tasks, OpenDevices(t)
  PROVE  OrderlyInv'
  <1> PICK m : m = task[t].mount
    OBVIOUS
  <1> PICK p : p = task[t].part
    OBVIOUS
  <1>1. /\ m \in 1 .. MaxMounts /\ p \in Partitions /\ Id(m, p) \in Ids
        /\ task[t].pc = "open" /\ task[t] \in TaskRecords
    BY TaskAt DEF OpenDevices
  <1>2. /\ \A q \in Partitions : q > p => Ready(m, q)
        /\ \A s \in Ids : Alive(s) => s[1] = m /\ s[2] > p
        /\ list[p] = Id(m, p) /\ info[Id(m, p)].state = "live"
        /\ NoneFree
    BY <1>1 DEF OrderlyInv, Mounting, Busy
  <1>3. ~Stale(p)
    BY <1>1, <1>2, Facts DEF Stale
  <1>4. /\ info' = [info EXCEPT ![list[p]].devices = TRUE]
        /\ Goto(t, "sget") /\ UNCHANGED <<list, super>>
    BY <1>3 DEF OpenDevices
  <1>5. /\ task'[t].pc = "sget" /\ task'[t].mount = m /\ task'[t].part = p
        /\ task' = [task EXCEPT ![t] = task'[t]]
    BY <1>1, <1>4, TaskChange
  <1>6. Others(t)
    BY <1>1, <1>5, OthersIdle DEF Busy
  <1>7. \A i \in Ids : info'[i].state = info[i].state /\ info'[i].sb = info[i].sb
    BY <1>4, TypeFacts DEF Infos
  <1>8. \A q \in Partitions : q > p => Ready(m, q)'
    BY <1>1, <1>2, <1>4, <1>7, Facts DEF Ready, Settled, Alive
  <1>9. Mounting(t)'
    BY <1>1, <1>2, <1>4, <1>5, <1>7, <1>8 DEF Mounting, Alive
  <1>10. After(t)
    BY <1>2, <1>4, <1>5, <1>9 DEF After, Killing, Busy, NoneFree
  <1>11. QED BY <1>6, <1>10, OneTask

LEMMA SgetKeeps ==
  ASSUME TypeInv, OrderlyInv, NEW t \in Tasks, Sget(t)
  PROVE  OrderlyInv'
  <1> PICK m : m = task[t].mount
    OBVIOUS
  <1> PICK p : p = task[t].part
    OBVIOUS
  <1>1. /\ m \in 1 .. MaxMounts /\ p \in Partitions /\ Id(m, p) \in Ids
        /\ task[t].pc = "sget"
    BY TaskAt DEF Sget
  <1>2. /\ \A q \in Partitions : q > p => Ready(m, q)
        /\ \A s \in Ids : Alive(s) => s[1] = m /\ s[2] > p
        /\ list[p] = Id(m, p) /\ info[Id(m, p)].state = "live"
        /\ NoneFree
    BY <1>1 DEF OrderlyInv, Mounting, Busy
  <1>3. ~Stale(p)
    BY <1>1, <1>2, Facts DEF Stale
  <1>4. Matching(p) = {}
    BY <1>1, <1>2, Facts DEF Matching, PartOf
  <1>5. /\ super' = [super EXCEPT ![Id(m, p)] =
                       [state |-> "locked", root |-> FALSE, info |-> list[p]]]
        /\ Goto(t, "fill") /\ UNCHANGED <<list, info>>
    BY <1>3, <1>4 DEF Sget, Id
  <1>6. /\ task'[t].pc = "fill" /\ task'[t].mount = m /\ task'[t].part = p
        /\ task' = [task EXCEPT ![t] = task'[t]]
    BY <1>1, <1>5, TaskChange
  <1>7. Others(t)
    BY <1>1, <1>6, OthersIdle DEF Busy
  <1>8. /\ super'[Id(m, p)] = [state |-> "locked", root |-> FALSE,
                               info |-> Id(m, p)]
        /\ \A s \in Ids : s # Id(m, p) => super'[s] = super[s]
    BY <1>1, <1>2, <1>5, TypeFacts
  <1>9. ASSUME NEW q \in Partitions, q > p
        PROVE  Ready(m, q)'
    <2>1. Id(m, q) # Id(m, p) /\ Id(m, q) \in Ids
      BY <1>1, <1>9, Facts
    <2>2. QED BY <1>2, <1>5, <1>8, <1>9, <2>1 DEF Ready, Settled, Alive
  <1>10. /\ NoneFree'
         /\ Alive(Id(m, p))' /\ super'[Id(m, p)].info = Id(m, p)
    BY <1>2, <1>8 DEF NoneFree, Alive
  <1>11. ASSUME NEW s \in Ids, Alive(s)'
         PROVE  s[1] = m /\ (s[2] > p \/ s[2] = p)
    <2>1. CASE s = Id(m, p)
      BY <1>1, <2>1, Facts
    <2>2. CASE s # Id(m, p)
      BY <1>2, <1>8, <1>11, <2>2 DEF Alive
    <2>3. QED BY <2>1, <2>2
  <1>12. Mounting(t)'
    BY <1>1, <1>2, <1>5, <1>6, <1>9, <1>10, <1>11 DEF Mounting
  <1>13. After(t)
    BY <1>6, <1>10, <1>12 DEF After, Killing, Busy
  <1>14. QED BY <1>7, <1>13, OneTask

(* The step leaves each super block as supers has it, but may unlock it.   *)
Keeps(supers) ==
  \A s \in Ids : /\ supers[s].root => super'[s].root
                 /\ super'[s].info = supers[s].info
                 /\ Alive(s) => Alive(s)'

LEMMA FillKeeps ==
  ASSUME TypeInv, OrderlyInv, NEW t \in Tasks, Fill(t)
  PROVE  OrderlyInv'
  <1> PICK m : m = task[t].mount
    OBVIOUS
  <1> PICK p : p = task[t].part
    OBVIOUS
  <1>1. /\ m \in 1 .. MaxMounts /\ p \in Partitions /\ Id(m, p) \in Ids
        /\ task[t].pc = "fill" /\ p \in Nat
    BY TaskAt, Facts DEF Fill
  <1>2. /\ \A q \in Partitions : q > p => Ready(m, q)
        /\ \A s \in Ids : Alive(s) => s[1] = m /\ (s[2] > p \/ s[2] = p)
        /\ list[p] = Id(m, p) /\ info[Id(m, p)].state = "live"
        /\ Alive(Id(m, p)) /\ super[Id(m, p)].info = Id(m, p)
        /\ NoneFree
    BY <1>1 DEF OrderlyInv, Mounting, Busy
  <1> PICK supers : supers = [super EXCEPT ![Id(m, p)].root = TRUE]
    OBVIOUS
  <1>3. /\ info' = [info EXCEPT ![Id(m, p)].sb = Id(m, p)]
        /\ Advance(t, Id(m, p), supers) /\ UNCHANGED list
    BY <1>2 DEF Fill, Id
  <1>4. /\ info'[Id(m, p)].sb = Id(m, p) /\ info'[Id(m, p)].state = "live"
        /\ \A s \in Ids : s # Id(m, p) => info'[s] = info[s]
    BY <1>1, <1>2, <1>3, TypeFacts DEF Infos
  <1>5. /\ supers[Id(m, p)].root = TRUE
        /\ \A s \in Ids : /\ supers[s] \in Supers
                           /\ supers[s].state = super[s].state
                           /\ supers[s].info = super[s].info
                           /\ s # Id(m, p) => supers[s] = super[s]
    BY <1>1, TypeFacts DEF Supers
  <1>6. ASSUME Keeps(supers), NEW q \in Partitions, q > p \/ q = p
        PROVE  Ready(m, q)'
    <2>1. Id(m, q) \in Ids /\ list'[q] = Id(m, q)
      BY <1>1, <1>2, <1>3, <1>6, Facts DEF Ready, Settled
    <2>2. /\ Alive(Id(m, q)) /\ super[Id(m, q)].info = Id(m, q)
          /\ supers[Id(m, q)].root
      <3>1. CASE q = p
        BY <1>2, <1>5, <3>1
      <3>2. CASE q # p
        BY <1>1, <1>2, <1>5, <1>6, <2>1, <3>2, Facts DEF Ready
      <3>3. QED BY <3>1, <3>2
    <2>3. Alive(Id(m, q))' /\ super'[Id(m, q)].info = Id(m, q)
          /\ super'[Id(m, q)].root
      <3> PICK i : i = Id(m, q)
        OBVIOUS
      <3>1. super'[i].info = i
        BY <1>5, <1>6, <2>1, <2>2 DEF Keeps
      <3>2. super'[i].root
        BY <1>6, <2>1, <2>2 DEF Keeps
      <3>3. super'[i].state \in {"locked", "free"}
        BY <1>6, <2>1, <2>2 DEF Alive, Keeps
      <3>4. QED BY <3>1, <3>2, <3>3 DEF Alive
    <2>4. info'[Id(m, q)].state = "live" /\ info'[Id(m, q)].sb = Id(m, q)
      <3>1. CASE q = p
        BY <1>4, <3>1
      <3>2. CASE q # p
        BY <1>1, <1>2, <1>4, <1>6, <2>1, <3>2, Facts DEF Ready, Settled
      <3>3. QED BY <3>1, <3>2
    <2>5. QED BY <2>1, <2>3, <2>4 DEF Ready, Settled
  <1>7. CASE p = 0
    <2>1. super' = [supers EXCEPT ![Id(m, 0)].state = "free"] /\ Return(t)
      BY <1>3, <1>7 DEF Advance
    <2>2. Others(t) /\ task'[t].pc = "idle"
      BY <1>1, <2>1, TaskChange, OthersIdle, IdleTask DEF Busy
    <2>3. ASSUME NEW s \in Ids
          PROVE  /\ supers[s].root => super'[s].root
                 /\ super'[s].info = supers[s].info
                 /\ super'[s].state = IF s = Id(m, 0) THEN "free"
                                      ELSE super[s].state
      <3>1. supers \in [Ids -> Supers]
        BY <1>5, FieldType
      <3>2. CASE s = Id(m, 0)
        BY <1>5, <2>1, <3>1, <3>2 DEF Supers
      <3>3. CASE s # Id(m, 0)
        <4>1. super'[s] = supers[s]
          BY <2>1, <3>1, <3>3
        <4>2. supers[s].state = super[s].state
          BY <1>5
        <4>3. QED BY <3>3, <4>1, <4>2, Zenon
      <3>4. QED BY <3>2, <3>3
    <2>4. \A s \in Ids : Alive(s)' <=> Alive(s)
      BY <1>2, <1>7, <2>3 DEF Alive
    <2>5. \A q \in Partitions : Ready(m, q)'
      <3>1. \A q \in Partitions : q > p \/ q = p
        BY <1>7, Facts
      <3>2. Keeps(supers)
        BY <2>3, <2>4 DEF Keeps
      <3>3. QED BY <1>6, <3>1, <3>2
    <2>6. ASSUME NEW s \in Ids, Alive(s)'
          PROVE  /\ super'[Id(s[1], 0)].state = "free"
                 /\ super'[s].state = "free" => s[2] = 0
                 /\ \A q \in Partitions : Ready(s[1], q)'
      <3>1. s[1] = m /\ Id(m, 0) \in Ids /\ Id(m, 0)[2] = 0
        BY <1>1, <1>2, <2>4, <2>6, Facts
      <3>2. super'[s].state = "free" => s[2] = 0
        BY <1>2, <2>3, <3>1 DEF NoneFree
      <3>3. QED BY <2>3, <2>5, <3>1, <3>2
    <2>7. Whole'
      BY <2>6 DEF Whole
    <2>8. After(t)
      BY <2>2, <2>7 DEF After, Mounting, Killing, Busy
    <2>9. QED BY <2>2, <2>8, OneTask
  <1>8. CASE p # 0
    <2>1. /\ super' = supers
          /\ task' = [task EXCEPT ![t].pc = "alloc", ![t].part = p - 1]
      BY <1>3, <1>8 DEF Advance
    <2>2. /\ task'[t].pc = "alloc" /\ task'[t].part = p - 1
          /\ task'[t].mount = m /\ task' = [task EXCEPT ![t] = task'[t]]
      BY <2>1, TypeFacts DEF TaskRecords
    <2>3. Others(t)
      BY <1>1, <2>2, OthersIdle DEF Busy
    <2>4. \A s \in Ids : Alive(s)' <=> Alive(s)
      BY <1>5, <2>1 DEF Alive
    <2>5. \A q \in Partitions : q > p - 1 => Ready(m, q)'
      <3>1. \A q \in Partitions : q > p - 1 => q > p \/ q = p
        BY <1>1, Facts
      <3>2. Keeps(supers)
        BY <2>1, <2>4 DEF Keeps
      <3>3. QED BY <1>6, <3>1, <3>2
    <2>6. \A s \in Ids : Alive(s)' => s[1] = m /\ s[2] > p - 1
      BY <1>1, <1>2, <2>4, Facts
    <2>7. Mounting(t)'
      BY <1>1, <2>2, <2>5, <2>6 DEF Mounting
    <2>8. NoneFree'
      BY <1>2, <1>5, <2>1 DEF NoneFree
    <2>9. After(t)
      BY <2>2, <2>7, <2>8 DEF After, Killing, Busy
    <2>10. QED BY <2>3, <2>9, OneTask
  <1>9. QED BY <1>7, <1>8

(* Of the steps of a mount that fail only this one is within Orderly, and  *)
(* only for partition 0.                                                   *)
LEMMA OpenCtreeFailsKeeps ==
  ASSUME TypeInv, OrderlyInv, NEW t \in Tasks, OpenCtreeFails(t), Orderly'
  PROVE  OrderlyInv'
  <1> PICK m : m = task[t].mount
    OBVIOUS
  <1> PICK p : p = task[t].part
    OBVIOUS
  <1>1. /\ m \in 1 .. MaxMounts /\ p \in Partitions /\ Id(m, p) \in Ids
        /\ task[t].pc = "fill"
    BY TaskAt, Facts DEF OpenCtreeFails
  <1>2. p = 0
    <2>1. <<"fill", p>> \in failed'
      BY DEF OpenCtreeFails, Failure
    <2>2. QED BY <2>1 DEF Orderly
  <1>3. /\ \A q \in Partitions : q > 0 => Ready(m, q)
        /\ \A s \in Ids : Alive(s) => s[1] = m
        /\ list[0] = Id(m, 0) /\ info[Id(m, 0)].state = "live"
        /\ Alive(Id(m, 0)) /\ super[Id(m, 0)].info = Id(m, 0)
        /\ NoneFree
    <2>1. /\ \A q \in Partitions : q > p => Ready(m, q)
          /\ \A s \in Ids : Alive(s) => s[1] = m
          /\ list[p] = Id(m, p) /\ info[Id(m, p)].state = "live"
          /\ Alive(Id(m, p)) /\ super[Id(m, p)].info = Id(m, p)
          /\ NoneFree
      BY <1>1 DEF OrderlyInv, Mounting, Busy
    <2>2. QED BY <1>2, <2>1
  <1>4. /\ info' = [info EXCEPT ![Id(m, 0)].sb = Id(m, 0)]
        /\ KillSuper(t, Id(m, 0)) /\ UNCHANGED <<list, super>>
    BY <1>2, <1>3 DEF OpenCtreeFails, Id
  <1>5. /\ task'[t].pc = "compare" /\ task'[t].cur = 0 /\ task'[t].sb = Id(m, 0)
        /\ task' = [task EXCEPT ![t] = task'[t]]
    BY <1>4, TaskChange
  <1>6. Others(t)
    BY <1>1, <1>5, OthersIdle DEF Busy
  <1>7. /\ info'[Id(m, 0)].sb = Id(m, 0) /\ info'[Id(m, 0)].state = "live"
        /\ \A s \in Ids : s # Id(m, 0) => info'[s] = info[s]
    BY <1>1, <1>2, <1>3, <1>4, TypeFacts DEF Infos
  <1>8. ASSUME NEW q \in Partitions
        PROVE  Settled(m, q)' /\ Alive(Id(m, q))'
    <2>1. CASE q = 0
      BY <1>3, <1>4, <1>7, <2>1 DEF Settled, Alive
    <2>2. CASE q # 0
      <3>1. Id(m, q) # Id(m, 0) /\ Id(m, q) \in Ids /\ q > 0
        BY <1>1, <1>2, <2>2, Facts
      <3>2. QED BY <1>3, <1>4, <1>7, <3>1 DEF Ready, Settled, Alive
    <2>3. QED BY <2>1, <2>2
  <1>9. /\ Id(m, 0) \in Ids /\ Id(m, 0)[1] = m /\ Id(m, 0)[2] = 0
        /\ 0 \in Partitions
    BY <1>1, <1>2, Facts
  <1>10. Killing(t)'
    BY <1>3, <1>4, <1>5, <1>8, <1>9 DEF Killing, Alive
  <1>11. After(t)
    BY <1>3, <1>4, <1>5, <1>10 DEF After, Mounting, Busy, NoneFree
  <1>12. QED BY <1>6, <1>11, OneTask

LEMMA UnmountKeeps ==
  ASSUME TypeInv, OrderlyInv, NEW t \in Tasks, NEW s \in Ids, Unmount(t, s)
  PROVE  OrderlyInv'
  <1> PICK m : m = s[1]
    OBVIOUS
  <1>1. /\ m \in 1 .. MaxMounts /\ s = Id(m, 0) /\ s[2] = 0
        /\ super[s].state = "free" /\ task[t].pc = "idle"
    BY Facts DEF Unmount, Mounted, PartOf
  <1>2. \A u \in Tasks : ~Busy(u)
    BY <1>1 DEF OrderlyInv, NoneFree
  <1>3. Whole
    BY <1>2 DEF OrderlyInv, Rest
  <1>4. \A q \in Partitions : Ready(m, q)
    BY <1>1, <1>3 DEF Whole, Alive
  <1>5. ASSUME NEW r \in Ids, Alive(r)
        PROVE  r[1] = m /\ (super[r].state = "free" => r = s)
    <2>1. Ready(r[1], 0) /\ Ready(m, 0) /\ r[1] \in 1 .. MaxMounts
      BY <1>3, <1>4, <1>5, Facts DEF Whole
    <2>2. r[1] = m
      BY <1>1, <2>1, Facts DEF Ready, Settled
    <2>3. super[r].state = "free" => r[2] = 0
      BY <1>3, <1>5 DEF Whole
    <2>4. r = Id(r[1], r[2])
      BY Facts
    <2>5. QED BY <1>1, <2>2, <2>3, <2>4
  <1>6. /\ super' = [super EXCEPT ![s].state = "locked"]
        /\ KillSuper(t, s) /\ UNCHANGED <<list, info>>
    BY DEF Unmount
  <1>7. /\ super'[s].state = "locked"
        /\ \A r \in Ids : r # s => super'[r] = super[r]
    BY <1>6, TypeFacts DEF Supers
  <1>8. /\ task'[t].pc = "compare" /\ task'[t].cur = 0 /\ task'[t].sb = s
        /\ task' = [task EXCEPT ![t] = task'[t]]
    BY <1>6, TaskChange
  <1>9. Others(t)
    BY <1>2, <1>6, TypeFacts DEF Others, KillSuper
  <1>10. NoneFree'
    BY <1>5, <1>7 DEF NoneFree, Alive
  <1>11. \A r \in Ids : Alive(r)' <=> Alive(r)
    BY <1>1, <1>7 DEF Alive
  <1>12. ASSUME NEW q \in Partitions
         PROVE  Settled(m, q)' /\ Alive(Id(m, q))'
    <2>1. Id(m, q) \in Ids /\ Ready(m, q)
      BY <1>1, <1>4, Facts
    <2>2. Settled(m, q)'
      BY <1>6, <2>1 DEF Ready, Settled
    <2>3. Alive(Id(m, q))'
      BY <1>1, <1>7, <2>1 DEF Ready, Alive
    <2>4. QED BY <2>2, <2>3
  <1>13. Killing(t)'
    BY <1>1, <1>5, <1>8, <1>11, <1>12, <1>7 DEF Killing, Alive
  <1>14. After(t)
    BY <1>8, <1>10, <1>13 DEF After, Mounting, Busy
  <1>15. QED BY <1>9, <1>14, OneTask

LEMMA CompareKeeps ==
  ASSUME TypeInv, OrderlyInv, NEW t \in Tasks, Compare(t)
  PROVE  OrderlyInv'
  <1> PICK m : m = task[t].sb[1]
    OBVIOUS
  <1> PICK c : c = task[t].cur
    OBVIOUS
  <1>1. /\ task[t].pc = "compare" /\ c < Parts /\ c \in Partitions /\ c \in Nat
        /\ task[t] \in TaskRecords
    BY TaskAt, Facts DEF Compare, TaskRecords, Partitions
  <1>2. /\ task[t].sb \in Ids /\ task[t].sb[2] = 0 /\ Alive(task[t].sb)
        /\ \A q \in Partitions : Settled(m, q)
        /\ \A s \in Ids : Alive(s) => s[1] = m
        /\ c = 0 => \A q \in Partitions : Alive(Id(m, q))
        /\ c > 0 => \A s \in Ids : Alive(s) => s = task[t].sb
        /\ NoneFree
    BY <1>1 DEF OrderlyInv, Killing, Busy
  <1>3. m \in 1 .. MaxMounts /\ task[t].sb = Id(m, 0) /\ 0 \in Partitions
    BY <1>2, Facts
  <1>4. list[c] = Id(m, c) /\ info[Id(m, c)].sb = Id(m, c) /\ ~Stale(c)
    BY <1>1, <1>2, <1>3, Facts DEF Settled, Stale
  <1>5. /\ UNCHANGED <<list, info, super>>
        /\ task' = IF Id(m, c) = task[t].sb
                   THEN [task EXCEPT ![t].pc = "umount", ![t].part = Last]
                   ELSE [task EXCEPT ![t].cur = c + 1]
    BY <1>4 DEF Compare, UmountFrom
  <1>6. Id(m, c) = task[t].sb <=> c = 0
    BY <1>1, <1>3, Facts
  <1>7. CASE c = 0
    <2>1. task' = [task EXCEPT ![t].pc = "umount", ![t].part = Last]
      BY <1>5, <1>6, <1>7
    <2>2. /\ task'[t].pc = "umount" /\ task'[t].part = Last /\ task'[t].cur = c
          /\ task'[t].sb = task[t].sb /\ task' = [task EXCEPT ![t] = task'[t]]
      BY <1>1, <2>1, TypeFacts DEF TaskRecords
    <2>3. Others(t)
      BY <1>1, <2>2, OthersIdle DEF Busy
    <2>4. \A s \in Ids : s[2] <= Last
      BY Facts
    <2>5. Killing(t)'
      <3> PICK r : r = task[t].sb
        OBVIOUS
      <3>1. task'[t].sb = r
        BY <2>2
      <3>2. /\ r \in Ids /\ r[2] = 0 /\ r[1] = m /\ Alive(r)'
            /\ \A q \in Partitions : Settled(m, q)' /\ Alive(Id(m, q))'
            /\ \A s \in Ids : Alive(s)' => s[1] = m
        BY <1>2, <1>5, <1>7 DEF Settled, Alive
      <3>3. QED BY <1>7, <2>2, <2>4, <3>1, <3>2 DEF Killing
    <2>6. After(t)
      BY <1>2, <1>5, <2>2, <2>5 DEF After, Mounting, Busy, NoneFree
    <2>7. QED BY <2>3, <2>6, OneTask
  <1>8. CASE c # 0
    <2>1. task' = [task EXCEPT ![t].cur = c + 1]
      BY <1>5, <1>6, <1>8
    <2>2. /\ task'[t].pc = "compare" /\ task'[t].cur = c + 1
          /\ task'[t].sb = task[t].sb /\ task' = [task EXCEPT ![t] = task'[t]]
      BY <1>1, <2>1, TypeFacts DEF TaskRecords
    <2>3. Others(t)
      BY <1>1, <2>2, OthersIdle DEF Busy
    <2>4. c > 0 /\ c + 1 # 0 /\ c + 1 > 0
      BY <1>1, <1>8
    <2>5. Killing(t)'
      <3> PICK r : r = task[t].sb
        OBVIOUS
      <3>1. task'[t].sb = r
        BY <2>2
      <3>2. /\ r \in Ids /\ r[2] = 0 /\ r[1] = m /\ Alive(r)'
            /\ \A q \in Partitions : Settled(m, q)'
            /\ \A s \in Ids : Alive(s)' => s[1] = m /\ s = r
        BY <1>2, <1>5, <2>4 DEF Settled, Alive
      <3>3. QED BY <2>2, <2>4, <3>1, <3>2 DEF Killing
    <2>6. After(t)
      BY <1>2, <1>5, <2>2, <2>5 DEF After, Mounting, Busy, NoneFree
    <2>7. QED BY <2>3, <2>6, OneTask
  <1>9. QED BY <1>7, <1>8

LEMMA UmountKeeps ==
  ASSUME TypeInv, OrderlyInv, NEW t \in Tasks, UmountMultiple(t)
  PROVE  OrderlyInv'
  <1> PICK r : r = task[t].sb
    OBVIOUS
  <1> PICK m : m = r[1]
    OBVIOUS
  <1> PICK q : q = task[t].part
    OBVIOUS
  <1>1. task[t].pc = "umount" /\ task[t] \in TaskRecords /\ q \in Partitions
    BY TaskAt DEF UmountMultiple
  <1>2. /\ r \in Ids /\ r[2] = 0 /\ Alive(r) /\ task[t].cur = 0
        /\ \A x \in Partitions : Settled(m, x)
        /\ \A s \in Ids : Alive(s) => s[1] = m /\ s[2] <= q
        /\ \A x \in Partitions : x <= q => Alive(Id(m, x))
        /\ NoneFree
    BY <1>1 DEF OrderlyInv, Killing, Busy
  <1>3. /\ m \in 1 .. MaxMounts /\ r = Id(m, 0) /\ q \in Nat /\ Id(m, q) \in Ids
        /\ Id(m, q)[1] = m /\ Id(m, q)[2] = q
    BY <1>1, <1>2, Facts
  <1>4. /\ list[q] = Id(m, q) /\ info[Id(m, q)].sb = Id(m, q) /\ ~Stale(q)
        /\ Alive(Id(m, q)) /\ Id(m, q) # None
    BY <1>1, <1>2, <1>3, Facts DEF Settled, Stale
  <1>5. CASE q = 0
    <2>1. /\ task' = [task EXCEPT ![t].pc = "compare", ![t].cur = @ + 1]
          /\ UNCHANGED <<list, info, super>>
      BY <1>2, <1>4, <1>5 DEF UmountMultiple, UmountTo
    <2>2. /\ task'[t].pc = "compare" /\ task'[t].cur = 1
          /\ task'[t].sb = r /\ task' = [task EXCEPT ![t] = task'[t]]
      BY <1>1, <1>2, <2>1, TypeFacts DEF TaskRecords
    <2>3. Others(t)
      BY <1>1, <2>2, OthersIdle DEF Busy
    <2>4. ASSUME NEW s \in Ids, Alive(s)
          PROVE  s = r
      <3>1. s[2] = 0 /\ s[1] = m
        BY <1>2, <1>5, <2>4, Facts
      <3>2. QED BY <1>3, <3>1, Facts
    <2>5. /\ Alive(r)' /\ \A x \in Partitions : Settled(m, x)'
          /\ \A s \in Ids : Alive(s)' => s[1] = m /\ s = r
      BY <1>2, <2>1, <2>4 DEF Settled, Alive
    <2>6. Killing(t)'
      BY <1>2, <2>2, <2>5 DEF Killing
    <2>7. After(t)
      BY <1>2, <2>1, <2>2, <2>6 DEF After, Mounting, Busy, NoneFree
    <2>8. QED BY <2>3, <2>7, OneTask
  <1>6. CASE q # 0
    <2>1. /\ task' = [task EXCEPT ![t].part = q - 1]
          /\ Deactivated(Id(m, q)) /\ UNCHANGED list
      BY <1>2, <1>4, <1>6 DEF UmountMultiple, UmountTo
    <2>2. /\ task'[t].pc = "umount" /\ task'[t].cur = 0 /\ task'[t].part = q - 1
          /\ task'[t].sb = r /\ task' = [task EXCEPT ![t] = task'[t]]
      BY <1>1, <1>2, <2>1, TypeFacts DEF TaskRecords
    <2>3. Others(t)
      BY <1>1, <2>2, OthersIdle DEF Busy
    <2>4. /\ super'[Id(m, q)].state = "dead" /\ UNCHANGED info
          /\ \A s \in Ids : s # Id(m, q) => super'[s] = super[s]
      BY <1>3, <2>1, TypeFacts DEF Deactivated, Supers
    <2>5. ASSUME NEW s \in Ids
          PROVE  Alive(s)' <=> Alive(s) /\ s # Id(m, q)
      BY <2>4 DEF Alive
    <2>6. ASSUME NEW s \in Ids, Alive(s)'
          PROVE  s[1] = m /\ s[2] <= q - 1
      <3>1. s[1] = m /\ s[2] <= q /\ s # Id(m, q)
        BY <1>2, <2>5, <2>6
      <3> PICK x : x = s[2]
        OBVIOUS
      <3>2. x # q /\ x \in Nat /\ x <= q
        BY <3>1, Facts
      <3>3. x <= q - 1
        BY <1>3, <3>2
      <3>4. QED BY <3>1, <3>3
    <2>7. ASSUME NEW x \in Partitions, x <= q - 1
          PROVE  Alive(Id(m, x))'
      <3> PICK s : s = Id(m, x)
        OBVIOUS
      <3>1. s \in Ids /\ s # Id(m, q) /\ x <= q
        BY <1>3, <2>7, Facts
      <3>2. Alive(s)'
        BY <1>2, <2>5, <3>1
      <3>3. QED BY <3>2 DEF Alive
    <2>8. /\ Alive(r)' /\ \A x \in Partitions : Settled(m, x)'
      <3>1. r # Id(m, q)
        BY <1>2, <1>3, <1>6
      <3>2. QED BY <1>2, <2>1, <2>4, <3>1 DEF Settled, Alive
    <2>9. Killing(t)'
      BY <1>2, <2>2, <2>6, <2>7, <2>8 DEF Killing
    <2>10. NoneFree'
      BY <1>2, <2>4 DEF NoneFree
    <2>11. After(t)
      BY <2>2, <2>9, <2>10 DEF After, Mounting, Busy
    <2>12. QED BY <2>3, <2>11, OneTask
  <1>7. QED BY <1>5, <1>6

LEMMA KilledKeeps ==
  ASSUME TypeInv, OrderlyInv, NEW t \in Tasks, Killed(t)
  PROVE  OrderlyInv'
  <1> PICK r : r = task[t].sb
    OBVIOUS
  <1>1. task[t].pc = "compare" /\ task[t].cur > 0
    BY Facts DEF Killed
  <1>2. r \in Ids /\ Alive(r) /\ \A s \in Ids : Alive(s) => s = r
    BY <1>1 DEF OrderlyInv, Killing, Busy
  <1>3. super' = [super EXCEPT ![r].state = "dead"] /\ Return(t)
    BY <1>2 DEF Killed
  <1>4. Others(t) /\ task'[t].pc = "idle"
    BY <1>1, <1>3, TaskChange, OthersIdle, IdleTask DEF Busy
  <1>5. \A s \in Ids : ~Alive(s)'
    <2>1. /\ super'[r].state = "dead"
          /\ \A s \in Ids : s # r => super'[s] = super[s]
      BY <1>2, <1>3, TypeFacts DEF Supers
    <2>2. QED BY <1>2, <2>1 DEF Alive
  <1>6. Whole'
    BY <1>5 DEF Whole
  <1>7. After(t)
    BY <1>4, <1>6 DEF After, Mounting, Killing, Busy
  <1>8. QED BY <1>4, <1>7, OneTask

LEMMA OrderlyBackwards ==
  ASSUME TypeInv, Next, Orderly'
  PROVE  Orderly
  <1> PICK t \in Tasks :
        \/ MountCall(t) \/ Alloc(t) \/ AllocFails(t) \/ OpenDevices(t)
        \/ OpenFails(t) \/ Sget(t) \/ Fill(t) \/ SetupBdiFails(t)
        \/ OpenCtreeFails(t) \/ Compare(t) \/ UmountMultiple(t) \/ Killed(t)
        \/ \E s \in Ids : Unmount(t, s)
    BY DEF Next
  <1>1. overlapped => overlapped'
    BY DEF MountCall, Alloc, AllocFails, OpenDevices, OpenFails, Sget, Fill,
           SetupBdiFails, OpenCtreeFails, Compare, UmountMultiple, Killed,
           Unmount
  <1>2. failed \subseteq failed'
    BY DEF MountCall, Alloc, AllocFails, OpenDevices, OpenFails, Sget, Fill,
           SetupBdiFails, OpenCtreeFails, Compare, UmountMultiple, Killed,
           Unmount, Failure
  <1>3. QED BY <1>1, <1>2 DEF Orderly

(* The other failures end what Orderly says. *)
LEMMA NotOrderly ==
  ASSUME NEW t \in Tasks, AllocFails(t) \/ OpenFails(t) \/ SetupBdiFails(t)
  PROVE  ~Orderly'
  <1>1. \E w \in {"alloc", "open", "bdi"} : \E p : <<w, p>> \in failed'
    BY DEF AllocFails, OpenFails, SetupBdiFails, Failure
  <1>2. QED BY <1>1 DEF Orderly

LEMMA IInvInit == Init => IInv
  <1> SUFFICES ASSUME Init PROVE OrderlyInv
    BY TypeInit DEF IInv
  <1>1. \A s \in Ids : super[s].state = "none"
    BY DEF Init, NoSuper
  <1>2. \A t \in Tasks : task[t].pc = "idle"
    BY DEF Init, Idle
  <1>3. Whole
    BY <1>1 DEF Whole, Alive
  <1>4. QED BY <1>2, <1>3 DEF OrderlyInv, Mounting, Killing, Busy, Rest

LEMMA IInvStep == IInv /\ [Next]_vars => IInv'
  <1> SUFFICES ASSUME IInv, [Next]_vars PROVE IInv'
    OBVIOUS
  <1>1. TypeInv /\ TypeInv'
    BY TypeStep DEF IInv
  <1>2. CASE Next
    <2> SUFFICES ASSUME Orderly' PROVE OrderlyInv'
      BY <1>1 DEF IInv
    <2>1. OrderlyInv
      BY <1>1, <1>2, OrderlyBackwards DEF IInv
    <2>2. PICK t \in Tasks :
            \/ MountCall(t) \/ Alloc(t) \/ AllocFails(t) \/ OpenDevices(t)
            \/ OpenFails(t) \/ Sget(t) \/ Fill(t) \/ SetupBdiFails(t)
            \/ OpenCtreeFails(t) \/ Compare(t) \/ UmountMultiple(t) \/ Killed(t)
            \/ \E s \in Ids : Unmount(t, s)
      BY <1>2 DEF Next
    <2>3. QED
      BY <1>1, <2>1, <2>2, NotOrderly, MountCallKeeps, AllocKeeps, OpenKeeps,
         SgetKeeps, FillKeeps, OpenCtreeFailsKeeps, CompareKeeps, UmountKeeps,
         KilledKeeps, UnmountKeeps
  <1>3. CASE UNCHANGED vars
    <2>1. OrderlyInv => OrderlyInv'
      BY <1>3 DEF vars, OrderlyInv, Mounting, Killing, Busy, Rest, NoneFree,
                  Whole, Ready, Settled, Alive
    <2>2. Orderly' <=> Orderly
      BY <1>3 DEF vars, Orderly
    <2>3. QED BY <1>1, <2>1, <2>2 DEF IInv
  <1>4. QED BY <1>2, <1>3

(* The inductive invariant: the types, and, in runs whose mounts do not    *)
(* overlap and where at most the opening of partition 0 fails, what the    *)
(* one task in btrfs_mount_root or btrfs_kill_super has done so far.       *)
THEOREM MountInvariant == Spec => []IInv
  BY IInvInit, IInvStep, PTL DEF Spec

(* For any number of tasks, partitions and mounts: as long as no mount     *)
(* overlaps and at most the opening of partition 0 fails, no step follows  *)
(* a stale entry of global_fs_info_list, and while partition 0 is mounted  *)
(* each entry is the fs_info of a mounted super block of its partition.    *)
THEOREM MountedList == Spec => []ListIsMounted
  <1>1. IInv => ListIsMounted
    <2> SUFFICES ASSUME IInv, Orderly
                 PROVE  /\ \A t \in Tasks : task[t].pc # "oops"
                        /\ \A s \in Ids : Mounted(s) => \A p \in Partitions :
                             /\ ~Stale(p)
                             /\ LET sb == info[list[p]].sb IN
                                  /\ sb # None /\ Alive(sb) /\ super[sb].root
                                  /\ PartOf(sb) = p /\ super[sb].info = list[p]
      BY DEF ListIsMounted
    <2>1. \A t \in Tasks : task[t].pc # "oops"
      BY DEF IInv, OrderlyInv
    <2>2. ASSUME NEW s \in Ids, Mounted(s), NEW p \in Partitions
          PROVE  /\ ~Stale(p)
                 /\ info[list[p]].sb # None /\ Alive(info[list[p]].sb)
                 /\ super[info[list[p]].sb].root
                 /\ PartOf(info[list[p]].sb) = p
                 /\ super[info[list[p]].sb].info = list[p]
      <3> PICK i : i = Id(s[1], p)
        OBVIOUS
      <3>1. Whole
        BY <2>2 DEF IInv, OrderlyInv, NoneFree, Rest, Mounted
      <3>2. Ready(s[1], p)
        BY <2>2, <3>1 DEF Whole, Mounted, Alive
      <3>3. i \in Ids /\ i # None /\ i[2] = p
        BY Facts
      <3>4. /\ list[p] = i /\ info[i].state = "live" /\ info[i].sb = i
            /\ Alive(i) /\ super[i].root /\ super[i].info = i
        BY <3>2 DEF Ready, Settled
      <3>5. QED BY <3>3, <3>4 DEF Stale, PartOf
    <2>3. QED BY <2>1, <2>2
  <1>2. QED BY <1>1, MountInvariant, PTL

(* In such a run a super block is left when no task is in                  *)
(* btrfs_mount_root or btrfs_kill_super only if partition 0 is mounted:    *)
(* btrfs_umount_multiple has reached all the others.                       *)
THEOREM NothingIsLeft == Spec => []NothingLeft
  <1>1. IInv => NothingLeft
    <2> SUFFICES ASSUME IInv, Orderly, \A t \in Tasks : task[t].pc = "idle",
                        NEW s \in Ids, Alive(s)
                 PROVE  \E r \in Ids : Mounted(r)
      BY DEF NothingLeft
    <2>1. Whole
      BY DEF IInv, OrderlyInv, Rest, Busy
    <2>2. QED BY <2>1, WholeIsMounted DEF IInv
  <1>2. QED BY <1>1, MountInvariant, PTL

-----------------------------------------------------------------------------
(***************************************************************************)
(* Two tasks: what the types say, and what each step does                  *)
(***************************************************************************)
(* Only the one task moves. *)
Only(t) == \A v \in Tasks : v # t => task'[v] = task[v]

PartsInt == /\ Last \in Int /\ Last > 0 /\ K = Last - 1 /\ K \in Int
            /\ 0 \in Partitions /\ Last \in Partitions /\ K \in Partitions
            /\ Partitions \subseteq Int
            /\ \A q \in Partitions : 0 <= q /\ q <= Last
PartsAll == \A q \in Int : 0 <= q /\ q <= Last => q \in Partitions
IdsInt == \A i \in Ids : i[2] \in Partitions /\ i[1] \in Int
IdsAre == \A i \in Ids : i = Id(i[1], i[2])
IdsOf == \A i \in Ids, q \in Partitions :
  Id(i[1], q) \in Ids /\ Id(i[1], q)[1] = i[1] /\ Id(i[1], q)[2] = q
TaskPart == \A v \in Tasks : task[v].part \in Partitions
TaskCur == \A v \in Tasks : task[v].cur \in Int /\ 0 <= task[v].cur
MountInt == mounts \in Int /\ \A v \in Tasks : Opening(v) => task[v].mount \in Int
TaskIds == \A v \in Tasks, q \in Partitions : Opening(v) =>
  /\ Id(task[v].mount, q) \in Ids
  /\ Id(task[v].mount, q)[1] = task[v].mount
  /\ Id(task[v].mount, q)[2] = q
NoneOut == None \notin Ids

Shapes == /\ PartsInt /\ PartsAll /\ IdsInt /\ IdsAre /\ IdsOf
          /\ TaskPart /\ TaskCur /\ MountInt /\ TaskIds /\ NoneOut

LEMMA ShapesOf == TypeInv => Shapes
  <1> SUFFICES ASSUME TypeInv PROVE Shapes
    OBVIOUS
  <1>1. PartsInt /\ PartsAll
    BY Facts DEF PartsInt, PartsAll, Partitions, Last, K
  <1>2. IdsInt /\ IdsAre /\ IdsOf
    BY Facts DEF IdsInt, IdsAre, IdsOf
  <1>3. ASSUME NEW v \in Tasks
        PROVE  /\ task[v].part \in Partitions
               /\ task[v].cur \in Int /\ 0 <= task[v].cur
               /\ Opening(v) => /\ task[v].mount \in Int
                                /\ task[v].mount \in 1 .. MaxMounts
    BY TaskAt, Facts DEF TaskRecords, Opening
  <1>4. TaskPart /\ TaskCur
    BY <1>3 DEF TaskPart, TaskCur
  <1>5. MountInt
    BY <1>3, TypeFacts DEF MountInt
  <1>6. TaskIds
    BY <1>3, Facts DEF TaskIds
  <1>7. NoneOut
    BY Facts DEF NoneOut
  <1>8. QED BY <1>1, <1>2, <1>4, <1>5, <1>6, <1>7 DEF Shapes

LEMMA ShapesAfter == TypeInv' => Shapes'
  BY ShapesOf, PTL

(* The steps, with each changed value spelled out. *)
DidMountCall(t) ==
  /\ Only(t) /\ UNCHANGED <<list, info, super>> /\ mounts' = mounts + 1
  /\ task[t].pc = "idle"
  /\ task'[t].pc = "alloc" /\ task'[t].mount = mounts + 1 /\ task'[t].part = Last
  /\ \A q \in Partitions : Id(mounts + 1, q) \in Ids /\ Id(mounts + 1, q)[1] = mounts + 1
                            /\ Id(mounts + 1, q)[2] = q

DidAlloc(t) ==
  LET i == Id(task[t].mount, task[t].part) IN
  /\ Only(t) /\ UNCHANGED <<super, mounts>>
  /\ task[t].pc = "alloc" /\ task'[t].pc = "open"
  /\ task'[t].mount = task[t].mount /\ task'[t].part = task[t].part
  /\ \A q \in Partitions : list'[q] = IF q = task[t].part THEN i ELSE list[q]
  /\ info'[i].state = "live" /\ info'[i].sb = info[i].sb /\ info'[i].devices = info[i].devices
  /\ \A j \in Ids : j # i => info'[j] = info[j]

DidAllocFails(t) ==
  /\ Only(t) /\ UNCHANGED <<info, super, mounts>>
  /\ task[t].pc = "alloc" /\ task'[t].pc = "idle"
  /\ \A q \in Partitions : list'[q] = IF q = task[t].part THEN None ELSE list[q]

DidOpen(t) ==
  LET i == list[task[t].part] IN
  /\ Only(t) /\ UNCHANGED <<list, super, mounts>>
  /\ task[t].pc = "open" /\ task'[t].pc = "sget"
  /\ task'[t].mount = task[t].mount /\ task'[t].part = task[t].part
  /\ i \in Ids /\ info[i].state = "live"
  /\ info'[i].state = info[i].state /\ info'[i].sb = info[i].sb /\ info'[i].devices
  /\ \A j \in Ids : j # i => info'[j] = info[j]

DidSgetNew(t) ==
  LET s == Id(task[t].mount, task[t].part) IN
  /\ Only(t) /\ UNCHANGED <<list, info, mounts>>
  /\ task[t].pc = "sget" /\ task'[t].pc = "fill"
  /\ task'[t].mount = task[t].mount /\ task'[t].part = task[t].part
  /\ list[task[t].part] \in Ids /\ info[list[task[t].part]].state = "live"
  /\ \A r \in Ids : Alive(r) /\ r[2] = task[t].part /\ info[super[r].info].devices
       => ~info[list[task[t].part]].devices
  /\ super'[s].state = "locked" /\ super'[s].info = list[task[t].part]
  /\ \A r \in Ids : r # s => super'[r] = super[r]

DidSgetOld(t) ==
  LET i == list[task[t].part] IN
  /\ Only(t) /\ UNCHANGED <<list, mounts>>
  /\ task[t].pc = "sget" /\ task'[t].pc = "idle" /\ task[t].part = 0
  /\ i \in Ids /\ info[i].state = "live"
  /\ info'[i].state = "freed" /\ info'[i].sb = info[i].sb /\ info'[i].devices = info[i].devices
  /\ \A j \in Ids : j # i => info'[j] = info[j]
  /\ \A r \in Ids : super'[r].state = super[r].state /\ super'[r].info = super[r].info

DidFill(t, s, i) ==
  /\ Only(t) /\ UNCHANGED <<list, mounts>>
  /\ task[t].pc = "fill" /\ s = Id(task[t].mount, task[t].part) /\ s \in Ids
  /\ super[s].state = "locked" /\ i = super[s].info /\ i \in Ids /\ i[2] = task[t].part
  /\ info[i].state = "live"
  /\ info'[i].state = info[i].state /\ info'[i].devices = info[i].devices
  /\ \A j \in Ids : j # i => info'[j] = info[j]
  /\ \A r \in Ids : r # s => super'[r] = super[r]
  /\ super'[s].info = super[s].info

DidFillNext(t, s, i) ==
  /\ DidFill(t, s, i)
  /\ info'[i].sb = s /\ super'[s].state = "locked"
  /\ task[t].part > 0 /\ task'[t].part = task[t].part - 1
  /\ task'[t].pc = "alloc" /\ task'[t].mount = task[t].mount

DidFillLast(t, s, i) ==
  /\ DidFill(t, s, i)
  /\ info'[i].sb = s /\ super'[s].state = "free"
  /\ task[t].part = 0 /\ task'[t].pc = "idle"

DidFillFail(t, s, i) ==
  /\ DidFill(t, s, i)
  /\ info'[i].sb = s \/ info'[i].sb = info[i].sb
  /\ super'[s].state = "locked"
  /\ task'[t].pc = "compare" /\ task'[t].sb = s /\ task'[t].cur = 0

DidUnmount(t, s) ==
  /\ Only(t) /\ UNCHANGED <<list, info, mounts>>
  /\ task[t].pc = "idle" /\ s \in Ids /\ s[2] = 0 /\ super[s].state = "free"
  /\ super'[s].state = "locked" /\ super'[s].info = super[s].info
  /\ \A r \in Ids : r # s => super'[r] = super[r]
  /\ task'[t].pc = "compare" /\ task'[t].sb = s /\ task'[t].cur = 0

DidCompareHit(t) ==
  /\ Only(t) /\ UNCHANGED <<list, info, super, mounts>>
  /\ task[t].pc = "compare" /\ task[t].cur \in Partitions
  /\ list[task[t].cur] \in Ids /\ info[list[task[t].cur]].state = "live"
  /\ info[list[task[t].cur]].sb = task[t].sb
  /\ task'[t].pc = "umount" /\ task'[t].part = Last
  /\ task'[t].cur = task[t].cur /\ task'[t].sb = task[t].sb

DidCompareNext(t) ==
  /\ Only(t) /\ UNCHANGED <<list, info, super, mounts>>
  /\ task[t].pc = "compare" /\ task[t].cur \in Partitions
  /\ list[task[t].cur] \in Ids /\ info[list[task[t].cur]].state = "live"
  /\ info[list[task[t].cur]].sb # task[t].sb
  /\ task'[t].pc = "compare" /\ task'[t].cur = task[t].cur + 1 /\ task'[t].sb = task[t].sb

DidUmount(t, q) ==
  /\ Only(t) /\ UNCHANGED <<list, info, mounts>>
  /\ task[t].pc = "umount" /\ q = task[t].part
  /\ list[q] \in Ids /\ info[list[q]].state = "live"
  /\ task'[t].sb = task[t].sb
  /\ \/ q = 0 /\ task'[t].pc = "compare" /\ task'[t].cur = task[t].cur + 1
     \/ /\ q > 0 /\ task'[t].pc = "umount" /\ task'[t].cur = task[t].cur
        /\ task'[t].part = q - 1

DidUmountSkip(t, q) == DidUmount(t, q) /\ q = task[t].cur /\ UNCHANGED super

DidUmountKill(t, q, s) ==
  /\ DidUmount(t, q) /\ q # task[t].cur
  /\ s = info[list[q]].sb /\ s \in Ids /\ Alive(s)
  /\ super'[s].state = "dead" /\ super'[s].info = super[s].info
  /\ \A r \in Ids : r # s => super'[r] = super[r]

DidKilled(t, s, i) ==
  /\ Only(t) /\ UNCHANGED <<list, mounts>>
  /\ task[t].pc = "compare" /\ task[t].cur = Last + 1 /\ s = task[t].sb /\ s \in Ids
  /\ Alive(s) /\ i = super[s].info /\ i \in Ids /\ info[i].state = "live"
  /\ task'[t].pc = "idle"
  /\ super'[s].state = "dead" /\ super'[s].info = super[s].info
  /\ \A r \in Ids : r # s => super'[r] = super[r]
  /\ info'[i].state = "freed" /\ info'[i].sb = info[i].sb /\ info'[i].devices = info[i].devices
  /\ \A j \in Ids : j # i => info'[j] = info[j]

DidOops(t) == /\ Only(t) /\ UNCHANGED <<list, info, super, mounts>>
              /\ task'[t].pc = "oops"

(* What the assignments of the model do. *)
LEMMA Steps ==
  ASSUME TypeInv, NEW t \in Tasks
  PROVE  /\ \A pc : Goto(t, pc) =>
              /\ Only(t) /\ task'[t].pc = pc /\ task'[t].mount = task[t].mount
              /\ task'[t].part = task[t].part
         /\ Return(t) => Only(t) /\ task'[t].pc = "idle"
         /\ \A s : KillSuper(t, s) =>
              /\ Only(t) /\ task'[t].pc = "compare" /\ task'[t].sb = s
              /\ task'[t].cur = 0
         /\ Oops(t) => Only(t) /\ task'[t].pc = "oops" /\ UNCHANGED <<list, info, super>>
  <1>1. \A r : task' = [task EXCEPT ![t] = r] => Only(t)
    BY TypeFacts DEF Only
  <1>2. \A pc : Goto(t, pc) =>
              /\ Only(t) /\ task'[t].pc = pc /\ task'[t].mount = task[t].mount
              /\ task'[t].part = task[t].part
    BY <1>1, TaskChange
  <1>3. Return(t) => Only(t) /\ task'[t].pc = "idle"
    BY <1>1, TaskChange, IdleTask
  <1>4. \A s : KillSuper(t, s) =>
              /\ Only(t) /\ task'[t].pc = "compare" /\ task'[t].sb = s
              /\ task'[t].cur = 0
    BY <1>1, TaskChange
  <1>5. QED BY <1>2, <1>3, <1>4 DEF Oops

LEMMA InfoSteps ==
  ASSUME TypeInv, NEW i \in Ids
  PROVE  /\ \A x : info' = [info EXCEPT ![i].state = x] =>
              /\ info'[i].state = x /\ info'[i].sb = info[i].sb
              /\ info'[i].devices = info[i].devices
              /\ \A j \in Ids : j # i => info'[j] = info[j]
         /\ \A x : info' = [info EXCEPT ![i].devices = x] =>
              /\ info'[i].state = info[i].state /\ info'[i].sb = info[i].sb
              /\ info'[i].devices = x
              /\ \A j \in Ids : j # i => info'[j] = info[j]
         /\ \A x : info' = [info EXCEPT ![i].sb = x] =>
              /\ info'[i].state = info[i].state /\ info'[i].sb = x
              /\ info'[i].devices = info[i].devices
              /\ \A j \in Ids : j # i => info'[j] = info[j]
  <1>1. info \in [Ids -> Infos] /\ info[i] \in Infos
    BY TypeFacts
  <1>2. ASSUME NEW x, info' = [info EXCEPT ![i].state = x]
        PROVE  /\ info'[i].state = x /\ info'[i].sb = info[i].sb
               /\ info'[i].devices = info[i].devices
               /\ \A j \in Ids : j # i => info'[j] = info[j]
    BY <1>1, <1>2 DEF Infos
  <1>3. ASSUME NEW x, info' = [info EXCEPT ![i].devices = x]
        PROVE  /\ info'[i].state = info[i].state /\ info'[i].sb = info[i].sb
               /\ info'[i].devices = x
               /\ \A j \in Ids : j # i => info'[j] = info[j]
    BY <1>1, <1>3 DEF Infos
  <1>4. ASSUME NEW x, info' = [info EXCEPT ![i].sb = x]
        PROVE  /\ info'[i].state = info[i].state /\ info'[i].sb = x
               /\ info'[i].devices = info[i].devices
               /\ \A j \in Ids : j # i => info'[j] = info[j]
    BY <1>1, <1>4 DEF Infos
  <1>5. QED BY <1>2, <1>3, <1>4

LEMMA SuperSteps ==
  ASSUME TypeInv, NEW s \in Ids
  PROVE  /\ \A x : super' = [super EXCEPT ![s].state = x] =>
              /\ super'[s].state = x /\ super'[s].info = super[s].info
              /\ \A r \in Ids : r # s => super'[r] = super[r]
         /\ \A x : super' = [super EXCEPT ![s].root = x] =>
              /\ super'[s].state = super[s].state /\ super'[s].info = super[s].info
              /\ \A r \in Ids : r # s => super'[r] = super[r]
  <1>1. super \in [Ids -> Supers] /\ super[s] \in Supers
    BY TypeFacts
  <1>2. ASSUME NEW x, super' = [super EXCEPT ![s].state = x]
        PROVE  /\ super'[s].state = x /\ super'[s].info = super[s].info
               /\ \A r \in Ids : r # s => super'[r] = super[r]
    BY <1>1, <1>2 DEF Supers
  <1>3. ASSUME NEW x, super' = [super EXCEPT ![s].root = x]
        PROVE  /\ super'[s].state = super[s].state /\ super'[s].info = super[s].info
               /\ \A r \in Ids : r # s => super'[r] = super[r]
    BY <1>1, <1>3 DEF Supers
  <1>4. QED BY <1>2, <1>3

LEMMA MountCallDoes ==
  ASSUME TypeInv, NEW t \in Tasks, MountCall(t)
  PROVE  DidMountCall(t)
  <1> DEFINE r == [Idle EXCEPT !.pc = "alloc", !.mount = mounts + 1,
                               !.part = Last]
  <1>1. /\ task[t].pc = "idle" /\ mounts < MaxMounts /\ mounts' = mounts + 1
        /\ UNCHANGED <<list, info, super>> /\ task' = [task EXCEPT ![t] = r]
    BY DEF MountCall
  <1>2. mounts + 1 \in 1 .. MaxMounts
    BY <1>1, TypeFacts, Facts
  <1>3. r.pc = "alloc" /\ r.mount = mounts + 1 /\ r.part = Last
    BY DEF Idle
  <1> HIDE DEF r
  <1>4. Only(t) /\ task'[t] = r
    BY <1>1, TypeFacts DEF Only
  <1>5. \A q \in Partitions : Id(mounts + 1, q) \in Ids /\ Id(mounts + 1, q)[1] = mounts + 1
                              /\ Id(mounts + 1, q)[2] = q
    BY <1>2, Facts
  <1>6. QED BY <1>1, <1>3, <1>4, <1>5 DEF DidMountCall

LEMMA AllocDoes ==
  ASSUME TypeInv, NEW t \in Tasks, Alloc(t)
  PROVE  DidAlloc(t)
  <1> DEFINE i == Id(task[t].mount, task[t].part)
  <1>1. /\ task[t].pc = "alloc" /\ list' = [list EXCEPT ![task[t].part] = i]
        /\ info' = [info EXCEPT ![i].state = "live"]
        /\ Goto(t, "open") /\ super' = super /\ mounts' = mounts
    BY DEF Alloc, Id
  <1>2. i \in Ids
    BY <1>1, TaskAt
  <1> HIDE DEF i
  <1>3. /\ info'[i].state = "live" /\ info'[i].sb = info[i].sb
        /\ info'[i].devices = info[i].devices
        /\ \A j \in Ids : j # i => info'[j] = info[j]
    BY <1>1, <1>2, InfoSteps
  <1>4. \A q \in Partitions : list'[q] = IF q = task[t].part THEN i ELSE list[q]
    BY <1>1, TypeFacts
  <1>5. QED BY <1>1, <1>3, <1>4, Steps DEF DidAlloc, i

LEMMA AllocFailsDoes ==
  ASSUME TypeInv, NEW t \in Tasks, AllocFails(t)
  PROVE  DidAllocFails(t)
  <1>1. /\ task[t].pc = "alloc" /\ list' = [list EXCEPT ![task[t].part] = None]
        /\ Return(t) /\ info' = info /\ super' = super /\ mounts' = mounts
    BY DEF AllocFails
  <1>2. \A q \in Partitions : list'[q] = IF q = task[t].part THEN None ELSE list[q]
    BY <1>1, TypeFacts
  <1>3. QED BY <1>1, <1>2, Steps DEF DidAllocFails

LEMMA OopsDoes ==
  ASSUME TypeInv, NEW t \in Tasks, Oops(t), UNCHANGED mounts
  PROVE  DidOops(t)
  BY Steps DEF DidOops

LEMMA OpenDoes ==
  ASSUME TypeInv, Base, NEW t \in Tasks, OpenDevices(t) \/ OpenFails(t)
  PROVE  DidOpen(t) \/ DidOops(t)
  <1> DEFINE i == list[task[t].part]
  <1>1. CASE OpenFails(t) \/ Stale(task[t].part)
    BY <1>1, OopsDoes DEF OpenFails, OpenDevices
  <1>2. CASE OpenDevices(t) /\ ~Stale(task[t].part)
    <2>1. /\ task[t].pc = "open" /\ info' = [info EXCEPT ![i].devices = TRUE]
          /\ Goto(t, "sget") /\ list' = list /\ super' = super /\ mounts' = mounts
      BY <1>2 DEF OpenDevices
    <2>2. i \in Ids /\ info[i].state = "live"
      BY <1>2, TaskAt, TypeFacts DEF Stale, Base, ListKnown, Infos
    <2> HIDE DEF i
    <2>3. /\ info'[i].state = info[i].state /\ info'[i].sb = info[i].sb
          /\ info'[i].devices = TRUE
          /\ \A j \in Ids : j # i => info'[j] = info[j]
      BY <2>1, <2>2, InfoSteps
    <2>4. QED BY <2>1, <2>2, <2>3, Steps DEF DidOpen, i
  <1>3. QED BY <1>1, <1>2

LEMMA Advances ==
  ASSUME NEW t, NEW s, NEW supers, Advance(t, s, supers)
  PROVE  \/ /\ task[t].part # 0 /\ super' = supers
            /\ task' = [task EXCEPT ![t].pc = "alloc", ![t].part = task[t].part - 1]
         \/ /\ task[t].part = 0 /\ Return(t)
            /\ super' = [supers EXCEPT ![s].state = "free"]
  BY DEF Advance

LEMMA SgetDoes ==
  ASSUME TypeInv, Base, NEW t \in Tasks, Sget(t)
  PROVE  DidSgetNew(t) \/ DidSgetOld(t) \/ DidOops(t)
  <1> DEFINE p == task[t].part  s == Id(task[t].mount, p)  i == list[p]
  <1>1. task[t].pc = "sget" /\ mounts' = mounts
    BY DEF Sget
  <1>2. CASE Stale(p)
    BY <1>2, OopsDoes DEF Sget
  <1>3. CASE ~Stale(p)
    <2>1. i \in Ids /\ info[i].state = "live" /\ s \in Ids /\ p \in Partitions
      BY <1>1, <1>3, TaskAt, TypeFacts DEF Stale, Base, ListKnown, Infos
    <2>2. CASE /\ Matching(p) = {}
               /\ super' = [super EXCEPT ![s] = [state |-> "locked", root |-> FALSE,
                                                 info |-> list[p]]]
               /\ Goto(t, "fill")
               /\ UNCHANGED <<list, info>>
      <3>1. /\ super'[s].state = "locked" /\ super'[s].info = i
            /\ \A r \in Ids : r # s => super'[r] = super[r]
        BY <2>1, <2>2, TypeFacts
      <3>2. \A r \in Ids : Alive(r) /\ r[2] = p /\ info[super[r].info].devices
              => ~info[i].devices
        BY <2>2 DEF Matching, PartOf
      <3>3. /\ Only(t) /\ task'[t].pc = "fill" /\ task'[t].mount = task[t].mount
            /\ task'[t].part = task[t].part
        BY <2>2, Steps
      <3>4. DidSgetNew(t)
        BY <1>1, <2>1, <2>2, <3>1, <3>2, <3>3 DEF DidSgetNew
      <3>5. QED BY <3>4
    <2>3. CASE \E old \in Matching(p) :
                /\ Free(old)
                /\ info' = [info EXCEPT ![list[p]].state = "freed"]
                /\ Advance(t, old, [super EXCEPT ![old].state = "locked"])
                /\ UNCHANGED list
      <3>1. PICK old \in Matching(p) :
                /\ Free(old)
                /\ info' = [info EXCEPT ![list[p]].state = "freed"]
                /\ Advance(t, old, [super EXCEPT ![old].state = "locked"])
                /\ UNCHANGED list
        BY <2>3
      <3>2. old \in Ids /\ super[old].state = "free" /\ p = 0
        BY <3>1 DEF Matching, Free, PartOf, Base, FirstFree
      <3>3. /\ super' = [[super EXCEPT ![old].state = "locked"] EXCEPT ![old].state = "free"]
            /\ Return(t)
        BY <3>1, <3>2, Advances, Zenon
      <3>4. \A r \in Ids : super'[r].state = super[r].state /\ super'[r].info = super[r].info
        BY <3>2, <3>3, TypeFacts DEF Supers
      <3>5. /\ info'[i].state = "freed" /\ info'[i].sb = info[i].sb
            /\ info'[i].devices = info[i].devices
            /\ \A j \in Ids : j # i => info'[j] = info[j]
        BY <2>1, <3>1, InfoSteps, Zenon
      <3>6. Only(t) /\ task'[t].pc = "idle"
        BY <3>3, Steps
      <3>7. DidSgetOld(t)
        BY <1>1, <2>1, <3>1, <3>2, <3>4, <3>5, <3>6 DEF DidSgetOld
      <3>8. QED BY <3>7
    <2>4. QED BY <1>3, <2>2, <2>3 DEF Sget, Id
  <1>4. QED BY <1>2, <1>3

LEMMA FillWhere ==
  ASSUME TypeInv, Base, NEW t \in Tasks, task[t].pc = "fill"
  PROVE  LET s == Id(task[t].mount, task[t].part)  i == super[s].info IN
         /\ s \in Ids /\ super[s].state = "locked" /\ Alive(s)
         /\ i \in Ids /\ i[2] = task[t].part /\ info[i].state = "live"
  <1> DEFINE s == Id(task[t].mount, task[t].part)
  <1>1. s \in Ids /\ s[2] = task[t].part
    BY TaskAt, Facts
  <1>2. super[s].state = "locked"
    BY DEF Base, FillLocked
  <1>3. Alive(s)
    BY <1>2 DEF Alive
  <1>4. QED BY <1>1, <1>2, <1>3 DEF Base, SuperKnown, Kept

LEMMA FillDoes ==
  ASSUME TypeInv, Base, NEW t \in Tasks, Fill(t)
  PROVE  \E s, i \in Ids : DidFillNext(t, s, i) \/ DidFillLast(t, s, i)
  <1> DEFINE p == task[t].part  s == Id(task[t].mount, p)  i == super[s].info
  <1>1. task[t].pc = "fill"
    BY DEF Fill
  <1>2. /\ s \in Ids /\ super[s].state = "locked" /\ Alive(s)
        /\ i \in Ids /\ i[2] = p /\ info[i].state = "live"
    BY <1>1, FillWhere
  <1>3. p \in Partitions /\ (p # 0 => p > 0)
    BY TaskAt, Facts
  <1>4. /\ list' = list /\ mounts' = mounts
        /\ info' = [info EXCEPT ![i].sb = s]
        /\ Advance(t, s, [super EXCEPT ![s].root = TRUE])
    BY <1>2, Zenon DEF Fill, Id
  <1>5. s = Id(task[t].mount, p) /\ i = super[s].info
    OBVIOUS
  <1>6. \/ /\ p # 0 /\ super' = [super EXCEPT ![s].root = TRUE]
           /\ task' = [task EXCEPT ![t].pc = "alloc", ![t].part = p - 1]
        \/ /\ p = 0
           /\ super' = [[super EXCEPT ![s].root = TRUE] EXCEPT ![s].state = "free"]
           /\ Return(t)
    BY <1>4, Advances, Zenon
  <1> HIDE DEF s, i
  <1>7. /\ info'[i].state = info[i].state /\ info'[i].sb = s
        /\ info'[i].devices = info[i].devices
        /\ \A j \in Ids : j # i => info'[j] = info[j]
    BY <1>2, <1>4, InfoSteps
  <1>8. CASE /\ p # 0 /\ super' = [super EXCEPT ![s].root = TRUE]
             /\ task' = [task EXCEPT ![t].pc = "alloc", ![t].part = p - 1]
    <2>1. /\ super'[s].state = "locked" /\ super'[s].info = super[s].info
          /\ \A r \in Ids : r # s => super'[r] = super[r]
      BY <1>2, <1>8, SuperSteps
    <2>2. /\ Only(t) /\ task'[t].pc = "alloc" /\ task'[t].part = p - 1
          /\ task'[t].mount = task[t].mount
      BY <1>8, TypeFacts DEF Only, TaskRecords
    <2>3. DidFill(t, s, i)
      BY <1>1, <1>2, <1>4, <1>5, <1>7, <2>1, <2>2, Zenon DEF DidFill
    <2>4. DidFillNext(t, s, i)
      BY <1>3, <1>7, <1>8, <2>1, <2>2, <2>3 DEF DidFillNext
    <2>5. QED BY <1>2, <2>4
  <1>9. CASE /\ p = 0
             /\ super' = [[super EXCEPT ![s].root = TRUE] EXCEPT ![s].state = "free"]
             /\ Return(t)
    <2>1. /\ super'[s].state = "free" /\ super'[s].info = super[s].info
          /\ \A r \in Ids : r # s => super'[r] = super[r]
      BY <1>2, <1>9, TypeFacts DEF Supers
    <2>2. Only(t) /\ task'[t].pc = "idle"
      BY <1>9, Steps, Zenon
    <2>3. DidFill(t, s, i)
      BY <1>1, <1>2, <1>4, <1>5, <1>7, <2>1, <2>2, Zenon DEF DidFill
    <2>4. DidFillLast(t, s, i)
      BY <1>7, <1>9, <2>1, <2>2, <2>3 DEF DidFillLast
    <2>5. QED BY <1>2, <2>4
  <1>10. QED BY <1>6, <1>8, <1>9

LEMMA FillFailDoes ==
  ASSUME TypeInv, Base, NEW t \in Tasks, SetupBdiFails(t) \/ OpenCtreeFails(t)
  PROVE  \E s, i \in Ids : DidFillFail(t, s, i)
  <1> DEFINE p == task[t].part  s == Id(task[t].mount, p)  i == super[s].info
  <1>1. task[t].pc = "fill"
    BY DEF SetupBdiFails, OpenCtreeFails
  <1>2. /\ s \in Ids /\ super[s].state = "locked"
        /\ i \in Ids /\ i[2] = p /\ info[i].state = "live"
    BY <1>1, FillWhere
  <1>3. /\ list' = list /\ super' = super /\ mounts' = mounts
        /\ info' = info \/ info' = [info EXCEPT ![i].sb = s]
        /\ KillSuper(t, s)
    BY DEF SetupBdiFails, OpenCtreeFails, Id
  <1>4. s = Id(task[t].mount, p) /\ i = super[s].info
    OBVIOUS
  <1> HIDE DEF s, i, p
  <1>5. /\ info'[i].state = info[i].state
        /\ info'[i].sb = s \/ info'[i].sb = info[i].sb
        /\ info'[i].devices = info[i].devices
        /\ \A j \in Ids : j # i => info'[j] = info[j]
    BY <1>2, <1>3, InfoSteps
  <1>6. /\ Only(t) /\ task'[t].pc = "compare" /\ task'[t].sb = s /\ task'[t].cur = 0
    BY <1>3, Steps, Zenon
  <1>7. DidFill(t, s, i)
    BY <1>1, <1>2, <1>3, <1>4, <1>5, <1>6, Zenon DEF DidFill, p
  <1>8. DidFillFail(t, s, i)
    BY <1>2, <1>3, <1>5, <1>6, <1>7 DEF DidFillFail
  <1>9. QED BY <1>2, <1>8

LEMMA UnmountDoes ==
  ASSUME TypeInv, NEW t \in Tasks, NEW s \in Ids, Unmount(t, s)
  PROVE  DidUnmount(t, s)
  <1>1. /\ task[t].pc = "idle" /\ super[s].state = "free" /\ s[2] = 0
        /\ super' = [super EXCEPT ![s].state = "locked"] /\ KillSuper(t, s)
        /\ UNCHANGED <<list, info, mounts>>
    BY DEF Unmount, Mounted, PartOf
  <1>2. /\ super'[s].state = "locked" /\ super'[s].info = super[s].info
        /\ \A r \in Ids : r # s => super'[r] = super[r]
    BY <1>1, SuperSteps
  <1>3. QED BY <1>1, <1>2, Steps DEF DidUnmount

LEMMA CompareDoes ==
  ASSUME TypeInv, Base, NEW t \in Tasks, Compare(t)
  PROVE  DidCompareHit(t) \/ DidCompareNext(t) \/ DidOops(t)
  <1> DEFINE c == task[t].cur  i == list[c]
  <1>1. task[t].pc = "compare" /\ c < Parts /\ mounts' = mounts
    BY DEF Compare
  <1>2. CASE Stale(c)
    BY <1>2, OopsDoes DEF Compare
  <1>3. CASE ~Stale(c)
    <2>1. c \in Partitions
      BY <1>1, TaskAt, Facts DEF TaskRecords, Partitions
    <2>2. i \in Ids /\ info[i].state = "live"
      BY <1>3, <2>1, TaskAt, TypeFacts DEF Stale, Base, ListKnown, Infos
    <2>3. UNCHANGED <<list, info, super>>
      BY <1>3 DEF Compare
    <2>4. CASE info[i].sb = task[t].sb
      <3>1. task' = [task EXCEPT ![t].pc = "umount", ![t].part = Last]
        BY <1>3, <2>4 DEF Compare, UmountFrom
      <3>2. /\ Only(t) /\ task'[t].pc = "umount" /\ task'[t].part = Last
            /\ task'[t].cur = task[t].cur /\ task'[t].sb = task[t].sb
        BY <3>1, TypeFacts DEF Only, TaskRecords
      <3>3. DidCompareHit(t)
        BY <1>1, <2>1, <2>2, <2>3, <2>4, <3>2 DEF DidCompareHit
      <3>4. QED BY <3>3
    <2>5. CASE info[i].sb # task[t].sb
      <3>1. task' = [task EXCEPT ![t].cur = c + 1]
        BY <1>3, <2>5 DEF Compare
      <3>2. /\ Only(t) /\ task'[t].pc = task[t].pc
            /\ task'[t].cur = task[t].cur + 1 /\ task'[t].sb = task[t].sb
        BY <3>1, TypeFacts DEF Only, TaskRecords
      <3>3. DidCompareNext(t)
        BY <1>1, <2>1, <2>2, <2>3, <2>5, <3>2 DEF DidCompareNext
      <3>4. QED BY <3>3
    <2>6. QED BY <2>4, <2>5
  <1>4. QED BY <1>2, <1>3

LEMMA UmountMoves ==
  ASSUME TypeInv, Base, NEW t \in Tasks, task[t].pc = "umount",
         ~Stale(task[t].part), UNCHANGED <<list, info, mounts>>,
         task' = IF task[t].part = UmountTo
                 THEN [task EXCEPT ![t].pc = "compare", ![t].cur = @ + 1]
                 ELSE [task EXCEPT ![t].part = task[t].part - 1]
  PROVE  DidUmount(t, task[t].part) /\ list[task[t].part] \in Ids
  <1> DEFINE q == task[t].part
  <1>1. q \in Partitions /\ list[q] \in Ids /\ info[list[q]].state = "live"
    BY TaskAt, TypeFacts DEF Stale, Base, ListKnown, Infos
  <1>2. CASE q = 0
    <2>1. task' = [task EXCEPT ![t].pc = "compare", ![t].cur = @ + 1]
      BY <1>2 DEF UmountTo
    <2>2. /\ Only(t) /\ task'[t].pc = "compare"
          /\ task'[t].cur = task[t].cur + 1 /\ task'[t].sb = task[t].sb
      BY <2>1, TypeFacts DEF Only, TaskRecords
    <2>3. QED BY <1>1, <1>2, <2>2 DEF DidUmount
  <1>3. CASE q # 0
    <2>1. task' = [task EXCEPT ![t].part = q - 1]
      BY <1>3 DEF UmountTo
    <2>2. /\ Only(t) /\ task'[t].pc = task[t].pc /\ task'[t].part = q - 1
          /\ task'[t].cur = task[t].cur /\ task'[t].sb = task[t].sb
      BY <2>1, TypeFacts DEF Only, TaskRecords
    <2>3. q > 0
      BY <1>1, <1>3, Facts
    <2>4. QED BY <1>1, <2>2, <2>3 DEF DidUmount
  <1>4. QED BY <1>1, <1>2, <1>3

LEMMA SbType ==
  ASSUME TypeInv, NEW i \in Ids, info[i].sb # None
  PROVE  info[i].sb \in Ids
  BY TypeFacts DEF Infos

LEMMA UmountKills ==
  ASSUME TypeInv, NEW t \in Tasks, NEW q, NEW s, DidUmount(t, q),
         q # task[t].cur, list[q] \in Ids, s = info[list[q]].sb, s # None, Alive(s),
         super' = [super EXCEPT ![s].state = "dead"]
  PROVE  DidUmountKill(t, q, s) /\ s \in Ids
  <1>1. s \in Ids
    BY SbType, Zenon
  <1>2. /\ super'[s].state = "dead" /\ super'[s].info = super[s].info
        /\ \A r \in Ids : r # s => super'[r] = super[r]
    BY <1>1, SuperSteps, Zenon
  <1>3. QED BY <1>1, <1>2, Zenon DEF DidUmountKill

LEMMA UmountDoes ==
  ASSUME TypeInv, Base, NEW t \in Tasks, UmountMultiple(t)
  PROVE  \/ DidOops(t) \/ DidUmountSkip(t, task[t].part)
         \/ \E s \in Ids : DidUmountKill(t, task[t].part, s)
  <1> DEFINE q == task[t].part  s == info[list[q]].sb
             next == IF q = UmountTo
                     THEN [task EXCEPT ![t].pc = "compare", ![t].cur = @ + 1]
                     ELSE [task EXCEPT ![t].part = q - 1]
  <1>1. task[t].pc = "umount" /\ mounts' = mounts
    BY Zenon DEF UmountMultiple
  <1>2. \/ Oops(t)
        \/ /\ ~Stale(q) /\ task' = next /\ UNCHANGED <<list, info>>
           /\ \/ q = task[t].cur /\ UNCHANGED super
              \/ /\ q # task[t].cur /\ s # None /\ Alive(s)
                 /\ super' = [super EXCEPT ![s].state = "dead"]
    BY Zenon DEF UmountMultiple, Deactivated
  <1>3. ~Stale(q) /\ task' = next /\ UNCHANGED <<list, info>>
          => DidUmount(t, q) /\ list[q] \in Ids
    BY <1>1, UmountMoves, Zenon
  <1> HIDE DEF next
  <1>4. CASE Oops(t)
    BY <1>1, <1>4, OopsDoes, Zenon
  <1>5. CASE DidUmount(t, q) /\ q = task[t].cur /\ UNCHANGED super
    BY <1>5, Zenon DEF DidUmountSkip
  <1>6. CASE /\ DidUmount(t, q) /\ list[q] \in Ids
             /\ q # task[t].cur /\ s # None /\ Alive(s)
             /\ super' = [super EXCEPT ![s].state = "dead"]
    BY <1>3, <1>6, UmountKills, Zenon
  <1>7. QED BY <1>2, <1>3, <1>4, <1>5, <1>6, Zenon

LEMMA KilledDoes ==
  ASSUME TypeInv, Base, NEW t \in Tasks, Killed(t)
  PROVE  DidOops(t) \/ \E s, i \in Ids : DidKilled(t, s, i)
  <1> DEFINE s == task[t].sb  i == super[s].info
  <1>1. task[t].pc = "compare" /\ task[t].cur = Last + 1 /\ mounts' = mounts
    BY Facts DEF Killed, Last
  <1>2. CASE ~Alive(s)
    BY <1>1, <1>2, OopsDoes DEF Killed
  <1>3. CASE Alive(s)
    <2>1. s \in Ids
      BY <1>1 DEF Base, Closed, Closing
    <2>2. i \in Ids /\ info[i].state = "live"
      BY <1>3, <2>1 DEF Base, SuperKnown, Kept, Alive
    <2>3. /\ super' = [super EXCEPT ![s].state = "dead"]
          /\ info' = [info EXCEPT ![i].state = "freed"]
          /\ Return(t) /\ UNCHANGED list
      BY <1>3 DEF Killed
    <2>4. s = task[t].sb /\ i = super[s].info
      OBVIOUS
    <2> HIDE DEF s, i
    <2>5. /\ super'[s].state = "dead" /\ super'[s].info = super[s].info
          /\ \A r \in Ids : r # s => super'[r] = super[r]
      BY <2>1, <2>3, SuperSteps
    <2>6. /\ info'[i].state = "freed" /\ info'[i].sb = info[i].sb
          /\ info'[i].devices = info[i].devices
          /\ \A j \in Ids : j # i => info'[j] = info[j]
      BY <2>2, <2>3, InfoSteps
    <2>7. Only(t) /\ task'[t].pc = "idle"
      BY <2>3, Steps, Zenon
    <2>8. DidKilled(t, s, i)
      BY <1>1, <1>3, <2>1, <2>2, <2>3, <2>4, <2>5, <2>6, <2>7 DEF DidKilled
    <2>9. QED BY <2>1, <2>2, <2>8
  <1>4. QED BY <1>2, <1>3

-----------------------------------------------------------------------------
(***************************************************************************)
(* Base is kept                                                            *)
(***************************************************************************)
LEMMA AllocInfosAhead ==
  ASSUME PartsInt, TaskPart, TaskIds, OwnApart, InfosAhead, NEW t \in Tasks,
         DidAlloc(t)
  PROVE  InfosAhead'
  <1> SUFFICES ASSUME NEW v \in Tasks, NEW q \in Partitions, Opening(v)',
                      q < task'[v].part \/ (q = task'[v].part /\ task'[v].pc = "alloc")
               PROVE  info'[Id(task'[v].mount, q)].state = "none"
    BY DEF InfosAhead
  <1>1. Opening(t) /\ task[t].part \in Partitions
    BY DEF Opening, TaskPart, DidAlloc
  <1>2. CASE v = t
    <2>1. q < task[t].part /\ task'[t].mount = task[t].mount
      BY <1>2 DEF DidAlloc
    <2>2. q # task[t].part
      BY <1>1, <2>1 DEF PartsInt
    <2>3. Id(task[t].mount, q) \in Ids /\ Id(task[t].mount, q) # Id(task[t].mount, task[t].part)
      BY <1>1, <2>2 DEF TaskIds
    <2> QED
      BY <1>1, <1>2, <2>1, <2>3 DEF InfosAhead, DidAlloc
  <1>3. CASE v # t
    <2>1. task'[v] = task[v] /\ Opening(v) /\ task[v].mount # task[t].mount
      BY <1>1, <1>3 DEF DidAlloc, Only, OwnApart, Own, Opening
    <2> QED
      BY <1>1, <2>1 DEF InfosAhead, DidAlloc, TaskIds
  <1> QED
    BY <1>2, <1>3

LEMMA SgetNewSuperKnown ==
  ASSUME TaskPart, TaskIds, NoneOut, ListKnown, SuperKnown, NEW t \in Tasks,
         DidSgetNew(t)
  PROVE  SuperKnown'
  <1> DEFINE s == Id(task[t].mount, task[t].part)
  <1>1. s \in Ids /\ s[2] = task[t].part
    BY DEF TaskIds, TaskPart, Opening, DidSgetNew
  <1>2. list[task[t].part] \in Ids /\ list[task[t].part][2] = task[t].part
    BY DEF ListKnown, TaskPart, NoneOut, DidSgetNew
  <1> QED
    BY <1>1, <1>2 DEF SuperKnown, DidSgetNew

LEMMA SgetNewSupersAhead ==
  ASSUME PartsInt, TaskPart, TaskIds, OwnApart, SupersAhead, NEW t \in Tasks,
         DidSgetNew(t)
  PROVE  SupersAhead'
  <1> SUFFICES ASSUME NEW v \in Tasks, NEW q \in Partitions, Opening(v)',
                      q < task'[v].part \/ (q = task'[v].part /\ task'[v].pc # "fill")
               PROVE  super'[Id(task'[v].mount, q)].state = "none"
    BY DEF SupersAhead
  <1>1. Opening(t) /\ task[t].part \in Partitions
    BY DEF Opening, TaskPart, DidSgetNew
  <1>2. CASE v = t
    <2>1. q < task[t].part /\ task'[t].mount = task[t].mount
      BY <1>2 DEF DidSgetNew
    <2>2. q # task[t].part
      BY <1>1, <2>1 DEF PartsInt
    <2>3. Id(task[t].mount, q) \in Ids /\ Id(task[t].mount, q) # Id(task[t].mount, task[t].part)
      BY <1>1, <2>2 DEF TaskIds
    <2> QED
      BY <1>1, <1>2, <2>1, <2>3 DEF SupersAhead, DidSgetNew
  <1>3. CASE v # t
    <2>1. task'[v] = task[v] /\ Opening(v) /\ task[v].mount # task[t].mount
      BY <1>1, <1>3 DEF DidSgetNew, Only, OwnApart, Own, Opening
    <2> QED
      BY <1>1, <2>1 DEF SupersAhead, DidSgetNew, TaskIds
  <1> QED
    BY <1>2, <1>3

LEMMA SgetNewOpenedUnused ==
  ASSUME TwoTasks, OpenedBy, NEW t \in Tasks, DidSgetNew(t)
  PROVE  OpenedUnused'
  <1> SUFFICES ASSUME NEW v \in Tasks, task'[v].pc = "sget",
                      ~Stale(task[v].part)', ~info'[list'[task'[v].part]].devices
               PROVE  FALSE
    BY DEF OpenedUnused
  <1>1. v # t /\ task'[v] = task[v]
    BY DEF DidSgetNew, Only
  <1>2. PICK w \in Tasks : task[w].pc = "oops" \/ (task[w].pc = "open" /\ task[w].part = task[v].part)
    BY <1>1 DEF OpenedBy, DidSgetNew, Stale
  <1>3. w # t /\ w # v
    BY <1>1, <1>2 DEF DidSgetNew
  <1> QED
    BY <1>1, <1>3 DEF TwoTasks

LEMMA FillInfosAhead ==
  ASSUME PartsInt, TaskPart, TaskIds, InfosAhead, NEW t \in Tasks, NEW s,
         NEW i, DidFill(t, s, i),
         \/ DidFillNext(t, s, i) \/ DidFillLast(t, s, i) \/ DidFillFail(t, s, i)
  PROVE  InfosAhead'
  <1> SUFFICES ASSUME NEW v \in Tasks, NEW q \in Partitions, Opening(v)',
                      q < task'[v].part \/ (q = task'[v].part /\ task'[v].pc = "alloc")
               PROVE  info'[Id(task'[v].mount, q)].state = "none"
    BY DEF InfosAhead
  <1>1. \A j \in Ids : info'[j].state = info[j].state
    BY DEF DidFill
  <1>2. CASE v = t
    <2>1. DidFillNext(t, s, i)
      BY <1>2 DEF DidFillLast, DidFillFail, Opening
    <2>2. q < task[t].part /\ task'[t].mount = task[t].mount
      <3>1. task[t].part \in Int /\ q \in Int
        BY DEF TaskPart, PartsInt
      <3>2. q <= task[t].part - 1
        BY <1>2, <2>1, <3>1 DEF DidFillNext
      <3> QED
        BY <2>1, <3>1, <3>2 DEF DidFillNext
    <2> QED
      BY <1>1, <1>2, <2>2 DEF InfosAhead, DidFill, TaskIds, Opening
  <1>3. CASE v # t
    <2>1. task'[v] = task[v] /\ Opening(v)
      BY <1>3 DEF DidFill, Only, Opening
    <2> QED
      BY <1>1, <2>1 DEF InfosAhead, TaskIds
  <1> QED
    BY <1>2, <1>3

LEMMA FillSupersAhead ==
  ASSUME PartsInt, TaskPart, TaskIds, SupersAhead, NEW t \in Tasks, NEW s,
         NEW i, DidFill(t, s, i),
         \/ DidFillNext(t, s, i) \/ DidFillLast(t, s, i) \/ DidFillFail(t, s, i)
  PROVE  SupersAhead'
  <1> SUFFICES ASSUME NEW v \in Tasks, NEW q \in Partitions, Opening(v)',
                      q < task'[v].part \/ (q = task'[v].part /\ task'[v].pc # "fill")
               PROVE  super'[Id(task'[v].mount, q)].state = "none"
    BY DEF SupersAhead
  <1>1. \A r \in Ids : super[r].state = "none" => super'[r].state = "none"
    BY DEF DidFill
  <1>2. CASE v = t
    <2>1. DidFillNext(t, s, i)
      BY <1>2 DEF DidFillLast, DidFillFail, Opening
    <2>2. q < task[t].part /\ task'[t].mount = task[t].mount
      <3>1. task[t].part \in Int /\ q \in Int
        BY DEF TaskPart, PartsInt
      <3>2. q <= task[t].part - 1
        BY <1>2, <2>1, <3>1 DEF DidFillNext
      <3> QED
        BY <2>1, <3>1, <3>2 DEF DidFillNext
    <2> QED
      BY <1>1, <1>2, <2>2 DEF SupersAhead, DidFill, TaskIds, Opening
  <1>3. CASE v # t
    <2>1. task'[v] = task[v] /\ Opening(v)
      BY <1>3 DEF DidFill, Only, Opening
    <2> QED
      BY <1>1, <2>1 DEF SupersAhead, TaskIds
  <1> QED
    BY <1>2, <1>3

LEMMA FillFillLocked ==
  ASSUME TaskPart, TaskIds, OwnApart, FillLocked, NEW t \in Tasks, NEW s,
         NEW i, DidFill(t, s, i), task'[t].pc # "fill"
  PROVE  FillLocked'
  <1> SUFFICES ASSUME NEW v \in Tasks, task'[v].pc = "fill"
               PROVE  super'[Id(task'[v].mount, task'[v].part)].state = "locked"
    BY DEF FillLocked
  <1>1. task'[v] = task[v] /\ v # t
    BY DEF DidFill, Only
  <1>2. task[v].mount # task[t].mount
    BY <1>1 DEF OwnApart, Own, Opening, DidFill
  <1> QED
    BY <1>1, <1>2 DEF FillLocked, TaskIds, TaskPart, Opening, DidFill

LEMMA FillRest ==
  ASSUME PartsInt, TaskPart, TaskIds, NoneOut, ListKnown, OpenedBy,
         OpenedUnused, MineListed, NEW t \in Tasks, NEW s, NEW i,
         DidFill(t, s, i), task'[t].pc \in {"alloc", "idle", "compare"},
         super'[s].state \in {"locked", "free"}
  PROVE  OpenedBy' /\ OpenedUnused' /\ MineListed'
  <1>1. /\ UNCHANGED list /\ \A v \in Tasks : v # t => task'[v] = task[v]
        /\ \A j \in Ids : info'[j].state = info[j].state /\ info'[j].devices = info[j].devices
        /\ \A r \in Ids : super'[r].info = super[r].info /\ (Alive(r)' => Alive(r))
    BY DEF DidFill, Only, Alive
  <1>2. ASSUME NEW v \in Tasks, task'[v].pc = "sget",
               ~Stale(task[v].part)', ~info'[list'[task'[v].part]].devices
        PROVE  /\ task[v].pc = "sget" /\ task'[v] = task[v] /\ ~Stale(task[v].part)
               /\ ~info[list[task[v].part]].devices
    <2>1. task'[v] = task[v] /\ task[v].part \in Partitions /\ task[v].pc = "sget"
      BY <1>1, <1>2 DEF TaskPart
    <2> QED
      BY <1>1, <1>2, <2>1 DEF Stale, ListKnown
  <1>3. OpenedBy'
    <2> SUFFICES ASSUME NEW v \in Tasks, task'[v].pc = "sget",
                        ~Stale(task[v].part)', ~info'[list'[task'[v].part]].devices
                 PROVE  \E w \in Tasks : task'[w].pc = "oops"
                          \/ (task'[w].pc = "open" /\ task'[w].part = task'[v].part)
      BY DEF OpenedBy
    <2>1. PICK w \in Tasks : task[w].pc = "oops" \/ (task[w].pc = "open" /\ task[w].part = task[v].part)
      BY <1>2 DEF OpenedBy
    <2>2. w # t
      BY <2>1 DEF DidFill
    <2> QED
      BY <1>1, <1>2, <2>1, <2>2
  <1>4. OpenedUnused'
    BY <1>1, <1>2 DEF OpenedUnused, Unused
  <1>5. MineListed'
    <2> SUFFICES ASSUME NEW v \in Tasks, task'[v].pc \in {"open", "sget"}, task'[v].part < Last
                 PROVE  /\ list'[task'[v].part] = Id(task'[v].mount, task'[v].part)
                        /\ info'[Id(task'[v].mount, task'[v].part)].state = "live"
                        /\ task'[v].pc = "sget" => info'[Id(task'[v].mount, task'[v].part)].devices
      BY DEF MineListed
    <2>1. task'[v] = task[v] /\ Id(task[v].mount, task[v].part) \in Ids
      BY <1>1 DEF TaskIds, TaskPart, Opening
    <2> QED
      BY <1>1, <2>1 DEF MineListed
  <1> QED
    BY <1>3, <1>4, <1>5

LEMMA FillFailOwnApart ==
  ASSUME TaskPart, TaskIds, OwnApart, NEW t \in Tasks, NEW s, NEW i,
         DidFillFail(t, s, i)
  PROVE  OwnApart'
  <1>1. \A v \in Tasks : Own(v)' = Own(v) /\ (Opening(v)' \/ Closing(v)' => Opening(v) \/ Closing(v))
    <2> SUFFICES ASSUME NEW v \in Tasks
                 PROVE  Own(v)' = Own(v) /\ (Opening(v)' \/ Closing(v)' => Opening(v) \/ Closing(v))
      OBVIOUS
    <2>1. CASE v = t
      BY <2>1 DEF Own, Opening, TaskIds, TaskPart, DidFillFail, DidFill
    <2>2. CASE v # t
      BY <2>2 DEF Own, Opening, Closing, DidFillFail, DidFill, Only
    <2> QED
      BY <2>1, <2>2
  <1> QED
    BY <1>1 DEF OwnApart

LEMMA UmountKillOpenedBy ==
  ASSUME OpenedBy, NEW t \in Tasks, NEW q, NEW s, DidUmountKill(t, q, s)
  PROVE  OpenedBy'
  <1> SUFFICES ASSUME NEW v \in Tasks, task'[v].pc = "sget",
                      ~Stale(task[v].part)', ~info'[list'[task'[v].part]].devices
               PROVE  \E w \in Tasks : task'[w].pc = "oops"
                        \/ (task'[w].pc = "open" /\ task'[w].part = task'[v].part)
    BY DEF OpenedBy
  <1>1. task'[v] = task[v] /\ UNCHANGED <<list, info>>
    BY DEF DidUmountKill, DidUmount, Only
  <1>2. PICK w \in Tasks : task[w].pc = "oops" \/ (task[w].pc = "open" /\ task[w].part = task[v].part)
    BY <1>1 DEF OpenedBy, Stale
  <1>3. w # t
    BY <1>2 DEF DidUmountKill, DidUmount
  <1> QED
    BY <1>1, <1>2, <1>3 DEF DidUmountKill, DidUmount, Only

LEMMA BaseMountCall ==
  ASSUME Shapes, Base, NEW t \in Tasks, DidMountCall(t)
  PROVE  Base'
  <1> USE DEF Shapes, Base
  <1>1. SuperKnown' /\ SuperNew' /\ FirstFree' /\ ListKnown'
    BY DEF DidMountCall, FirstFree, ListKnown, Only, SuperKnown, SuperNew
  <1>2. InfoNew' /\ SbKnown' /\ Kept' /\ Apart'
    BY DEF Alive, Apart, DidMountCall, InfoNew, Kept, Only, SbKnown
  <1>3. Unmade' /\ MountNew' /\ InfosAhead' /\ SupersAhead'
    BY DEF DidMountCall, IdsInt, InfosAhead, MountInt, MountNew, Only, Opening,
           SupersAhead, Unmade
  <1>4. Closed' /\ AtOwn' /\ OwnApart' /\ OwnBusy'
    BY DEF AtOwn, Closed, Closing, DidMountCall, IdsInt, Level, MountInt,
           MountNew, Only, Opening, Own, OwnApart, OwnBusy, PartOf, Unmade
  <1>5. FillLocked' /\ FillUnknown' /\ OpenedBy' /\ OpenedUnused'
    BY DEF Alive, DidMountCall, FillLocked, FillUnknown, Only, OpenedBy,
           OpenedUnused, Stale, Unused
  <1>6. MineListed' /\ MineUnused' /\ OneBeyond'
    BY DEF Alive, Beyond, DidMountCall, MineListed, MineUnused, OneBeyond,
           OneOf, Only, Opening, PartsInt, Unused
  <1>7. Seen'
    BY DEF Alive, DidMountCall, Only, PartOf, Seen
  <1>8. QED BY <1>1, <1>2, <1>3, <1>4, <1>5, <1>6, <1>7, Zenon

LEMMA BaseAlloc ==
  ASSUME Shapes, Base, NEW t \in Tasks, DidAlloc(t)
  PROVE  Base'
  <1> USE DEF Shapes, Base
  <1>1. SuperKnown' /\ SuperNew' /\ FirstFree' /\ ListKnown'
    BY DEF DidAlloc, FirstFree, ListKnown, Only, Opening, SuperKnown, SuperNew,
           TaskIds, TaskPart
  <1>2. InfoNew' /\ SbKnown' /\ Kept' /\ Apart'
    BY DEF Alive, Apart, DidAlloc, InfoNew, Kept, Only, SbKnown, SuperKnown
  <1>3. Unmade' /\ MountNew' /\ SupersAhead'
    BY DEF DidAlloc, IdsInt, MountInt, MountNew, Only, Opening, SupersAhead,
           TaskIds, TaskPart, Unmade
  <1>4. Closed' /\ AtOwn' /\ OwnApart' /\ OwnBusy'
    BY DEF AtOwn, Closed, Closing, DidAlloc, Level, Only, Opening, Own,
           OwnApart, OwnBusy, PartOf
  <1>5. MineListed' /\ MineUnused' /\ OneBeyond'
    BY DEF Alive, Beyond, DidAlloc, InfosAhead, Kept, MineListed, MineUnused,
           OneBeyond, OneOf, Only, Opening, TaskIds, TaskPart, Unused
  <1>6. FillLocked' /\ FillUnknown'
    BY DEF DidAlloc, FillLocked, FillUnknown, Only
  <1>7. OpenedBy' /\ OpenedUnused'
    BY DEF Alive, DidAlloc, InfosAhead, Kept, ListKnown, Only, OpenedBy,
           OpenedUnused, Opening, Stale, TaskIds, TaskPart, Unused
  <1>8. InfosAhead'
    BY AllocInfosAhead
  <1>9. Seen'
    BY DEF Alive, DidAlloc, InfosAhead, Kept, Only, Opening, PartOf, Seen,
           SuperKnown, TaskIds, TaskPart
  <1>10. QED BY <1>1, <1>2, <1>3, <1>4, <1>5, <1>6, <1>7, <1>8, <1>9, Zenon

LEMMA BaseAllocFails ==
  ASSUME Shapes, Base, NEW t \in Tasks, DidAllocFails(t)
  PROVE  Base'
  <1> USE DEF Shapes, Base
  <1>1. SuperKnown' /\ SuperNew' /\ FirstFree' /\ ListKnown'
    BY DEF DidAllocFails, FirstFree, ListKnown, Only, SuperKnown, SuperNew
  <1>2. InfoNew' /\ SbKnown' /\ Kept' /\ Apart'
    BY DEF Alive, Apart, DidAllocFails, InfoNew, Kept, Only, SbKnown
  <1>3. Unmade' /\ MountNew' /\ InfosAhead' /\ SupersAhead'
    BY DEF DidAllocFails, InfosAhead, MountNew, Only, Opening, SupersAhead,
           Unmade
  <1>4. Closed' /\ AtOwn' /\ OwnApart' /\ OwnBusy'
    BY DEF AtOwn, Closed, Closing, DidAllocFails, Level, Only, Opening, Own,
           OwnApart, OwnBusy, PartOf
  <1>5. FillLocked' /\ FillUnknown' /\ OpenedBy' /\ OpenedUnused'
    BY DEF Alive, DidAllocFails, FillLocked, FillUnknown, ListKnown, Only,
           OpenedBy, OpenedUnused, Stale, TaskPart, Unused
  <1>6. MineListed' /\ MineUnused' /\ OneBeyond'
    BY DEF Alive, Beyond, DidAllocFails, MineListed, MineUnused, OneBeyond,
           OneOf, Only, Opening, TaskPart, Unused
  <1>7. Seen'
    BY DEF Alive, DidAllocFails, Only, PartOf, Seen
  <1>8. QED BY <1>1, <1>2, <1>3, <1>4, <1>5, <1>6, <1>7, Zenon

LEMMA BaseOpen ==
  ASSUME Shapes, Base, NEW t \in Tasks, DidOpen(t)
  PROVE  Base'
  <1> USE DEF Shapes, Base
  <1>1. SuperKnown' /\ SuperNew' /\ FirstFree' /\ ListKnown'
    BY DEF DidOpen, FirstFree, ListKnown, Only, SuperKnown, SuperNew
  <1>2. InfoNew' /\ SbKnown' /\ Kept' /\ Apart'
    BY DEF Alive, Apart, DidOpen, InfoNew, Kept, Only, SbKnown, SuperKnown
  <1>3. Unmade' /\ MountNew' /\ InfosAhead' /\ SupersAhead'
    BY DEF DidOpen, InfosAhead, MountNew, Only, Opening, SupersAhead, TaskIds,
           Unmade
  <1>4. Closed' /\ AtOwn' /\ OwnApart' /\ OwnBusy'
    BY DEF AtOwn, Closed, Closing, DidOpen, Level, Only, Opening, Own,
           OwnApart, OwnBusy, PartOf
  <1>5. FillLocked' /\ FillUnknown' /\ OpenedBy' /\ OpenedUnused'
    BY DEF Alive, DidOpen, FillLocked, FillUnknown, ListKnown, Only, OpenedBy,
           OpenedUnused, Stale, TaskPart, Unused
  <1>6. MineListed' /\ MineUnused' /\ OneBeyond'
    BY DEF Alive, Beyond, DidOpen, MineListed, MineUnused, OneBeyond, OneOf,
           Only, Opening, TaskIds, TaskPart, Unused
  <1>7. Seen'
    BY DEF Alive, DidOpen, Only, PartOf, Seen, SuperKnown
  <1>8. QED BY <1>1, <1>2, <1>3, <1>4, <1>5, <1>6, <1>7, Zenon

LEMMA BaseSgetNew ==
  ASSUME Shapes, Base, TwoTasks, OneBeyond', NEW t \in Tasks, DidSgetNew(t)
  PROVE  Base'
  <1> USE DEF Shapes, Base
  <1>1. SuperNew' /\ FirstFree' /\ ListKnown'
    BY DEF Alive, DidSgetNew, FirstFree, ListKnown, Only, SuperNew
  <1>2. InfoNew' /\ SbKnown' /\ Kept' /\ Apart'
    BY DEF Alive, Apart, DidSgetNew, InfoNew, Kept, ListKnown, NoneOut, Only,
           OpenedUnused, Opening, SbKnown, Stale, SuperKnown, SuperNew,
           SupersAhead, TaskIds, TaskPart, Unused
  <1>3. Unmade' /\ MountNew' /\ InfosAhead'
    BY DEF Alive, DidSgetNew, IdsInt, InfosAhead, MountInt, MountNew, Only,
           Opening, TaskIds, TaskPart, Unmade
  <1>4. Closed' /\ AtOwn' /\ OwnApart' /\ OwnBusy'
    BY DEF Alive, AtOwn, Closed, Closing, DidSgetNew, Level, Only, Opening,
           Own, OwnApart, OwnBusy, PartOf
  <1>5. FillLocked' /\ FillUnknown' /\ OpenedBy'
    BY DEF Alive, DidSgetNew, FillLocked, FillUnknown, NoneOut, Only, OpenedBy,
           Opening, SbKnown, Stale, SuperNew, SupersAhead, TaskIds, TaskPart
  <1>6. MineListed' /\ MineUnused'
    BY DEF Alive, Beyond, DidSgetNew, ListKnown, MineListed, MineUnused,
           NoneOut, OneBeyond, OneOf, Only, Opening, TaskIds, TaskPart, Unused
  <1>7. SuperKnown'
    BY SgetNewSuperKnown
  <1>8. SupersAhead'
    BY SgetNewSupersAhead
  <1>9. OpenedUnused'
    BY SgetNewOpenedUnused
  <1>10. OneBeyond'
    OBVIOUS
  <1>11. Seen'
    BY DEF Alive, DidSgetNew, IdsOf, MineListed, Only, Opening, PartOf, Seen,
           SuperKnown, TaskIds, TaskPart
  <1>12. QED BY <1>1, <1>2, <1>3, <1>4, <1>5, <1>6, <1>7, <1>8, <1>9, <1>10, <1>11, Zenon

LEMMA BaseSgetOld ==
  ASSUME Shapes, Base, NEW t \in Tasks, DidSgetOld(t)
  PROVE  Base'
  <1> USE DEF Shapes, Base
  <1>1. SuperKnown' /\ SuperNew' /\ FirstFree' /\ ListKnown'
    BY DEF DidSgetOld, FirstFree, ListKnown, Only, SuperKnown, SuperNew
  <1>2. InfoNew' /\ SbKnown' /\ Kept' /\ Apart'
    BY DEF Alive, Apart, DidSgetOld, InfoNew, Kept, MineListed, MineUnused,
           Only, PartsInt, SbKnown, SuperKnown, Unused
  <1>3. Unmade' /\ MountNew' /\ InfosAhead' /\ SupersAhead'
    BY DEF DidSgetOld, InfosAhead, MountNew, Only, Opening, SupersAhead,
           TaskIds, Unmade
  <1>4. Closed' /\ AtOwn' /\ OwnApart' /\ OwnBusy'
    BY DEF AtOwn, Closed, Closing, DidSgetOld, Level, Only, Opening, Own,
           OwnApart, OwnBusy, PartOf
  <1>5. FillLocked' /\ FillUnknown' /\ OpenedBy' /\ OpenedUnused'
    BY DEF Alive, DidSgetOld, FillLocked, FillUnknown, ListKnown, Only,
           OpenedBy, OpenedUnused, Opening, Stale, TaskIds, TaskPart, Unused
  <1>6. MineListed' /\ MineUnused' /\ OneBeyond'
    BY DEF Alive, Beyond, DidSgetOld, MineListed, MineUnused, OneBeyond, OneOf,
           Only, Opening, PartsInt, TaskPart, Unused
  <1>7. Seen'
    BY DEF Alive, DidSgetOld, Only, Opening, PartOf, Seen, SuperKnown, TaskIds,
           TaskPart
  <1>8. QED BY <1>1, <1>2, <1>3, <1>4, <1>5, <1>6, <1>7, Zenon

LEMMA BaseFillNext ==
  ASSUME Shapes, Base, NEW t \in Tasks, NEW s, NEW i, DidFillNext(t, s, i)
  PROVE  Base'
  <1>1. /\ \A r \in Ids :
             /\ super'[r].info = super[r].info
             /\ super'[r].state = super[r].state
             /\ Alive(r)' <=> Alive(r)
        /\ \A j \in Ids :
             /\ info'[j].state = info[j].state
             /\ info'[j].devices = info[j].devices
             /\ info'[j].sb = info[j].sb \/ (j = i /\ info'[j].sb = s)
    <2>1. \A r \in Ids : super'[r].info = super[r].info /\ super'[r].state = super[r].state
      BY Zenon DEF DidFill, DidFillNext
    <2>2. \A j \in Ids :
             /\ info'[j].state = info[j].state
             /\ info'[j].devices = info[j].devices
             /\ info'[j].sb = info[j].sb \/ (j = i /\ info'[j].sb = s)
      BY Zenon DEF DidFill, DidFillNext
    <2>3. QED BY <2>1, <2>2 DEF Alive
  <1>2. /\ task[t].pc = "fill" /\ s = Id(task[t].mount, task[t].part)
        /\ s \in Ids /\ i \in Ids /\ i = super[s].info
        /\ info[i].state = "live" /\ s[1] = task[t].mount
        /\ task'[t].pc = "alloc" /\ task'[t].mount = task[t].mount
        /\ task'[t].part = task[t].part - 1
        /\ \A v \in Tasks : v # t => task'[v] = task[v]
        /\ list' = list /\ mounts' = mounts
    BY DEF DidFill, DidFillNext, Only, Shapes, TaskIds, TaskPart, Opening
  <1> USE DEF Shapes, Base
  <1>3. SuperKnown' /\ SuperNew' /\ FirstFree'
    BY <1>1 DEF SuperKnown, SuperNew, FirstFree
  <1>4. ListKnown'
    BY <1>1, <1>2 DEF ListKnown
  <1>5. InfoNew'
    BY <1>1, <1>2 DEF InfoNew
  <1>6. SbKnown'
    BY <1>1, <1>2 DEF SbKnown
  <1>7. Kept'
    BY <1>1 DEF Kept, SuperKnown, Alive
  <1>8. Apart'
    BY <1>1 DEF Apart
  <1>9. Unmade' /\ MountNew'
    BY <1>1, <1>2 DEF Unmade, MountNew, Opening
  <1>10. InfosAhead' /\ SupersAhead'
    BY FillInfosAhead, FillSupersAhead DEF DidFillNext
  <1>11. Closed'
    BY <1>1, <1>2 DEF Closed, Closing
  <1>12. AtOwn'
    BY <1>2 DEF AtOwn, Level
  <1>13. OwnApart' /\ OwnBusy'
    <2>1. \A v \in Tasks : Opening(v)' \/ Closing(v)' =>
            (Opening(v) \/ Closing(v)) /\ Own(v)' = Own(v)
      BY <1>2 DEF Own, Opening, Closing
    <2>2. OwnApart'
      BY <2>1 DEF OwnApart
    <2>3. OwnBusy'
      BY <1>1, <2>1 DEF OwnBusy
    <2>4. QED BY <2>2, <2>3
  <1>14. FillLocked'
    BY FillFillLocked DEF DidFillNext
  <1>15. FillUnknown'
    <2> SUFFICES ASSUME NEW v \in Tasks, NEW j \in Ids, task'[v].pc = "fill"
                 PROVE  /\ task'[v] = task[v]
                        /\ info'[j].sb # Id(task[v].mount, task[v].part)
      BY DEF FillUnknown
    <2>1. v # t /\ task'[v] = task[v]
      BY <1>2
    <2>2. task[v].mount # task[t].mount
      BY <1>2, <2>1 DEF OwnApart, Own, Opening
    <2>3. s # Id(task[v].mount, task[v].part)
      BY <1>2, <2>1, <2>2 DEF TaskIds, TaskPart, Opening
    <2>4. QED BY <1>1, <2>1, <2>3 DEF FillUnknown
  <1>16. OpenedBy' /\ OpenedUnused' /\ MineListed'
    BY FillRest DEF DidFillNext
  <1>17. MineUnused'
    BY <1>1, <1>2 DEF MineUnused, Unused
  <1>18. OneBeyond'
    BY <1>2 DEF OneBeyond, OneOf, Beyond, Opening
  <1>19. Seen'
    BY <1>1 DEF Seen, SuperKnown, Alive
  <1>20. QED BY <1>3, <1>4, <1>5, <1>6, <1>7, <1>8, <1>9, <1>10, <1>11, <1>12,
                <1>13, <1>14, <1>15, <1>16, <1>17, <1>18, <1>19, Zenon

LEMMA BaseFillLast ==
  ASSUME Shapes, Base, NEW t \in Tasks, NEW s, NEW i, DidFillLast(t, s, i)
  PROVE  Base'
  <1>1. /\ \A r \in Ids :
             /\ super'[r].info = super[r].info
             /\ r # s => super'[r].state = super[r].state
             /\ Alive(r)' <=> Alive(r)
        /\ super[s].state = "locked" /\ super'[s].state = "free"
        /\ \A j \in Ids :
             /\ info'[j].state = info[j].state
             /\ info'[j].devices = info[j].devices
             /\ info'[j].sb = info[j].sb \/ (j = i /\ info'[j].sb = s)
    BY DEF DidFill, DidFillLast, Alive
  <1>2. /\ task[t].pc = "fill" /\ s = Id(task[t].mount, task[t].part)
        /\ s \in Ids /\ i \in Ids /\ i = super[s].info
        /\ info[i].state = "live" /\ s[1] = task[t].mount /\ s[2] = 0
        /\ task'[t].pc = "idle"
        /\ \A v \in Tasks : v # t => task'[v] = task[v]
        /\ list' = list /\ mounts' = mounts
    BY DEF DidFill, DidFillLast, Only, Shapes, TaskIds, TaskPart, Opening
  <1> USE DEF Shapes, Base
  <1>3. SuperKnown' /\ SuperNew' /\ FirstFree'
    BY <1>1, <1>2 DEF SuperKnown, SuperNew, FirstFree
  <1>4. ListKnown'
    BY <1>1, <1>2 DEF ListKnown
  <1>5. InfoNew'
    BY <1>1, <1>2 DEF InfoNew
  <1>6. SbKnown'
    BY <1>1, <1>2 DEF SbKnown
  <1>7. Kept'
    BY <1>1 DEF Kept, SuperKnown, Alive
  <1>8. Apart'
    BY <1>1 DEF Apart
  <1>9. Unmade' /\ MountNew'
    BY <1>1, <1>2 DEF Unmade, MountNew, Opening
  <1>10. InfosAhead' /\ SupersAhead'
    BY FillInfosAhead, FillSupersAhead DEF DidFillLast
  <1>11. \A v \in Tasks : Opening(v)' \/ Closing(v)' =>
           /\ v # t /\ task'[v] = task[v] /\ Own(v)' = Own(v)
           /\ Opening(v) \/ Closing(v)
           /\ Own(v) # s[1]
    BY <1>2 DEF Own, Opening, Closing, OwnApart
  <1>12. Closed'
    <2>1. \A v \in Tasks : Closing(v)' => task[v].sb # s /\ Closing(v)
      BY <1>11 DEF Own, Opening, Closing
    <2>2. QED BY <1>1, <1>11, <2>1 DEF Closed
  <1>13. AtOwn'
    BY <1>2 DEF AtOwn, Level
  <1>14. OwnApart'
    BY <1>11 DEF OwnApart
  <1>15. OwnBusy'
    BY <1>1, <1>11 DEF OwnBusy
  <1>16. FillLocked'
    BY FillFillLocked DEF DidFillLast
  <1>17. FillUnknown'
    <2> SUFFICES ASSUME NEW v \in Tasks, NEW j \in Ids, task'[v].pc = "fill"
                 PROVE  /\ task'[v] = task[v]
                        /\ info'[j].sb # Id(task[v].mount, task[v].part)
      BY DEF FillUnknown
    <2>1. v # t /\ task'[v] = task[v] /\ task[v].mount # s[1]
      BY <1>2, <1>11 DEF Own, Opening
    <2>2. s # Id(task[v].mount, task[v].part)
      BY <2>1 DEF TaskIds, TaskPart, Opening
    <2>3. QED BY <1>1, <2>1, <2>2 DEF FillUnknown
  <1>18. OpenedBy' /\ OpenedUnused' /\ MineListed'
    BY FillRest DEF DidFillLast
  <1>19. MineUnused'
    BY <1>1, <1>2 DEF MineUnused, Unused
  <1>20. OneBeyond'
    BY <1>2 DEF OneBeyond, OneOf, Beyond, Opening
  <1>21. Seen'
    BY <1>1 DEF Seen, SuperKnown, Alive
  <1>22. QED BY <1>3, <1>4, <1>5, <1>6, <1>7, <1>8, <1>9, <1>10, <1>12, <1>13,
                <1>14, <1>15, <1>16, <1>17, <1>18, <1>19, <1>20, <1>21, Zenon

LEMMA BaseFillFail ==
  ASSUME Shapes, Base, NEW t \in Tasks, NEW s, NEW i, DidFillFail(t, s, i)
  PROVE  Base'
  <1>1. /\ \A r \in Ids :
             /\ super'[r].info = super[r].info
             /\ super'[r].state = super[r].state
             /\ Alive(r)' <=> Alive(r)
        /\ \A j \in Ids :
             /\ info'[j].state = info[j].state
             /\ info'[j].devices = info[j].devices
             /\ info'[j].sb = info[j].sb \/ (j = i /\ info'[j].sb = s)
    <2>1. \A r \in Ids : super'[r].info = super[r].info /\ super'[r].state = super[r].state
      BY Zenon DEF DidFill, DidFillFail
    <2>2. \A j \in Ids :
             /\ info'[j].state = info[j].state
             /\ info'[j].devices = info[j].devices
             /\ info'[j].sb = info[j].sb \/ (j = i /\ info'[j].sb = s)
      BY Zenon DEF DidFill, DidFillFail
    <2>3. QED BY <2>1, <2>2 DEF Alive
  <1>2. /\ task[t].pc = "fill" /\ s = Id(task[t].mount, task[t].part)
        /\ s \in Ids /\ i \in Ids /\ i = super[s].info
        /\ super[s].state = "locked" /\ info[i].state = "live"
        /\ s[1] = task[t].mount /\ super'[s].state = "locked"
        /\ task'[t].pc = "compare" /\ task'[t].sb = s
        /\ \A v \in Tasks : v # t => task'[v] = task[v]
        /\ UNCHANGED <<list, mounts>>
    BY DEF DidFill, DidFillFail, Only, Shapes, TaskIds, TaskPart, Opening
  <1> USE DEF Shapes, Base
  <1>3. SuperKnown' /\ SuperNew' /\ FirstFree'
    BY <1>1 DEF SuperKnown, SuperNew, FirstFree
  <1>4. ListKnown' /\ InfoNew' /\ SbKnown'
    <2>1. ListKnown'
      BY <1>1, <1>2 DEF ListKnown
    <2>2. InfoNew'
      BY <1>1, <1>2 DEF InfoNew
    <2>3. SbKnown'
      BY <1>1, <1>2 DEF SbKnown
    <2>4. QED BY <2>1, <2>2, <2>3
  <1>5. Kept' /\ Apart'
    <2>1. Kept'
      BY <1>1 DEF Kept, SuperKnown, Alive
    <2>2. Apart'
      BY <1>1 DEF Apart
    <2>3. QED BY <2>1, <2>2
  <1>6. Unmade' /\ MountNew'
    BY <1>1, <1>2 DEF Unmade, MountNew, Opening
  <1>7. InfosAhead' /\ SupersAhead'
    BY FillInfosAhead, FillSupersAhead DEF DidFillFail
  <1>8. Closed' /\ AtOwn'
    <2>1. Closed'
      BY <1>1, <1>2 DEF Closed, Closing
    <2>2. AtOwn'
      BY <1>2 DEF AtOwn, Level
    <2>3. QED BY <2>1, <2>2
  <1>9. OwnApart'
    BY FillFailOwnApart
  <1>10. OwnBusy'
    <2>1. \A v \in Tasks : Opening(v)' \/ Closing(v)' =>
            (Opening(v) \/ Closing(v)) /\ Own(v)' = Own(v)
      BY <1>2 DEF Own, Opening, Closing
    <2>2. QED BY <1>1, <2>1 DEF OwnBusy
  <1>11. FillLocked'
    BY FillFillLocked DEF DidFillFail
  <1>12. FillUnknown'
    <2> SUFFICES ASSUME NEW v \in Tasks, NEW j \in Ids, task'[v].pc = "fill"
                 PROVE  info'[j].sb # Id(task[v].mount, task[v].part) /\ task'[v] = task[v]
      BY DEF FillUnknown
    <2>1. v # t /\ task'[v] = task[v]
      BY <1>2
    <2>2. task[v].mount # task[t].mount
      BY <1>2, <2>1 DEF OwnApart, Own, Opening
    <2>3. s # Id(task[v].mount, task[v].part)
      BY <1>2, <2>1, <2>2 DEF TaskIds, TaskPart, Opening
    <2>4. QED BY <1>1, <2>1, <2>3 DEF FillUnknown
  <1>13. OpenedBy' /\ OpenedUnused' /\ MineListed'
    BY FillRest DEF DidFillFail
  <1>14. MineUnused'
    BY <1>1, <1>2 DEF MineUnused, Unused
  <1>15. OneBeyond'
    BY <1>2 DEF OneBeyond, OneOf, Beyond, Opening
  <1>16. Seen'
    BY <1>1 DEF Seen, SuperKnown, Alive
  <1>17. QED BY <1>3, <1>4, <1>5, <1>6, <1>7, <1>8, <1>9, <1>10, <1>11, <1>12,
                <1>13, <1>14, <1>15, <1>16, Zenon

LEMMA BaseUnmount ==
  ASSUME Shapes, Base, NEW t \in Tasks, NEW x, DidUnmount(t, x)
  PROVE  Base'
  <1> USE DEF Shapes, Base
  <1>1. SuperKnown' /\ SuperNew' /\ FirstFree' /\ ListKnown'
    BY DEF DidUnmount, FirstFree, ListKnown, Only, SuperKnown, SuperNew
  <1>2. InfoNew' /\ SbKnown' /\ Kept' /\ Apart'
    BY DEF Alive, Apart, DidUnmount, InfoNew, Kept, Only, SbKnown
  <1>3. Unmade' /\ MountNew' /\ InfosAhead' /\ SupersAhead'
    BY DEF DidUnmount, InfosAhead, MountNew, Only, Opening, SupersAhead,
           TaskIds, Unmade
  <1>4. Closed' /\ AtOwn' /\ OwnApart' /\ OwnBusy'
    BY DEF AtOwn, Closed, Closing, DidUnmount, FirstFree, IdsAre, Level, Only,
           Opening, Own, OwnApart, OwnBusy, PartOf
  <1>5. FillLocked' /\ FillUnknown' /\ OpenedBy' /\ OpenedUnused'
    BY DEF Alive, DidUnmount, FillLocked, FillUnknown, Only, OpenedBy,
           OpenedUnused, Opening, Stale, TaskIds, TaskPart, Unused
  <1>6. MineListed' /\ MineUnused' /\ OneBeyond'
    BY DEF Alive, Beyond, DidUnmount, MineListed, MineUnused, OneBeyond, OneOf,
           Only, Opening, Unused
  <1>7. Seen'
    BY DEF Alive, DidUnmount, Only, PartOf, Seen
  <1>8. QED BY <1>1, <1>2, <1>3, <1>4, <1>5, <1>6, <1>7, Zenon

LEMMA BaseCompareHit ==
  ASSUME Shapes, Base, NEW t \in Tasks, DidCompareHit(t)
  PROVE  Base'
  <1> USE DEF Shapes, Base
  <1>1. SuperKnown' /\ SuperNew' /\ FirstFree' /\ ListKnown'
    BY DEF DidCompareHit, FirstFree, ListKnown, Only, SuperKnown, SuperNew
  <1>2. InfoNew' /\ SbKnown' /\ Kept' /\ Apart'
    BY DEF Alive, Apart, DidCompareHit, InfoNew, Kept, Only, SbKnown
  <1>3. Unmade' /\ MountNew' /\ InfosAhead' /\ SupersAhead'
    BY DEF DidCompareHit, InfosAhead, MountNew, Only, Opening, SupersAhead,
           Unmade
  <1>4. Closed' /\ AtOwn' /\ OwnApart' /\ OwnBusy'
    BY DEF AtOwn, Closed, Closing, DidCompareHit, Level, ListKnown, NoneOut,
           Only, Opening, Own, OwnApart, OwnBusy, PartOf, SbKnown, SuperKnown,
           SuperNew
  <1>5. FillLocked' /\ FillUnknown' /\ OpenedBy' /\ OpenedUnused'
    BY DEF Alive, DidCompareHit, FillLocked, FillUnknown, Only, OpenedBy,
           OpenedUnused, Stale, Unused
  <1>6. MineListed' /\ MineUnused' /\ OneBeyond'
    BY DEF Alive, Beyond, DidCompareHit, MineListed, MineUnused, OneBeyond,
           OneOf, Only, Opening, Unused
  <1>7. Seen'
    BY DEF Alive, DidCompareHit, Only, PartOf, Seen
  <1>8. QED BY <1>1, <1>2, <1>3, <1>4, <1>5, <1>6, <1>7, Zenon

LEMMA BaseCompareNext ==
  ASSUME Shapes, Base, NEW t \in Tasks, DidCompareNext(t)
  PROVE  Base'
  <1> USE DEF Shapes, Base
  <1>1. SuperKnown' /\ SuperNew' /\ FirstFree' /\ ListKnown'
    BY DEF DidCompareNext, FirstFree, ListKnown, Only, SuperKnown, SuperNew
  <1>2. InfoNew' /\ SbKnown' /\ Kept' /\ Apart'
    BY DEF Alive, Apart, DidCompareNext, InfoNew, Kept, Only, SbKnown
  <1>3. Unmade' /\ MountNew' /\ InfosAhead' /\ SupersAhead'
    BY DEF DidCompareNext, InfosAhead, MountNew, Only, Opening, SupersAhead,
           Unmade
  <1>4. Closed' /\ AtOwn' /\ OwnApart' /\ OwnBusy'
    BY DEF AtOwn, Closed, Closing, DidCompareNext, Level, Only, Opening, Own,
           OwnApart, OwnBusy, PartOf
  <1>5. FillLocked' /\ FillUnknown' /\ OpenedBy' /\ OpenedUnused'
    BY DEF Alive, DidCompareNext, FillLocked, FillUnknown, Only, OpenedBy,
           OpenedUnused, Stale, Unused
  <1>6. MineListed' /\ MineUnused' /\ OneBeyond'
    BY DEF Alive, Beyond, DidCompareNext, MineListed, MineUnused, OneBeyond,
           OneOf, Only, Opening, Unused
  <1>7. Seen'
    BY DEF Alive, DidCompareNext, Only, PartOf, Seen
  <1>8. QED BY <1>1, <1>2, <1>3, <1>4, <1>5, <1>6, <1>7, Zenon

LEMMA BaseUmountSkip ==
  ASSUME Shapes, Base, NEW t \in Tasks, NEW q, DidUmountSkip(t, q)
  PROVE  Base'
  <1> USE DEF Shapes, Base
  <1>1. SuperKnown' /\ SuperNew' /\ FirstFree' /\ ListKnown'
    BY DEF DidUmount, DidUmountSkip, FirstFree, ListKnown, Only, SuperKnown,
           SuperNew
  <1>2. InfoNew' /\ SbKnown' /\ Kept' /\ Apart'
    BY DEF Alive, Apart, DidUmount, DidUmountSkip, InfoNew, Kept, Only, SbKnown
  <1>3. Unmade' /\ MountNew' /\ InfosAhead' /\ SupersAhead'
    BY DEF DidUmount, DidUmountSkip, InfosAhead, MountNew, Only, Opening,
           SupersAhead, Unmade
  <1>4. Closed' /\ AtOwn' /\ OwnApart' /\ OwnBusy'
    BY DEF AtOwn, Closed, Closing, DidUmount, DidUmountSkip, Level, Only,
           Opening, Own, OwnApart, OwnBusy, PartOf
  <1>5. FillLocked' /\ FillUnknown' /\ OpenedBy' /\ OpenedUnused'
    BY DEF Alive, DidUmount, DidUmountSkip, FillLocked, FillUnknown, Only,
           OpenedBy, OpenedUnused, Stale, Unused
  <1>6. MineListed' /\ MineUnused' /\ OneBeyond'
    BY DEF Alive, Beyond, DidUmount, DidUmountSkip, MineListed, MineUnused,
           OneBeyond, OneOf, Only, Opening, Unused
  <1>7. Seen'
    BY DEF Alive, DidUmount, DidUmountSkip, Only, PartOf, Seen
  <1>8. QED BY <1>1, <1>2, <1>3, <1>4, <1>5, <1>6, <1>7, Zenon

LEMMA BaseUmountKill ==
  ASSUME Shapes, Base, NEW t \in Tasks, NEW q, NEW s, DidUmountKill(t, q, s)
  PROVE  Base'
  <1>1. /\ \A r \in Ids :
             /\ super'[r].info = super[r].info
             /\ r # s => super'[r].state = super[r].state
             /\ Alive(r)' <=> Alive(r) /\ r # s
        /\ s \in Ids /\ Alive(s) /\ super'[s].state = "dead"
        /\ s = info[list[q]].sb /\ list[q] \in Ids
        /\ list' = list /\ info' = info /\ mounts' = mounts
    <2>1. /\ s \in Ids /\ Alive(s) /\ super'[s].state = "dead"
          /\ super'[s].info = super[s].info
          /\ \A r \in Ids : r # s => super'[r] = super[r]
          /\ s = info[list[q]].sb /\ list[q] \in Ids
          /\ list' = list /\ info' = info /\ mounts' = mounts
      BY Zenon DEF DidUmount, DidUmountKill
    <2>2. QED BY <2>1, Zenon DEF Alive
  <1>2. /\ task[t].pc = "umount" /\ task'[t].pc \in {"compare", "umount"}
        /\ task'[t].sb = task[t].sb
        /\ task'[t].pc = "umount" => task'[t].cur = task[t].cur
        /\ \A v \in Tasks : v # t => task'[v] = task[v]
    BY DEF DidUmount, DidUmountKill, Only
  <1> USE DEF Shapes, Base
  <1>3. super[s].state # "none"
    BY <1>1 DEF Alive
  <1>4. SuperKnown' /\ SuperNew' /\ FirstFree'
    BY <1>1, <1>3 DEF SuperKnown, SuperNew, FirstFree
  <1>5. ListKnown' /\ InfoNew' /\ SbKnown'
    BY <1>1 DEF ListKnown, InfoNew, SbKnown
  <1>6. Kept' /\ Apart'
    BY <1>1 DEF Kept, Apart
  <1>7. Unmade' /\ MountNew'
    BY <1>1, <1>2, <1>3 DEF Unmade, MountNew, Opening
  <1>8. InfosAhead'
    BY <1>1, <1>2 DEF InfosAhead, Opening
  <1>9. SupersAhead'
    BY <1>1, <1>2, <1>3 DEF SupersAhead, Opening, TaskIds
  <1>10. Closed' /\ AtOwn'
    BY <1>1, <1>2 DEF Closed, AtOwn, Closing, Level
  <1>11. OwnApart' /\ OwnBusy'
    <2>1. \A v \in Tasks : Opening(v)' \/ Closing(v)' =>
            (Opening(v) \/ Closing(v)) /\ Own(v)' = Own(v)
      BY <1>2 DEF Own, Opening, Closing
    <2>2. OwnApart'
      BY <2>1 DEF OwnApart
    <2>3. OwnBusy'
      BY <1>1, <2>1 DEF OwnBusy
    <2>4. QED BY <2>2, <2>3
  <1>12. FillLocked' /\ FillUnknown'
    <2>1. \A v \in Tasks : task'[v].pc = "fill" =>
            /\ task'[v] = task[v] /\ s # Id(task[v].mount, task[v].part)
            /\ Id(task[v].mount, task[v].part) \in Ids
      BY <1>1, <1>2 DEF FillUnknown, TaskIds, TaskPart, Opening
    <2>2. QED BY <1>1, <2>1 DEF FillLocked, FillUnknown
  <1>13. OpenedBy'
    BY UmountKillOpenedBy
  <1>14. OpenedUnused'
    BY <1>1, <1>2 DEF OpenedUnused, Unused, Stale
  <1>15. MineListed' /\ MineUnused'
    BY <1>1, <1>2 DEF MineListed, MineUnused, Unused
  <1>16. OneBeyond'
    BY <1>2 DEF OneBeyond, OneOf, Beyond, Opening
  <1>17. Seen'
    BY <1>1 DEF Seen
  <1>18. QED BY <1>4, <1>5, <1>6, <1>7, <1>8, <1>9, <1>10, <1>11, <1>12, <1>13,
                <1>14, <1>15, <1>16, <1>17, Zenon

LEMMA BaseKilled ==
  ASSUME Shapes, Base, NEW t \in Tasks, NEW s, NEW i, DidKilled(t, s, i)
  PROVE  Base'
  <1>1. /\ \A r \in Ids :
             /\ super'[r].info = super[r].info
             /\ r # s => super'[r].state = super[r].state
             /\ Alive(r)' <=> Alive(r) /\ r # s
        /\ s \in Ids /\ Alive(s) /\ super'[s].state = "dead"
        /\ i = super[s].info /\ i \in Ids /\ info[i].state = "live"
        /\ \A j \in Ids :
             /\ info'[j].sb = info[j].sb /\ info'[j].devices = info[j].devices
             /\ j # i => info'[j].state = info[j].state
        /\ info'[i].state = "freed"
        /\ list' = list /\ mounts' = mounts
    BY DEF DidKilled, Alive
  <1>2. /\ task[t].pc = "compare" /\ task[t].sb = s /\ task'[t].pc = "idle"
        /\ \A v \in Tasks : v # t => task'[v] = task[v]
    BY DEF DidKilled, Only
  <1> USE DEF Shapes, Base
  <1>3. super[s].state # "none"
    BY <1>1 DEF Alive
  <1>4. SuperKnown' /\ SuperNew' /\ FirstFree'
    BY <1>1, <1>3 DEF SuperKnown, SuperNew, FirstFree
  <1>5. ListKnown'
    BY <1>1 DEF ListKnown
  <1>6. InfoNew' /\ SbKnown'
    BY <1>1 DEF InfoNew, SbKnown
  <1>7. Kept'
    BY <1>1 DEF Kept, Apart, SuperKnown, Alive
  <1>8. Apart'
    BY <1>1 DEF Apart
  <1>9. Unmade' /\ MountNew'
    BY <1>1, <1>2, <1>3 DEF Unmade, MountNew, Opening
  <1>10. InfosAhead'
    BY <1>1, <1>2 DEF InfosAhead, Opening, TaskIds
  <1>11. SupersAhead'
    BY <1>1, <1>2, <1>3 DEF SupersAhead, Opening, TaskIds
  <1>12. \A v \in Tasks : Opening(v)' \/ Closing(v)' =>
           /\ v # t /\ task'[v] = task[v] /\ Own(v)' = Own(v)
           /\ Opening(v) \/ Closing(v)
           /\ Own(v) # s[1]
    BY <1>2 DEF Own, Opening, Closing, OwnApart
  <1>13. Closed' /\ AtOwn'
    BY <1>1, <1>2 DEF Closed, AtOwn, Closing, Level
  <1>14. OwnApart'
    BY <1>12 DEF OwnApart
  <1>15. OwnBusy'
    BY <1>1, <1>12 DEF OwnBusy
  <1>16. FillLocked' /\ FillUnknown'
    <2>1. \A v \in Tasks : task'[v].pc = "fill" =>
            /\ task'[v] = task[v] /\ s # Id(task[v].mount, task[v].part)
            /\ Id(task[v].mount, task[v].part) \in Ids
      BY <1>12 DEF Own, TaskIds, TaskPart, Opening
    <2>2. QED BY <1>1, <2>1 DEF FillLocked, FillUnknown
  <1>17. OpenedBy'
    <2> SUFFICES ASSUME NEW v \in Tasks,
                        (/\ task[v].pc = "sget" /\ ~Stale(task[v].part)
                         /\ ~info[list[task[v].part]].devices)'
                 PROVE  (\E u \in Tasks : task[u].pc = "oops"
                          \/ (task[u].pc = "open" /\ task[u].part = task[v].part))'
      BY DEF OpenedBy
    <2>1. /\ task'[v] = task[v] /\ task[v].part \in Partitions
          /\ list[task[v].part] # None /\ info'[list[task[v].part]].state # "freed"
      BY <1>1, <1>2 DEF Stale, TaskPart
    <2>2. list[task[v].part] \in Ids
      BY <2>1 DEF ListKnown
    <2>3. ~Stale(task[v].part) /\ ~info[list[task[v].part]].devices
      BY <1>1, <2>1, <2>2 DEF Stale
    <2>4. PICK u \in Tasks : task[u].pc = "oops"
                          \/ (task[u].pc = "open" /\ task[u].part = task[v].part)
      BY <2>1, <2>3 DEF OpenedBy
    <2>5. QED BY <1>2, <2>1, <2>4
  <1>18. OpenedUnused'
    <2> SUFFICES ASSUME NEW v \in Tasks,
                        (/\ task[v].pc = "sget" /\ ~Stale(task[v].part)
                         /\ ~info[list[task[v].part]].devices)'
                 PROVE  Unused(list[task[v].part])'
      BY DEF OpenedUnused
    <2>1. /\ task'[v] = task[v] /\ task[v].part \in Partitions
          /\ list[task[v].part] # None /\ info'[list[task[v].part]].state # "freed"
      BY <1>1, <1>2 DEF Stale, TaskPart
    <2>2. list[task[v].part] \in Ids
      BY <2>1 DEF ListKnown
    <2>3. ~Stale(task[v].part) /\ ~info[list[task[v].part]].devices
      BY <1>1, <2>1, <2>2 DEF Stale
    <2>4. Unused(list[task[v].part])
      BY <2>1, <2>3 DEF OpenedUnused
    <2>5. QED BY <1>1, <2>1, <2>4 DEF Unused
  <1>19. MineListed'
    <2> SUFFICES ASSUME NEW v \in Tasks, task'[v].pc \in {"open", "sget"},
                        task'[v].part < Last
                 PROVE  LET j == Id(task'[v].mount, task'[v].part) IN
                        /\ list'[task'[v].part] = j
                        /\ info'[j].state = "live"
                        /\ task'[v].pc = "sget" => info'[j].devices
      BY DEF MineListed
    <2> DEFINE j == Id(task[v].mount, task[v].part)
    <2>1. task'[v] = task[v]
      BY <1>2
    <2>2. j \in Ids
      BY <2>1 DEF TaskIds, TaskPart, Opening
    <2>3. j # i
      BY <1>1, <2>1 DEF MineUnused, Unused
    <2>4. /\ list[task[v].part] = j /\ info[j].state = "live"
          /\ task[v].pc = "sget" => info[j].devices
      BY <2>1 DEF MineListed
    <2>5. QED BY <1>1, <2>1, <2>2, <2>3, <2>4
  <1>20. MineUnused'
    BY <1>1, <1>2 DEF MineUnused, Unused
  <1>21. OneBeyond'
    BY <1>2 DEF OneBeyond, OneOf, Beyond, Opening
  <1>22. Seen'
    BY <1>1 DEF Seen, SuperKnown, Alive
  <1>23. QED BY <1>4, <1>5, <1>6, <1>7, <1>8, <1>9, <1>10, <1>11, <1>13, <1>14,
                <1>15, <1>16, <1>17, <1>18, <1>19, <1>20, <1>21, <1>22, Zenon

LEMMA BaseOops ==
  ASSUME Shapes, Base, NEW t \in Tasks, DidOops(t)
  PROVE  Base'
  <1> USE DEF Shapes, Base
  <1>1. SuperKnown' /\ SuperNew' /\ FirstFree' /\ ListKnown'
    BY DEF DidOops, FirstFree, ListKnown, Only, SuperKnown, SuperNew
  <1>2. InfoNew' /\ SbKnown' /\ Kept' /\ Apart'
    BY DEF Alive, Apart, DidOops, InfoNew, Kept, Only, SbKnown
  <1>3. Unmade' /\ MountNew' /\ InfosAhead' /\ SupersAhead'
    BY DEF DidOops, InfosAhead, MountNew, Only, Opening, SupersAhead, Unmade
  <1>4. Closed' /\ AtOwn' /\ OwnApart' /\ OwnBusy'
    BY DEF AtOwn, Closed, Closing, DidOops, Level, Only, Opening, Own,
           OwnApart, OwnBusy, PartOf
  <1>5. FillLocked' /\ FillUnknown' /\ OpenedBy' /\ OpenedUnused'
    BY DEF Alive, DidOops, FillLocked, FillUnknown, Only, OpenedBy,
           OpenedUnused, Stale, Unused
  <1>6. MineListed' /\ MineUnused' /\ OneBeyond'
    BY DEF Alive, Beyond, DidOops, MineListed, MineUnused, OneBeyond, OneOf,
           Only, Opening, Unused
  <1>7. Seen'
    BY DEF Alive, DidOops, Only, PartOf, Seen
  <1>8. QED BY <1>1, <1>2, <1>3, <1>4, <1>5, <1>6, <1>7, Zenon

-----------------------------------------------------------------------------
(***************************************************************************)
(* What the steps do to the sets and places that Order speaks of           *)
(***************************************************************************)
(* What a step does to what Order speaks of. *)
Awake(u) == task[u].pc # "oops" /\ (Closing(u) => task[u].sb \in Living)
Between(p) == p \in Int /\ 0 <= p /\ p <= Last /\ p \in Partitions
Levels(u) == Closing(u) => task[u].sb \in Ids /\ Between(Level(u))
Part(u) == Between(task[u].part)
Stays(t, u) == u # t => task'[u] = task[u]

Moved(t, u, pc, part) == /\ Stays(t, u) /\ task'[t].pc = pc /\ task'[t].part = part
                      /\ task'[t].mount = task[t].mount
Taken(t, u, s) == /\ Stays(t, u) /\ task'[t].pc = "compare" /\ task'[t].sb = s /\ task'[t].cur = 0

Same == /\ Living' = Living /\ Found \subseteq Found' /\ Armed' = Armed
        /\ (Sterile' <=> Sterile) /\ (LastStale' <=> LastStale) /\ AtLast' = AtLast
        /\ Returned' = Returned

Listed(t, u, p) ==
  /\ Living' = Living /\ Returned' = Returned
  /\ Armed' \subseteq Armed /\ \A s \in Armed : PartOf(s) # p => s \in Armed'
  /\ \A s \in Armed' : PartOf(s) # p
  /\ \A y \in Found : y \in Found' \/ (p = Last /\ (u # t /\ Early(u)))
  /\ p = K => Sterile'
  /\ p # K => (Sterile' <=> Sterile)
  /\ p # Last => (LastStale' <=> LastStale) /\ AtLast' = AtLast

SeeMountCall(t, u) ==
  /\ Stays(t, u) /\ task[t].pc = "idle" /\ task'[t].pc = "alloc" /\ task'[t].part = Last
  /\ Same
SeeAlloc(t, u) == /\ task[t].pc = "alloc" /\ Moved(t, u, "open", task[t].part)
               /\ Listed(t, u, task[t].part)
SeeAllocFails(t, u) ==
  /\ task[t].pc = "alloc" /\ Stays(t, u) /\ task'[t].pc = "idle"
  /\ Listed(t, u, task[t].part)
  /\ task[t].part = Last => LastStale'
SeeOpen(t, u) == task[t].pc = "open" /\ Moved(t, u, "sget", task[t].part) /\ Same
SeeSgetNew(t, u) ==
  LET p == task[t].part  s == Id(task[t].mount, p) IN
  /\ task[t].pc = "sget" /\ Moved(t, u, "fill", p)
  /\ Living' = Living \cup {s} /\ s \notin Living /\ Found \subseteq Found' /\ Armed' = Armed
  /\ (Sterile' <=> Sterile) /\ (LastStale' <=> LastStale) /\ Returned' = Returned
  /\ \A q \in Partitions : u # t /\ Opening(u) => Id(task[u].mount, q) # s
  /\ p < Last => \A r \in Living : PartOf(r) # p
  /\ p = Last => /\ s \in AtLast' /\ task[t].mount \in Found' /\ ~LastStale
                 /\ Found = {} \/ (u # t /\ Early(u))
SeeSgetOld(t, u) ==
  /\ task[t].pc = "sget" /\ task[t].part = 0 /\ Stays(t, u) /\ task'[t].pc = "idle"
  /\ Living' = Living /\ Found \subseteq Found' /\ Returned' = Returned
  /\ Armed' \subseteq Armed /\ \A s \in Armed : PartOf(s) # 0 => s \in Armed'
  /\ \A s \in Armed' : PartOf(s) # 0
  /\ (Sterile' <=> Sterile) /\ (LastStale' <=> LastStale) /\ AtLast' = AtLast

Filled(t, u, s) ==
  LET p == task[t].part IN
  /\ task[t].pc = "fill" /\ s = Id(task[t].mount, p) /\ s \in Ids /\ PartOf(s) = p
  /\ s \in Living /\ s \notin Returned
  /\ Living' = Living /\ Found \subseteq Found' /\ AtLast' = AtLast
  /\ \A r \in Armed' : r # s => r \in Armed
  /\ \A r \in Armed : r # s /\ r \in Living => r \in Armed'
  /\ p # K => (Sterile' <=> Sterile)
  /\ (LastStale' <=> LastStale)
  /\ u # t /\ Closing(u) => task[u].sb # s
SeeFillNext(t, u, s) == /\ Filled(t, u, s) /\ Returned' = Returned /\ task[t].part > 0
                     /\ Moved(t, u, "alloc", task[t].part - 1)
SeeFillLast(t, u, s) == /\ Filled(t, u, s) /\ Returned' = Returned \cup {s} /\ task[t].part = 0
                     /\ Stays(t, u) /\ task'[t].pc = "idle"
SeeFillFail(t, u, s) == Filled(t, u, s) /\ Returned' = Returned /\ Taken(t, u, s)
SeeUnmount(t, u, x) ==
  /\ task[t].pc = "idle" /\ Taken(t, u, x)
  /\ Living' = Living /\ Found \subseteq Found' /\ Armed' = Armed
  /\ (Sterile' <=> Sterile) /\ (LastStale' <=> LastStale) /\ AtLast' = AtLast
  /\ x \in Returned /\ PartOf(x) = 0 /\ Returned' = Returned \ {x}
SeeCompareHit(t, u) ==
  /\ Same /\ Stays(t, u) /\ task[t].pc = "compare" /\ task'[t].pc = "umount"
  /\ task'[t].part = Last /\ task'[t].cur = task[t].cur /\ task'[t].sb = task[t].sb
  /\ task[t].cur = Level(t) /\ task[t].sb \in Armed /\ task[t].sb \notin Returned
SeeCompareNext(t, u) ==
  /\ Same /\ Stays(t, u) /\ task[t].pc = "compare" /\ task'[t].pc = "compare"
  /\ task'[t].cur = task[t].cur + 1 /\ task'[t].sb = task[t].sb
  /\ task[t].cur \in Int
  /\ task[t].cur = Last => ~LastStale
SeeUmount(t, u, q) ==
  /\ Stays(t, u) /\ task[t].pc = "umount" /\ q = task[t].part
  /\ task[t].cur = Level(t) /\ task'[t].sb = task[t].sb
  /\ \/ q = 0 /\ task'[t].pc = "compare" /\ task'[t].cur = task[t].cur + 1
     \/ q > 0 /\ task'[t].pc = "umount" /\ task'[t].cur = task[t].cur
        /\ task'[t].part = q - 1
SeeUmountSkip(t, u, q) == SeeUmount(t, u, q) /\ q = Level(t) /\ Same
SeeUmountKill(t, u, q, s) ==
  /\ SeeUmount(t, u, q) /\ q # Level(t)
  /\ s \in Living /\ PartOf(s) = q /\ Living' = Living \ {s}
  /\ \A y \in Found : Id(y, Last) # s => y \in Found'
  /\ Armed' = Armed /\ \A r \in Armed : PartOf(r) = q => r = s
  /\ (Sterile' <=> Sterile) /\ (LastStale' <=> LastStale) /\ AtLast' = AtLast
  /\ Returned' = Returned \ {s}
  /\ q = K => ~Sterile
SeeKilled(t, u, s) ==
  /\ task[t].pc = "compare" /\ task[t].cur = Last + 1 /\ s = task[t].sb
  /\ Stays(t, u) /\ task'[t].pc = "idle"
  /\ Living' = Living \ {s} /\ Returned' = Returned
  /\ \A y \in Found : Id(y, Last) # s => y \in Found'
  /\ Armed' \subseteq Armed /\ \A r \in Armed : r # s /\ r \in Living => r \in Armed'
  /\ (Sterile' <=> Sterile) /\ (LastStale => LastStale') /\ AtLast' = AtLast
  /\ s \in AtLast => LastStale'
  /\ \A q \in Partitions : u # t =>
       /\ Opening(u) => Id(task[u].mount, q) # s
       /\ Closing(u) => Id(MountOf(task[u].sb), q) # s
  /\ \A x \in Returned, q \in Partitions : Id(MountOf(x), q) # s

(* No two super blocks of a partition are armed, and no two tasks close    *)
(* one.                                                                    *)
ArmedOnce == \A r, s \in Armed : PartOf(r) = PartOf(s) => r = s
ClosedOnce(t, u) == Closing(t) /\ Closing(u) /\ task[t].sb = task[u].sb => t = u
Names == /\ \A s \in Ids : s = Id(MountOf(s), PartOf(s))
         /\ \A s \in Ids, q \in Partitions : PartOf(Id(MountOf(s), q)) = q
Mine(t) == \A q \in Partitions : Opening(t) =>
  /\ Id(task[t].mount, q) \in Ids /\ PartOf(Id(task[t].mount, q)) = q
  /\ MountOf(Id(task[t].mount, q)) = task[t].mount
ReturnedFirst == \A x \in Returned : x \in Living /\ x \in Ids /\ PartOf(x) = 0
ArmedIds == \A x \in Armed : x \in Ids

LEMMA Still ==
  ASSUME UNCHANGED <<list, info, super>>, NEW t \in Tasks, Only(t),
         task[t].pc # "open"
  PROVE  Same
  <1>1. ASSUME NEW y \in Found PROVE y \in Found'
    <2>1. ASSUME NEW v \in Tasks, task[v].pc = "open" PROVE task'[v] = task[v]
      BY <2>1 DEF Only
    <2> QED
      BY <1>1, <2>1 DEF Found, Alive
  <1> QED
    BY <1>1 DEF Same, Living, Alive, Armed, Sterile, LastStale, Stale, AtLast,
                Returned

LEMMA SeesMountCall ==
  ASSUME NEW t \in Tasks, NEW u \in Tasks, DidMountCall(t)
  PROVE  SeeMountCall(t, u)
BY Still DEF DidMountCall, SeeMountCall, Only, Stays

LEMMA Relisted ==
  ASSUME PartsInt, IdsInt, NoneOut, ListKnown, NEW t \in Tasks,
         NEW u \in Tasks, \A v \in Tasks : v = t \/ v = u, Only(t),
         UNCHANGED super, task[t].pc = "alloc", task[t].part \in Partitions,
         \A q \in Partitions : q # task[t].part => list'[q] = list[q],
         \A q \in Partitions : q # task[t].part /\ list[q] # None => info'[list[q]] = info[list[q]],
         list'[task[t].part] = None \/ info'[list'[task[t].part]].sb = None,
         \A s \in Ids : Alive(s) => info'[super[s].info].devices = info[super[s].info].devices
  PROVE  Listed(t, u, task[t].part)
  <1> DEFINE p == task[t].part
  <1>1. Living' = Living /\ Returned' = Returned
    BY DEF Living, Alive, Returned
  <1>2. \A s \in Ids : PartOf(s) # p => (s \in Armed' <=> s \in Armed)
    BY DEF Armed, PartOf, IdsInt
  <1>3. \A s \in Armed' : PartOf(s) # p
    <2> SUFFICES ASSUME NEW s \in Armed', PartOf(s) = p
                 PROVE  FALSE
      OBVIOUS
    <2>1. s \in Ids /\ list'[s[2]] # None /\ info'[list'[s[2]]].sb = s
      BY DEF Armed, PartOf
    <2> QED
      BY <2>1 DEF NoneOut, PartOf
  <1>4. Armed' \subseteq Armed /\ \A s \in Armed : PartOf(s) # p => s \in Armed'
    BY <1>2, <1>3 DEF Armed
  <1>5. p # K => (Sterile' <=> Sterile)
    BY DEF Sterile, PartsInt
  <1>6. p # Last => (LastStale' <=> LastStale) /\ AtLast' = AtLast
    <2> SUFFICES ASSUME p # Last PROVE (LastStale' <=> LastStale) /\ AtLast' = AtLast
      OBVIOUS
    <2>1. list'[Last] = list[Last]
      BY DEF PartsInt
    <2> QED
      BY <2>1 DEF LastStale, Stale, AtLast, PartsInt
  <1>7. p = K => Sterile'
    BY DEF Sterile
  <1>8. ASSUME NEW y \in Found, y \notin Found'
        PROVE  p = Last /\ u # t /\ Early(u)
    <2>1. y \in 1 .. MaxMounts /\ Id(y, Last) \in Ids /\ Alive(Id(y, Last)) /\ Alive(Id(y, Last))'
      BY <1>8 DEF Found, Ids, Id, PartsInt, Alive
    <2>2. ~info[super[Id(y, Last)].info].devices
      BY <1>8, <2>1 DEF Found
    <2>3. /\ list[Last] = super[Id(y, Last)].info
          /\ \E v \in Tasks : task[v].pc = "open" /\ task[v].part = Last
      BY <1>8, <2>2 DEF Found
    <2>4. PICK v \in Tasks : task[v].pc = "open" /\ task[v].part = Last
      BY <2>3
    <2>5. v # t /\ v = u /\ task'[v] = task[v]
      BY <2>4 DEF Only
    <2>6. p = Last
      BY <1>8, <2>1, <2>3, <2>4, <2>5 DEF Found, PartsInt
    <2> QED
      BY <2>4, <2>5, <2>6 DEF Early
  <1> QED
    BY <1>1, <1>3, <1>4, <1>5, <1>6, <1>7, <1>8 DEF Listed

LEMMA SeesAlloc ==
  ASSUME PartsInt, IdsInt, NoneOut, TaskPart, TaskIds, ListKnown, InfosAhead,
         InfoNew, Kept, SuperKnown, NEW t \in Tasks, NEW u \in Tasks,
         \A v \in Tasks : v = t \/ v = u, DidAlloc(t)
  PROVE  SeeAlloc(t, u)
  <1> DEFINE p == task[t].part  i == Id(task[t].mount, p)
  <1>1. p \in Partitions /\ i \in Ids /\ i[2] = p /\ info[i].state = "none"
    BY DEF TaskPart, TaskIds, InfosAhead, DidAlloc, Opening
  <1>2. info'[i].sb = None
    BY <1>1 DEF DidAlloc, InfoNew
  <1>3. \A q \in Partitions : q # p /\ list[q] # None => info'[list[q]] = info[list[q]]
    BY <1>1 DEF ListKnown, DidAlloc
  <1>4. \A s \in Ids : Alive(s) => info'[super[s].info].devices = info[super[s].info].devices
    BY <1>1 DEF Kept, SuperKnown, Alive, DidAlloc
  <1>5. Listed(t, u, p)
    BY <1>1, <1>2, <1>3, <1>4, Relisted DEF DidAlloc
  <1> QED
    BY <1>5 DEF SeeAlloc, Moved, DidAlloc, Only, Stays

LEMMA SeesAllocFails ==
  ASSUME PartsInt, IdsInt, NoneOut, TaskPart, ListKnown, NEW t \in Tasks,
         NEW u \in Tasks, \A v \in Tasks : v = t \/ v = u, DidAllocFails(t)
  PROVE  SeeAllocFails(t, u)
  <1>1. Listed(t, u, task[t].part)
    BY Relisted DEF DidAllocFails, TaskPart
  <1> QED
    BY <1>1 DEF SeeAllocFails, DidAllocFails, Only, Stays, LastStale, Stale,
                PartsInt

LEMMA SeesOpen ==
  ASSUME PartsInt, IdsInt, ListKnown, SuperKnown, NEW t \in Tasks,
         NEW u \in Tasks, DidOpen(t)
  PROVE  SeeOpen(t, u)
  <1> DEFINE i == list[task[t].part]
  <1>1. \A j \in Ids : /\ info'[j].state = info[j].state /\ info'[j].sb = info[j].sb
                       /\ info[j].devices => info'[j].devices
    BY DEF DidOpen
  <1>2. ASSUME NEW y \in Found PROVE y \in Found'
    <2>1. y \in 1 .. MaxMounts /\ Id(y, Last) \in Ids /\ Alive(Id(y, Last)) /\ Alive(Id(y, Last))'
      BY <1>2 DEF Found, Ids, Id, PartsInt, Alive, DidOpen
    <2>2. super[Id(y, Last)].info \in Ids
      BY <2>1 DEF SuperKnown, Alive
    <2>3. CASE info[super[Id(y, Last)].info].devices
      BY <1>1, <2>1, <2>2, <2>3 DEF Found, DidOpen
    <2>4. ASSUME list[Last] = super[Id(y, Last)].info,
                 NEW v \in Tasks, task[v].pc = "open" /\ task[v].part = Last
          PROVE  y \in Found'
      <3>1. CASE v = t
        BY <2>1, <2>4, <3>1 DEF Found, DidOpen
      <3>2. CASE v # t
        BY <2>1, <2>4, <3>2 DEF Found, DidOpen, Only
      <3> QED
        BY <3>1, <3>2
    <2> QED
      BY <1>2, <2>3, <2>4 DEF Found
  <1>3. Living' = Living /\ Returned' = Returned /\ AtLast' = AtLast
    BY DEF Living, Alive, Returned, AtLast, DidOpen
  <1>4. Armed' = Armed /\ (Sterile' <=> Sterile) /\ (LastStale' <=> LastStale)
    <2>1. UNCHANGED list
      BY DEF DidOpen
    <2>2. \A q \in Partitions : list[q] # None =>
            info'[list[q]].state = info[list[q]].state /\ info'[list[q]].sb = info[list[q]].sb
      BY <1>1 DEF ListKnown
    <2>3. \A s \in Ids : s \in Armed' <=> s \in Armed
      <3> SUFFICES ASSUME NEW s \in Ids PROVE s \in Armed' <=> s \in Armed
        OBVIOUS
      <3>1. s[2] \in Partitions
        BY DEF IdsInt
      <3> QED
        BY <2>1, <2>2, <3>1 DEF Armed, PartOf
    <2>4. Armed' = Armed
      BY <2>3 DEF Armed
    <2> QED
      BY <2>1, <2>2, <2>4 DEF Sterile, LastStale, Stale, PartsInt
  <1> QED
    BY <1>2, <1>3, <1>4 DEF SeeOpen, Moved, Same, DidOpen, Only, Stays

LEMMA SeesSgetNew ==
  ASSUME PartsInt, IdsInt, IdsOf, NoneOut, TaskPart, TaskIds, ListKnown,
         SuperKnown, SupersAhead, OwnApart, OpenedBy, MineListed, Seen,
         \A v \in Tasks : task[v].pc # "oops", NEW t \in Tasks,
         NEW u \in Tasks, \A v \in Tasks : v = t \/ v = u, DidSgetNew(t)
  PROVE  SeeSgetNew(t, u)
  <1> DEFINE p == task[t].part  s == Id(task[t].mount, p)
  <1>1. p \in Partitions /\ s \in Ids /\ s[2] = p /\ MountOf(s) = task[t].mount /\ super[s].state = "none"
    BY DEF TaskPart, TaskIds, SupersAhead, DidSgetNew, Opening, MountOf
  <1>2. \A r \in Ids : r # s => super'[r] = super[r]
    BY DEF DidSgetNew
  <1>3. Living' = Living \cup {s} /\ s \notin Living /\ Returned' = Returned
    BY <1>1, <1>2 DEF Living, Returned, Alive, DidSgetNew
  <1>4. Armed' = Armed /\ (Sterile' <=> Sterile) /\ (LastStale' <=> LastStale)
    BY DEF Armed, Sterile, LastStale, Stale, DidSgetNew
  <1>5. \A v \in Tasks : task[v].pc = "open" => v # t /\ v = u /\ task'[v] = task[v]
    BY DEF DidSgetNew, Only
  <1>6. \A y \in Found : /\ y \in 1 .. MaxMounts /\ Id(y, Last) \in Ids /\ Alive(Id(y, Last)) /\ Id(y, Last)[2] = Last
    BY DEF Found, Ids, Id, PartsInt
  <1>7. ASSUME NEW y \in Found PROVE y \in Found'
    <2>1. super'[Id(y, Last)] = super[Id(y, Last)]
      BY <1>1, <1>2, <1>6, <1>7 DEF Alive
    <2> QED
      BY <1>5, <1>6, <1>7, <2>1 DEF Found, Alive, DidSgetNew
  <1>8. \A q \in Partitions : u # t /\ Opening(u) => Id(task[u].mount, q) # s
    BY <1>1 DEF OwnApart, Own, TaskIds, Opening, DidSgetNew, MountOf
  <1>9. ASSUME p < Last, NEW r \in Living PROVE PartOf(r) # p
    <2>1. list[p] = s /\ info[s].devices
      BY <1>9 DEF MineListed, DidSgetNew
    <2> QED
      BY <1>9, <2>1 DEF Seen, Living, PartOf, DidSgetNew, IdsInt, PartsInt
  <1>10. ASSUME p = Last
         PROVE  /\ s \in AtLast' /\ task[t].mount \in Found' /\ ~LastStale
                /\ Found = {} \/ (u # t /\ Early(u))
    <2>1. ~LastStale
      BY <1>10 DEF LastStale, Stale, NoneOut, DidSgetNew
    <2>2. s \in AtLast'
      BY <1>1, <1>10 DEF AtLast, DidSgetNew
    <2>3. ~info[list[Last]].devices => \E v \in Tasks : task[v].pc = "open" /\ task[v].part = Last
      BY <1>10, <2>1 DEF OpenedBy, LastStale, DidSgetNew
    <2>4. task[t].mount \in 1 .. MaxMounts
      BY <1>1 DEF Ids, Id
    <2>5. task[t].mount \in Found'
      <3>1. Alive(s)' /\ super'[s].info = list[Last]
        BY <1>10 DEF Alive, DidSgetNew
      <3>2. CASE info[list[Last]].devices
        BY <1>10, <2>4, <3>1, <3>2 DEF Found, DidSgetNew
      <3>3. CASE ~info[list[Last]].devices
        <4>1. \E v \in Tasks : task'[v].pc = "open" /\ task'[v].part = Last
          BY <1>5, <2>3, <3>3
        <4> QED
          BY <1>10, <2>4, <3>1, <4>1 DEF Found, DidSgetNew
      <3> QED
        BY <3>2, <3>3
    <2>6. ASSUME NEW y \in Found PROVE u # t /\ Early(u)
      <3>1. \E v \in Tasks : task[v].pc = "open" /\ task[v].part = Last
        <4>1. CASE info[super[Id(y, Last)].info].devices
          BY <1>6, <1>10, <2>3, <2>6, <4>1 DEF DidSgetNew
        <4>2. CASE ~info[super[Id(y, Last)].info].devices
          BY <2>6, <4>2 DEF Found
        <4> QED
          BY <4>1, <4>2
      <3> QED
        BY <1>5, <3>1 DEF Early
    <2> QED
      BY <2>1, <2>2, <2>5, <2>6
  <1>11. Moved(t, u, "fill", p)
    BY DEF Moved, DidSgetNew, Only, Stays
  <1> QED
    BY <1>3, <1>4, <1>7, <1>8, <1>9, <1>10, <1>11 DEF SeeSgetNew, DidSgetNew

LEMMA SeesSgetOld ==
  ASSUME PartsInt, IdsInt, NoneOut, ListKnown, SuperKnown, NEW t \in Tasks,
         NEW u \in Tasks, DidSgetOld(t)
  PROVE  SeeSgetOld(t, u)
  <1> DEFINE i == list[0]
  <1>1. /\ UNCHANGED list /\ i \in Ids /\ i[2] = 0
        /\ \A j \in Ids : j # i => info'[j] = info[j]
        /\ \A j \in Ids : info'[j].sb = info[j].sb /\ (info'[j].devices = info[j].devices)
        /\ info'[i].state = "freed"
    BY DEF DidSgetOld, ListKnown, PartsInt, NoneOut
  <1>2. \A q \in Partitions : q # 0 /\ list[q] # None => list[q] \in Ids /\ info'[list[q]] = info[list[q]]
    BY <1>1 DEF ListKnown
  <1>3. \A r \in Ids : super'[r].state = super[r].state /\ super'[r].info = super[r].info
    BY DEF DidSgetOld
  <1>4. Living' = Living /\ Returned' = Returned /\ AtLast' = AtLast
    BY <1>1, <1>3 DEF Living, Alive, Returned, AtLast
  <1>5. \A s \in Ids : PartOf(s) # 0 => (s \in Armed' <=> s \in Armed)
    BY <1>1, <1>2 DEF Armed, PartOf, IdsInt
  <1>6. \A s \in Armed' : PartOf(s) # 0
    BY <1>1 DEF Armed, PartOf
  <1>7. Armed' \subseteq Armed /\ \A s \in Armed : PartOf(s) # 0 => s \in Armed'
    BY <1>5, <1>6 DEF Armed
  <1>8. (Sterile' <=> Sterile) /\ (LastStale' <=> LastStale)
    <2>1. list[K] # None => list[K] \in Ids
      BY DEF ListKnown, PartsInt
    <2>2. Last # 0
      BY DEF PartsInt
    <2> QED
      BY <1>1, <1>2, <2>1, <2>2 DEF Sterile, LastStale, Stale, PartsInt
  <1>9. ASSUME NEW y \in Found PROVE y \in Found'
    <2>1. y \in 1 .. MaxMounts /\ Id(y, Last) \in Ids /\ Alive(Id(y, Last))
      BY <1>9 DEF Found, Ids, Id, PartsInt
    <2>2. super[Id(y, Last)].info \in Ids
      BY <2>1 DEF SuperKnown, Alive
    <2>3. \A v \in Tasks : task[v].pc = "open" => task'[v] = task[v]
      BY DEF DidSgetOld, Only
    <2>4. /\ Alive(Id(y, Last))' /\ super'[Id(y, Last)].info = super[Id(y, Last)].info
          /\ info'[super[Id(y, Last)].info].devices = info[super[Id(y, Last)].info].devices
      BY <1>1, <1>3, <2>1, <2>2 DEF Alive
    <2> QED
      BY <1>1, <1>9, <2>1, <2>3, <2>4 DEF Found
  <1>10. task[t].pc = "sget" /\ task[t].part = 0 /\ Stays(t, u) /\ task'[t].pc = "idle"
    BY DEF DidSgetOld, Only, Stays
  <1> QED
    BY <1>4, <1>6, <1>7, <1>8, <1>9, <1>10 DEF SeeSgetOld

LEMMA SeesFill ==
  ASSUME PartsInt, IdsInt, NoneOut, TaskIds, TaskPart, ListKnown, SuperKnown,
         SbKnown, Apart, OwnApart, NEW t \in Tasks, NEW u \in Tasks, NEW s,
         NEW i, DidFill(t, s, i), info'[i].sb = s \/ info'[i].sb = info[i].sb,
         super'[s].state \in {"locked", "free"}, task'[t].pc # "fill"
  PROVE  Filled(t, u, s)
  <1> DEFINE p == task[t].part
  <1>1. /\ task[t].pc = "fill" /\ s = Id(task[t].mount, p) /\ s \in Ids /\ PartOf(s) = p
        /\ s \in Living /\ s \notin Returned /\ MountOf(s) = task[t].mount /\ p \in Partitions
        /\ i \in Ids /\ i[2] = p /\ i = super[s].info /\ UNCHANGED list
    BY DEF DidFill, TaskIds, TaskPart, Opening, PartOf, MountOf, Living, Alive,
           Returned
  <1>2. \A j \in Ids : /\ info'[j].state = info[j].state /\ info'[j].devices = info[j].devices
                       /\ j # i => info'[j].sb = info[j].sb
    BY DEF DidFill
  <1>3. \A r \in Ids : (Alive(r)' <=> Alive(r)) /\ super'[r].info = super[r].info
    BY <1>1 DEF DidFill, Alive
  <1>4. Living' = Living /\ AtLast' = AtLast
    BY <1>1, <1>3 DEF Living, AtLast
  <1>5. \A q \in Partitions : list[q] # None => list[q] \in Ids /\ list[q][2] = q
    BY DEF ListKnown
  <1>6. ASSUME NEW r \in Armed', r # s PROVE r \in Armed
    <2>1. r \in Ids /\ list[PartOf(r)] # None /\ PartOf(r) \in Partitions
          /\ info'[list[PartOf(r)]].state = "live" /\ info'[list[PartOf(r)]].sb = r
      BY <1>1, <1>6 DEF Armed, IdsInt, PartOf
    <2>2. info[list[PartOf(r)]].state = "live" /\ info[list[PartOf(r)]].sb = r
      BY <1>2, <1>5, <1>6, <2>1
    <2> QED
      BY <2>1, <2>2 DEF Armed
  <1>7. ASSUME NEW r \in Armed, r # s, r \in Living PROVE r \in Armed'
    <2>1. r \in Ids /\ list[PartOf(r)] # None /\ PartOf(r) \in Partitions
          /\ info[list[PartOf(r)]].state = "live" /\ info[list[PartOf(r)]].sb = r
      BY <1>7 DEF Armed, IdsInt, PartOf
    <2>2. super[r].info = list[PartOf(r)]
      BY <1>5, <2>1, NoneOut DEF SbKnown, NoneOut
    <2>3. list[PartOf(r)] # i
      BY <1>1, <1>7, <2>1, <2>2 DEF Apart, Living
    <2>4. info'[list[PartOf(r)]].state = "live" /\ info'[list[PartOf(r)]].sb = r
      BY <1>2, <1>5, <2>1, <2>3
    <2> QED
      BY <1>1, <2>1, <2>4 DEF Armed
  <1>8. p # K => (Sterile' <=> Sterile)
    BY <1>1, <1>2, <1>5 DEF Sterile, PartsInt
  <1>9. LastStale' <=> LastStale
    BY <1>1, <1>2, <1>5 DEF LastStale, Stale, PartsInt
  <1>10. ASSUME NEW y \in Found PROVE y \in Found'
    <2>1. y \in 1 .. MaxMounts /\ Id(y, Last) \in Ids /\ Alive(Id(y, Last))
      BY <1>10 DEF Found, Ids, Id, PartsInt
    <2>2. super[Id(y, Last)].info \in Ids
      BY <2>1 DEF SuperKnown, Alive
    <2>3. \A v \in Tasks : task[v].pc = "open" => task'[v] = task[v]
      BY <1>1 DEF DidFill, Only
    <2>4. /\ Alive(Id(y, Last))' /\ super'[Id(y, Last)].info = super[Id(y, Last)].info
          /\ info'[super[Id(y, Last)].info].devices = info[super[Id(y, Last)].info].devices
      BY <1>2, <1>3, <2>1, <2>2
    <2> QED
      BY <1>1, <1>10, <2>1, <2>3, <2>4 DEF Found
  <1>11. u # t /\ Closing(u) => task[u].sb # s
    BY <1>1 DEF OwnApart, Own, Opening, Closing, MountOf
  <1> QED
    BY <1>1, <1>4, <1>6, <1>7, <1>8, <1>9, <1>10, <1>11 DEF Filled

LEMMA SeesFillNext ==
  ASSUME NEW t \in Tasks, NEW u \in Tasks, NEW s, NEW i, DidFillNext(t, s, i),
         Filled(t, u, s)
  PROVE  SeeFillNext(t, u, s)
  <1>1. Returned' = Returned
    BY DEF DidFillNext, DidFill, Returned
  <1> QED
    BY <1>1 DEF SeeFillNext, DidFillNext, DidFill, Moved, Only, Stays

LEMMA SeesFillLast ==
  ASSUME NEW t \in Tasks, NEW u \in Tasks, NEW s, NEW i, DidFillLast(t, s, i),
         Filled(t, u, s)
  PROVE  SeeFillLast(t, u, s)
  <1>1. Returned' = Returned \cup {s}
    BY DEF DidFillLast, DidFill, Returned
  <1> QED
    BY <1>1 DEF SeeFillLast, DidFillLast, DidFill, Only, Stays

LEMMA SeesFillFail ==
  ASSUME NEW t \in Tasks, NEW u \in Tasks, NEW s, NEW i, DidFillFail(t, s, i),
         Filled(t, u, s)
  PROVE  SeeFillFail(t, u, s)
  <1>1. Returned' = Returned
    BY DEF DidFillFail, DidFill, Returned
  <1> QED
    BY <1>1 DEF SeeFillFail, DidFillFail, DidFill, Taken, Only, Stays

  (* A step that leaves the array and the fs_infos, and at most takes one super block down. *)
LEMMA Shut ==
  ASSUME PartsInt, UNCHANGED <<list, info>>, NEW t \in Tasks, Only(t),
         task[t].pc # "open", NEW s \in Ids,
         \A r \in Ids : super'[r].info = super[r].info,
         \A r \in Ids : r # s => super'[r] = super[r]
  PROVE  /\ Armed' = Armed /\ (Sterile' <=> Sterile) /\ (LastStale' <=> LastStale) /\ AtLast' = AtLast
         /\ \A y \in Found : Id(y, Last) # s \/ Alive(s)' => y \in Found'
  <1>1. Armed' = Armed /\ (Sterile' <=> Sterile) /\ (LastStale' <=> LastStale) /\ AtLast' = AtLast
    BY DEF Armed, Sterile, LastStale, Stale, AtLast
  <1>2. ASSUME NEW y \in Found, Id(y, Last) # s \/ Alive(s)' PROVE y \in Found'
    <2>1. y \in 1 .. MaxMounts /\ Id(y, Last) \in Ids /\ Alive(Id(y, Last))
      BY <1>2 DEF Found, Ids, Id, PartsInt
    <2>2. \A v \in Tasks : task[v].pc = "open" => task'[v] = task[v]
      BY DEF Only
    <2>3. Alive(Id(y, Last))' /\ super'[Id(y, Last)].info = super[Id(y, Last)].info
      BY <1>2, <2>1 DEF Alive
    <2> QED
      BY <1>2, <2>1, <2>2, <2>3 DEF Found
  <1> QED
    BY <1>1, <1>2

LEMMA SeesUnmount ==
  ASSUME PartsInt, NEW t \in Tasks, NEW u \in Tasks, NEW x, DidUnmount(t, x)
  PROVE  SeeUnmount(t, u, x)
  <1>1. x \in Ids /\ (\A r \in Ids : super'[r].info = super[r].info) /\ Alive(x)'
    BY DEF DidUnmount, Alive
  <1>2. /\ Armed' = Armed /\ (Sterile' <=> Sterile) /\ (LastStale' <=> LastStale) /\ AtLast' = AtLast
        /\ Found \subseteq Found'
    BY <1>1, Shut DEF DidUnmount
  <1>3. Living' = Living /\ Returned' = Returned \ {x} /\ x \in Returned
    BY DEF DidUnmount, Living, Returned, Alive
  <1> QED
    BY <1>2, <1>3 DEF SeeUnmount, DidUnmount, Taken, Only, Stays, PartOf

LEMMA SeesCompareHit ==
  ASSUME IdsInt, NoneOut, ListKnown, SbKnown, SuperKnown, Closed,
         NEW t \in Tasks, NEW u \in Tasks, DidCompareHit(t), Same
  PROVE  SeeCompareHit(t, u)
  <1> DEFINE s == task[t].sb  c == task[t].cur
  <1>1. s \in Ids /\ super[s].state \in {"locked", "dead"} /\ c \in Partitions
        /\ list[c] \in Ids /\ info[list[c]].state = "live" /\ info[list[c]].sb = s
    BY DEF Closed, Closing, DidCompareHit
  <1>2. list[c][2] = c
    BY <1>1 DEF ListKnown, NoneOut
  <1>3. super[s].info = list[c]
    BY <1>1 DEF SbKnown, NoneOut
  <1>4. PartOf(s) = c
    BY <1>1, <1>2, <1>3 DEF SuperKnown, PartOf
  <1>5. s \in Armed /\ s \notin Returned
    BY <1>1, <1>4 DEF Armed, Returned, NoneOut
  <1> QED
    BY <1>4, <1>5 DEF SeeCompareHit, DidCompareHit, Only, Stays, Level

LEMMA SeesCompareNext ==
  ASSUME NoneOut, PartsInt, NEW t \in Tasks, NEW u \in Tasks,
         DidCompareNext(t), Same
  PROVE  SeeCompareNext(t, u)
  <1>1. task[t].cur \in Int
    BY DEF DidCompareNext, PartsInt
  <1>2. task[t].cur = Last => ~LastStale
    BY DEF DidCompareNext, LastStale, Stale, NoneOut
  <1> QED
    BY <1>1, <1>2 DEF SeeCompareNext, DidCompareNext, Only, Stays

LEMMA SeesUmount ==
  ASSUME AtOwn, NEW t \in Tasks, NEW u \in Tasks, NEW q, DidUmount(t, q)
  PROVE  SeeUmount(t, u, q)
BY DEF SeeUmount, DidUmount, Only, Stays, AtOwn

LEMMA SeesUmountKill ==
  ASSUME PartsInt, TaskPart, NoneOut, AtOwn, ListKnown, SbKnown, SuperKnown,
         NEW t \in Tasks, NEW u \in Tasks, NEW q, NEW s, DidUmountKill(t, q, s)
  PROVE  SeeUmountKill(t, u, q, s)
  <1>1. /\ q \in Partitions /\ s \in Ids /\ Alive(s) /\ list[q] \in Ids /\ info[list[q]].sb = s
        /\ ~Alive(s)' /\ s \notin Returned'
        /\ (\A r \in Ids : super'[r].info = super[r].info) /\ \A r \in Ids : r # s => super'[r] = super[r]
    BY Zenon DEF DidUmountKill, DidUmount, TaskPart, Alive, Returned
  <1>2. super[s].info = list[q] /\ list[q][2] = q
    BY <1>1 DEF SbKnown, ListKnown, NoneOut
  <1>3. PartOf(s) = q
    BY <1>1, <1>2 DEF SuperKnown, Alive, PartOf
  <1>4. /\ Armed' = Armed /\ (Sterile' <=> Sterile) /\ (LastStale' <=> LastStale) /\ AtLast' = AtLast
        /\ \A y \in Found : Id(y, Last) # s => y \in Found'
    BY <1>1, Shut, Zenon DEF DidUmountKill, DidUmount
  <1>5. s \in Living /\ Living' = Living \ {s}
    BY <1>1 DEF Living, Alive
  <1>6. Returned' = Returned \ {s}
    BY <1>1 DEF Returned
  <1>7. \A r \in Armed : PartOf(r) = q => r = s
    BY <1>1 DEF Armed
  <1>8. q = K => ~Sterile
    BY <1>1, Zenon DEF Sterile, NoneOut
  <1>9. SeeUmount(t, u, q) /\ q # Level(t)
    BY SeesUmount DEF DidUmountKill, DidUmount, AtOwn
  <1> QED
    BY <1>3, <1>4, <1>5, <1>6, <1>7, <1>8, <1>9 DEF SeeUmountKill

LEMMA SeesKilled ==
  ASSUME PartsInt, IdsInt, IdsOf, NoneOut, TaskIds, ListKnown, SuperKnown,
         SbKnown, Apart, Closed, OwnApart, OwnBusy, NEW t \in Tasks,
         NEW u \in Tasks, Levels(u), NEW s, NEW i, DidKilled(t, s, i)
  PROVE  SeeKilled(t, u, s)
  <1>1. /\ task[t].pc = "compare" /\ s = task[t].sb /\ s \in Ids /\ Alive(s) /\ super[s].state = "locked"
        /\ i \in Ids /\ i = super[s].info /\ UNCHANGED list
    BY DEF DidKilled, Closed, Closing, Alive
  <1>2. (\A r \in Ids : super'[r].info = super[r].info) /\ (\A r \in Ids : r # s => super'[r] = super[r])
        /\ super'[s].state = "dead"
    BY DEF DidKilled
  <1>3. /\ info'[i].state = "freed"
        /\ \A j \in Ids : /\ info'[j].devices = info[j].devices /\ info'[j].sb = info[j].sb
                          /\ j # i => info'[j] = info[j]
    BY DEF DidKilled
  <1>4. Living' = Living \ {s} /\ Returned' = Returned /\ AtLast' = AtLast
    BY <1>1, <1>2 DEF Living, Returned, Alive, AtLast
  <1>5. \A q \in Partitions : list[q] # None => list[q] \in Ids /\ list[q][2] = q
    BY DEF ListKnown
  <1>6. ASSUME NEW y \in Found, Id(y, Last) # s PROVE y \in Found'
    <2>1. y \in 1 .. MaxMounts /\ Id(y, Last) \in Ids /\ Alive(Id(y, Last))
      BY <1>6 DEF Found, Ids, Id, PartsInt
    <2>2. super[Id(y, Last)].info \in Ids
      BY <2>1 DEF SuperKnown, Alive
    <2>3. \A v \in Tasks : task[v].pc = "open" => task'[v] = task[v]
      BY DEF DidKilled, Only
    <2>4. /\ Alive(Id(y, Last))' /\ super'[Id(y, Last)].info = super[Id(y, Last)].info
          /\ info'[super[Id(y, Last)].info].devices = info[super[Id(y, Last)].info].devices
      BY <1>2, <1>3, <1>6, <2>1, <2>2 DEF Alive
    <2> QED
      BY <1>1, <1>6, <2>1, <2>3, <2>4 DEF Found
  <1>7. ASSUME NEW r \in Armed' PROVE r \in Armed
    <2>1. r \in Ids /\ list[PartOf(r)] # None /\ PartOf(r) \in Partitions
          /\ info'[list[PartOf(r)]].state = "live" /\ info'[list[PartOf(r)]].sb = r
      BY <1>1, <1>7 DEF Armed, IdsInt, PartOf
    <2>2. list[PartOf(r)] # i /\ list[PartOf(r)] \in Ids
      BY <1>3, <1>5, <2>1
    <2> QED
      BY <1>3, <2>1, <2>2 DEF Armed
  <1>8. ASSUME NEW r \in Armed, r # s, r \in Living PROVE r \in Armed'
    <2>1. r \in Ids /\ list[PartOf(r)] # None /\ PartOf(r) \in Partitions
          /\ info[list[PartOf(r)]].state = "live" /\ info[list[PartOf(r)]].sb = r
      BY <1>8 DEF Armed, IdsInt, PartOf
    <2>2. super[r].info = list[PartOf(r)]
      BY <1>5, <2>1, NoneOut DEF SbKnown, NoneOut
    <2>3. list[PartOf(r)] # i
      BY <1>1, <1>8, <2>1, <2>2 DEF Apart, Living
    <2>4. info'[list[PartOf(r)]].state = "live" /\ info'[list[PartOf(r)]].sb = r
      BY <1>3, <1>5, <2>1, <2>3
    <2> QED
      BY <1>1, <2>1, <2>4 DEF Armed
  <1>9. (Sterile' <=> Sterile) /\ (LastStale => LastStale')
    <2>1. Sterile' <=> Sterile
      BY <1>1, <1>3, <1>5 DEF Sterile, PartsInt
    <2>2. LastStale => LastStale'
      BY <1>1, <1>3, <1>5 DEF LastStale, Stale, PartsInt
    <2> QED
      BY <2>1, <2>2
  <1>10. s \in AtLast => LastStale'
    BY <1>1, <1>3 DEF AtLast, LastStale, Stale
  <1>11. ASSUME NEW q \in Partitions, u # t
         PROVE  /\ Opening(u) => Id(task[u].mount, q) # s
                /\ Closing(u) => Id(MountOf(task[u].sb), q) # s
    <2>1. Own(t) = MountOf(s) /\ Closing(t)
      BY <1>1 DEF Own, Opening, Closing, MountOf
    <2>2. Opening(u) => Own(u) = task[u].mount
      BY DEF Own
    <2>3. Closing(u) => Own(u) = MountOf(task[u].sb)
      BY DEF Own, Opening, Closing, MountOf
    <2>4. Opening(u) => MountOf(Id(task[u].mount, q)) = task[u].mount
      BY DEF TaskIds, MountOf
    <2>5. Closing(u) => MountOf(Id(MountOf(task[u].sb), q)) = MountOf(task[u].sb)
      BY DEF Levels, IdsOf, MountOf
    <2> QED
      BY <1>11, <2>1, <2>2, <2>3, <2>4, <2>5 DEF OwnApart
  <1>12. \A x \in Returned, q \in Partitions : Id(MountOf(x), q) # s
    <2> SUFFICES ASSUME NEW x \in Returned, NEW q \in Partitions, Id(MountOf(x), q) = s PROVE FALSE
      OBVIOUS
    <2>1. x \in Ids /\ super[x].state = "free"
      BY DEF Returned
    <2>2. s[1] = x[1]
      BY <2>1 DEF IdsOf, MountOf
    <2> QED
      BY <1>1, <2>1, <2>2 DEF OwnBusy, Own, Opening, Closing
  <1> QED
    BY <1>4, <1>6, <1>7, <1>8, <1>9, <1>10, <1>11, <1>12 DEF SeeKilled,
                                                             DidKilled, Only,
                                                             Stays

-----------------------------------------------------------------------------
(***************************************************************************)
(* Order is kept while neither task is stuck                               *)
(***************************************************************************)
Frame(t, u) ==
  /\ PartsInt /\ Part(t) /\ Part(u) /\ Levels(t) /\ Levels(u)
  /\ Mine(t) /\ Mine(u) /\ Names /\ Awake(t) /\ Awake(u)
  /\ ReturnedFirst /\ ArmedIds /\ ArmedOnce /\ ClosedOnce(t, u) /\ OneOf(t, u)

LEMMA UnmountStartChain ==
  ASSUME NEW t \in Tasks, NEW u \in Tasks, PartsInt, Part(t), Part(u),
         Levels(t), Levels(u), StartChain(t, u), StartChain(u, t),
         LedIntact(t, u), LedIntact(u, t), ReturnedFirst, ArmedIds, NEW x,
         SeeUnmount(t, u, x)
  PROVE  StartChain(t, u)' /\ StartChain(u, t)'
  <1>1. StartChain(t, u)'
    BY DEF Chain, Closing, Cut, Level, Levels, Part, PartsInt, Between, Stays,
           SeeUnmount, StartChain, Starting, Taken
  <1>2. ASSUME u # t, Starting(t)', ~Cut(u, t)', NEW q \in Partitions, Level(t)' < q, q <= K
        PROVE  (Id(MountOf(task[t].sb), q) \in Living)'
    <2>1. x \in Armed
      BY <1>2 DEF Starting, SeeUnmount, Taken
    <2>2. Untaken(t)
      BY DEF Untaken, SeeUnmount
    <2>3. Untaken(u)
      BY <1>2 DEF Untaken, Cut, SeeUnmount, Taken, Stays, Level, PartsInt
    <2>4. Led(x, t, u)
      BY <2>1, <2>2, <2>3 DEF Led, SeeUnmount
    <2>5. q < Last
      BY <1>2 DEF PartsInt
    <2>6. Id(MountOf(x), q) \in Living
      BY <2>4, <2>5, <2>1 DEF LedIntact, ArmedIds
    <2> QED
      BY <2>6 DEF SeeUnmount, Taken
  <1> QED
    BY <1>1, <1>2 DEF StartChain, Chain

LEMMA AllocFailsLedQuiet ==
  ASSUME NEW t \in Tasks, NEW u \in Tasks, PartsInt, Part(t), Part(u),
         Levels(t), Levels(u), LedQuiet(t, u), LedBeyond(t, u), ReturnedFirst,
         SeeAllocFails(t, u)
  PROVE  LedQuiet(t, u)'
  <1> DEFINE p == task[t].part
  <1> SUFFICES ASSUME NEW x \in Ids, Led(x, t, u)'
               PROVE  (\/ MountOf(x) \in Found /\ ~Beyond(t) /\ ~Beyond(u)
                       \/ K > 0 /\ Sterile
                       \/ Waiting(t, u) \/ Waiting(u, t))'
    BY DEF LedQuiet
  <1>1. Led(x, t, u)
    BY DEF Led, Untaken, Level, SeeAllocFails, Listed, Stays
  <1>2. CASE p = Last
    <2>1. LastStale'
      BY <1>2 DEF SeeAllocFails
    <2>2. ASSUME u # t, Early(u)
          PROVE  Waiting(t, u)'
      BY <2>1, <2>2 DEF Waiting, Early, SeeAllocFails, Stays
    <2>3. CASE MountOf(x) \in Found /\ ~Beyond(t) /\ ~Beyond(u)
      BY <2>2, <2>3 DEF SeeAllocFails, Listed, Stays, Beyond, Opening
    <2>4. CASE K > 0 /\ Sterile
      BY <1>2, <2>4 DEF SeeAllocFails, Listed, PartsInt
    <2>5. CASE Waiting(t, u)
      BY <2>2, <2>5 DEF Waiting
    <2>6. ~Waiting(u, t)
      BY DEF Waiting, Early, SeeAllocFails
    <2> QED
      BY <1>1, <2>3, <2>4, <2>5, <2>6 DEF LedQuiet
  <1>3. CASE p # Last
    <2>1. p = K
      BY <1>1, <1>3 DEF LedBeyond, Beyond, Opening, SeeAllocFails, Part,
                        Between, PartsInt
    <2>2. p # 0
      BY DEF Led, SeeAllocFails, Listed, ReturnedFirst
    <2> QED
      BY <2>1, <2>2 DEF SeeAllocFails, Listed, Part, Between
  <1> QED
    BY <1>2, <1>3

LEMMA SgetNewFoundBeyond ==
  ASSUME NEW t \in Tasks, NEW u \in Tasks, PartsInt, Part(t), Part(u),
         Levels(t), Levels(u), FoundBeyond(t), FoundBeyond(u), Mine(t),
         SeeSgetNew(t, u)
  PROVE  FoundBeyond(t)' /\ FoundBeyond(u)'
  <1> DEFINE p == task[t].part  s == Id(task[t].mount, p)
  <1>1. FoundBeyond(t)'
    <2>1. CASE p = Last
      BY <2>1 DEF FoundBeyond, SeeSgetNew, Moved
    <2>2. CASE p # Last
      <3>1. Id(task[t].mount, Last) # s
        BY <2>2 DEF Mine, Opening, SeeSgetNew, Part, Between, PartsInt
      <3>2. Beyond(t)
        BY <2>2 DEF Beyond, Opening, SeeSgetNew, Part, Between, PartsInt
      <3> QED
        BY <3>1, <3>2 DEF FoundBeyond, SeeSgetNew, Moved
    <2> QED
      BY <2>1, <2>2
  <1>2. CASE u # t
    <2>1. task'[u] = task[u]
      BY <1>2 DEF SeeSgetNew, Moved, Stays
    <2>2. Opening(u) => Id(task[u].mount, Last) # s
      BY <1>2 DEF SeeSgetNew, PartsInt
    <2> QED
      BY <1>1, <2>1, <2>2 DEF FoundBeyond, SeeSgetNew, Beyond, Opening
  <1> QED
    BY <1>1, <1>2

LEMMA SgetNewStartQuiet ==
  ASSUME NEW t \in Tasks, NEW u \in Tasks, PartsInt, Part(t), Part(u),
         Levels(t), Levels(u), StartQuiet(t, u), StartChain(t, u), Names,
         SeeSgetNew(t, u)
  PROVE  StartQuiet(t, u)'
  <1> DEFINE p == task[t].part  s == Id(task[t].mount, p)
  <1> SUFFICES ASSUME t # u, Starting(u)', ~Cut(t, u)'
               PROVE  (Level(u) = 0 /\ K > 0 /\ Sterile /\ Above(t, K))'
    BY DEF StartQuiet
  <1>1. Starting(u) /\ ~Cut(t, u) /\ Closing(u)
    BY DEF Starting, Closing, Cut, Level, SeeSgetNew, Moved, Stays
  <1>2. ~Early(u)
    BY <1>1 DEF Early, Closing
  <1>3. CASE p = Last
    <2>1. Level(u) = 0 /\ K > 0 /\ Sterile
      BY <1>1, <1>2, <1>3 DEF StartQuiet, SeeSgetNew
    <2> QED
      BY <2>1, <1>3 DEF SeeSgetNew, Moved, Above, Level, Stays, PartsInt
  <1>4. CASE p # Last
    <2>1. Beyond(t)
      BY <1>4 DEF Beyond, Opening, SeeSgetNew, Part, Between, PartsInt
    <2>2. Level(u) = 0 /\ K > 0 /\ Sterile /\ Above(t, K)
      BY <1>1, <2>1 DEF StartQuiet, Early, Beyond, Part, Between, PartsInt,
                        SeeSgetNew
    <2>3. Id(MountOf(task[u].sb), K) \in Living
      BY <1>1, <2>2 DEF StartChain, Chain, PartsInt
    <2>4. PartOf(Id(MountOf(task[u].sb), K)) = K
      BY <1>1 DEF Names, Levels, PartsInt
    <2>5. p # K
      BY <1>4, <2>3, <2>4 DEF SeeSgetNew, Part, Between, PartsInt
    <2> QED
      BY <2>2, <2>5 DEF SeeSgetNew, Moved, Above, Level, Stays, Opening
  <1> QED
    BY <1>3, <1>4

LEMMA SgetNewMiddleAbove ==
  ASSUME NEW t \in Tasks, NEW u \in Tasks, PartsInt, Part(t), Part(u),
         Levels(t), Levels(u), MiddleAbove(t, u), MiddleChain(t, u), Names,
         SeeSgetNew(t, u)
  PROVE  MiddleAbove(t, u)'
  <1> DEFINE p == task[t].part  c == task[u].part
  <1> SUFFICES ASSUME t # u, Amid(u)', ~Cut(t, u)'
               PROVE  Above(t, task[u].part)'
    BY DEF MiddleAbove
  <1>1. Amid(u) /\ ~Cut(t, u) /\ Closing(u)
    BY DEF Amid, Closing, Cut, Level, SeeSgetNew, Moved, Stays
  <1>2. Above(t, c)
    BY <1>1 DEF MiddleAbove
  <1>3. Id(MountOf(task[u].sb), c) \in Living
    BY <1>1 DEF MiddleChain, Chain, Amid, Levels, Part, Between, PartsInt
  <1>4. PartOf(Id(MountOf(task[u].sb), c)) = c
    BY <1>1 DEF Names, Levels, Part, Between
  <1>5. p # c
    BY <1>1, <1>3, <1>4 DEF SeeSgetNew, Amid
  <1> QED
    BY <1>2, <1>5 DEF SeeSgetNew, Moved, Above, Stays, Opening

LEMMA SgetNewLedBeyond ==
  ASSUME NEW t \in Tasks, NEW u \in Tasks, PartsInt, Part(t), Part(u),
         Levels(t), Levels(u), LedBeyond(t, u), LedBeyond(u, t),
         LedIntact(t, u), Names, SeeSgetNew(t, u)
  PROVE  LedBeyond(t, u)' /\ LedBeyond(u, t)'
  <1> DEFINE p == task[t].part
  <1>1. ASSUME NEW x \in Ids, Led(x, t, u)'
        PROVE  Led(x, t, u) /\ Led(x, u, t)
    BY <1>1 DEF Led, Untaken, Level, SeeSgetNew, Moved, Stays
  <1>2. ASSUME NEW x \in Ids, Led(x, t, u)', p # Last
        PROVE  FALSE
    <2>1. p = K
      BY <1>1, <1>2 DEF LedBeyond, Beyond, Opening, SeeSgetNew, Part, Between,
                        PartsInt
    <2>2. Id(MountOf(x), p) \in Living
      BY <1>1, <1>2, <2>1 DEF LedIntact, PartsInt
    <2> QED
      BY <2>1, <2>2, <1>2 DEF Names, SeeSgetNew, Part, Between, PartsInt
  <1>3. LedBeyond(t, u)'
    BY <1>2 DEF LedBeyond, SeeSgetNew, Moved
  <1>4. CASE u # t
    <2>1. task'[u] = task[u]
      BY <1>4 DEF SeeSgetNew, Moved, Stays
    <2>2. ASSUME NEW x \in Ids, Led(x, u, t)'
          PROVE  Led(x, u, t)
      BY <1>1, <2>2 DEF Led
    <2>3. Beyond(u)' = Beyond(u)
      BY <2>1 DEF Beyond, Opening
    <2> QED
      BY <1>3, <2>1, <2>2, <2>3 DEF LedBeyond
  <1> QED
    BY <1>3, <1>4

LEMMA FillNextAimed ==
  ASSUME NEW t \in Tasks, NEW u \in Tasks, Aimed(u), Awake(u), NEW s,
         Filled(t, u, s), Stays(t, u)
  PROVE  u # t => Aimed(u)'
  <1> SUFFICES ASSUME u # t, Taking(u)'
               PROVE  (task[u].sb \in Armed)'
    BY DEF Aimed
  <1>1. task'[u] = task[u]
    BY DEF Stays
  <1>2. CASE task[u].pc = "compare"
    BY <1>1, <1>2 DEF Taking, Starting, Amid
  <1>3. CASE task[u].pc = "umount"
    <2>1. Taking(u)
      BY <1>1, <1>3 DEF Taking, Starting, Amid, Closing, Level
    <2> QED
      BY <1>1, <1>3, <2>1 DEF Aimed, Awake, Filled, Closing
  <1> QED
    BY <1>1, <1>2, <1>3 DEF Taking, Starting, Amid, Closing

LEMMA KilledAimed ==
  ASSUME NEW t \in Tasks, NEW u \in Tasks, Levels(u), Names, Aimed(u),
         Awake(u), NEW s, SeeKilled(t, u, s)
  PROVE  u # t => Aimed(u)'
  <1> SUFFICES ASSUME u # t, Taking(u)'
               PROVE  (task[u].sb \in Armed)'
    BY DEF Aimed
  <1>1. task'[u] = task[u]
    BY DEF Stays, SeeKilled
  <1>2. CASE task[u].pc = "compare"
    BY <1>1, <1>2 DEF Taking, Starting, Amid
  <1>3. CASE task[u].pc = "umount"
    <2>1. Taking(u)
      BY <1>1, <1>3 DEF Taking, Starting, Amid, Closing, Level
    <2>2. task[u].sb # s
      BY <1>3 DEF SeeKilled, Closing, Levels, Between, Level, Names
    <2> QED
      BY <1>1, <1>3, <2>1, <2>2 DEF Aimed, Awake, SeeKilled, Closing
  <1> QED
    BY <1>1, <1>2, <1>3 DEF Taking, Starting, Amid, Closing

LEMMA FillLastLed ==
  ASSUME NEW t \in Tasks, NEW u \in Tasks, PartsInt, Mine(t), LedBeyond(t, u),
         Rising(t), LastLost(t, u), FoundBeyond(t), OneOf(t, u),
         LedIntact(t, u), NEW s, SeeFillLast(t, u, s)
  PROVE  LedIntact(t, u)' /\ LedQuiet(t, u)'
  <1>1. ASSUME NEW x \in Ids, Led(x, t, u)'
        PROVE  x = s
    <2> SUFFICES ASSUME x # s PROVE FALSE
      OBVIOUS
    <2>1. Led(x, t, u)
      BY <1>1 DEF Led, Untaken, Level, SeeFillLast, Filled, Stays
    <2> QED
      BY <2>1 DEF LedBeyond, Beyond, Opening, SeeFillLast, Filled, PartsInt
  <1>2. MountOf(s) = task[t].mount /\ Beyond(t)
    BY DEF Mine, Beyond, Opening, SeeFillLast, Filled, PartsInt
  <1>3. LedIntact(t, u)'
    <2> SUFFICES ASSUME NEW q \in Partitions, q < Last
                 PROVE  Id(task[t].mount, q) \in Living
      BY <1>1, <1>2 DEF LedIntact, SeeFillLast, Filled
    <2>1. CASE q = 0
      BY <2>1 DEF SeeFillLast, Filled
    <2>2. CASE q # 0
      <3>1. 0 < q
        BY <2>2 DEF PartsInt
      <3> QED
        BY <1>2, <3>1 DEF Rising, SeeFillLast
    <2> QED
      BY <2>1, <2>2
  <1>4. LedQuiet(t, u)'
    <2> SUFFICES \/ MountOf(s) \in Found' /\ ~Beyond(t)' /\ ~Beyond(u)'
                 \/ K > 0 /\ Sterile'
      BY <1>1 DEF LedQuiet
    <2>1. CASE Id(task[t].mount, Last) \in Living
      <3>1. MountOf(s) \in Found'
        BY <1>2, <2>1 DEF FoundBeyond, SeeFillLast, Filled
      <3>2. ~Beyond(t)'
        BY DEF Beyond, Opening, SeeFillLast
      <3>3. ~Beyond(u)'
        BY <1>2, <3>2 DEF OneOf, Beyond, Opening, SeeFillLast, Stays
      <3> QED
        BY <3>1, <3>2, <3>3
    <2>2. CASE Id(task[t].mount, Last) \notin Living
      BY <1>2, <2>2 DEF LastLost, SeeFillLast, Filled, PartsInt
    <2> QED
      BY <2>1, <2>2
  <1> QED
    BY <1>3, <1>4

LEMMA FillFailHard ==
  ASSUME NEW t \in Tasks, NEW u \in Tasks, PartsInt, Part(t), Part(u),
         Levels(t), Levels(u), Mine(t), FoundClosing(t), FoundClosing(u),
         FoundBeyond(t), OneOf(t, u), LastLost(t, u), MiddleAbove(t, u),
         Rising(t), NEW s, SeeFillFail(t, u, s)
  PROVE  FoundClosing(t)' /\ FoundClosing(u)' /\ StartChain(u, t)' /\ StartQuiet(u, t)'
  <1>1. MountOf(s) = task[t].mount /\ Beyond(t) /\ PartOf(s) = task[t].part
    BY DEF Mine, Beyond, Opening, SeeFillFail, Filled, Part, Between
  <1>2. FoundClosing(t)'
    BY <1>1 DEF FoundClosing, FoundBeyond, SeeFillFail, Filled, Level, Taken
  <1>3. FoundClosing(u)'
    <2>1. CASE u # t
      BY <2>1 DEF FoundClosing, SeeFillFail, Filled, Level, Taken, Stays,
                  Closing
    <2> QED
      BY <1>2, <2>1
  <1>4. StartChain(u, t)'
    <2> SUFFICES ASSUME NEW q \in Partitions, task[t].part < q, q <= K
                 PROVE  Id(task[t].mount, q) \in Living
      BY <1>1 DEF StartChain, Chain, SeeFillFail, Filled, Level, Taken
    <2> QED
      <3>1. q < Last
        BY DEF PartsInt
      <3> QED
        BY <1>1, <3>1 DEF Rising
  <1>5. StartQuiet(u, t)'
    <2> SUFFICES ASSUME u # t, task[t].part < Last
                 PROVE  (MountOf(task[t].sb) \in Found /\ ~Beyond(u))'
      BY <1>1 DEF StartQuiet, Starting, SeeFillFail, Filled, Level, Taken
    <2>1. ~Beyond(u)'
      BY <1>1 DEF OneOf, Beyond, Opening, SeeFillFail, Taken, Stays
    <2>2. Id(task[t].mount, Last) \in Living
      <3> SUFFICES ASSUME Id(task[t].mount, Last) \notin Living PROVE FALSE
        OBVIOUS
      <3>1. Amid(u)
        BY <1>1 DEF LastLost, Amid, PartsInt
      <3>2. Above(t, task[u].part)
        BY <3>1 DEF MiddleAbove, Cut, SeeFillFail, Filled
      <3>3. task[u].part = K
        BY <1>1 DEF LastLost
      <3> QED
        BY <3>2, <3>3 DEF Above, Opening, SeeFillFail, Filled, Part, Between,
                          PartsInt
    <2> QED
      BY <1>1, <2>1, <2>2 DEF FoundBeyond, SeeFillFail, Filled, Taken
  <1> QED
    BY <1>2, <1>3, <1>4, <1>5

LEMMA UnmountHard ==
  ASSUME NEW t \in Tasks, NEW u \in Tasks, PartsInt, Part(t), Part(u),
         Levels(t), Levels(u), LedIntact(t, u), LedQuiet(t, u),
         LedBeyond(u, t), LedClosing(u, t), ReturnedFirst, ArmedIds, NEW x,
         SeeUnmount(t, u, x)
  PROVE  StartQuiet(u, t)' /\ CrossAmid(u, t)'
  <1>1. ASSUME x \in Armed, Untaken(u)
        PROVE  Led(x, t, u) /\ Led(x, u, t) /\ x \in Ids
    BY <1>1 DEF Led, Untaken, SeeUnmount, ArmedIds
  <1>2. StartQuiet(u, t)'
    <2> SUFFICES ASSUME u # t, x \in Armed, ~Cut(u, t)'
                 PROVE  (\/ MountOf(x) \in Found /\ ~Beyond(u)
                         \/ K > 0 /\ Sterile /\ Above(u, K)
                         \/ Early(u) /\ LastStale)'
      BY DEF StartQuiet, Starting, SeeUnmount, Taken, Level
    <2>1. task'[u] = task[u]
      BY DEF SeeUnmount, Taken, Stays
    <2>2. Untaken(u)
      BY <2>1 DEF Untaken, Cut, SeeUnmount, Taken, Level, PartsInt
    <2>3. CASE MountOf(x) \in Found /\ ~Beyond(t) /\ ~Beyond(u)
      BY <2>1, <2>3 DEF SeeUnmount, Beyond, Opening
    <2>4. CASE K > 0 /\ Sterile
      <3>1. Above(u, K)
        BY <1>1, <2>2 DEF LedBeyond, Above, Beyond, Opening, Part, Between,
                          PartsInt
      <3> QED
        BY <2>1, <2>4, <3>1 DEF SeeUnmount, Above, Opening
    <2>5. CASE Waiting(t, u)
      BY <2>1, <2>5 DEF Waiting, Early, Beyond, Opening, SeeUnmount
    <2>6. ~Waiting(u, t)
      BY DEF Waiting, Early, SeeUnmount
    <2> QED
      BY <1>1, <2>2, <2>3, <2>4, <2>5, <2>6 DEF LedQuiet
  <1>3. CrossAmid(u, t)'
    <2> SUFFICES ASSUME u # t, x \in Armed, Closing(u)', Level(u)' > 0, Level(u)' < Last
                 PROVE  FALSE
      BY DEF CrossAmid, Taking, Amid, Starting, SeeUnmount, Taken, Level
    <2>1. Closing(u) /\ Level(u) > 0 /\ Level(u) < Last
      BY DEF SeeUnmount, Taken, Stays, Closing, Level
    <2>2. Untaken(u)
      BY <2>1 DEF Untaken, Levels, Between, PartsInt
    <2> QED
      BY <1>1, <2>1, <2>2 DEF LedClosing, Levels, Between
  <1> QED
    BY <1>2, <1>3

LEMMA UmountKillHard ==
  ASSUME NEW t \in Tasks, NEW u \in Tasks, PartsInt, Part(t), Part(u),
         Levels(t), Levels(u), Names, Awake(t), Awake(u), Awake(u)', Mine(u),
         ArmedOnce, ClosedOnce(t, u), FoundClosing(t), FoundClosing(u),
         LastLost(u, t), Rising(u), Lower(u, t), Aimed(t), Aimed(u),
         StartChain(t, u), StartChain(u, t), StartQuiet(t, u),
         StartQuiet(u, t), MiddleChain(t, u), MiddleChain(u, t),
         MiddleAbove(u, t), CrossAt(t, u), CrossAmid(u, t), NEW q, NEW s,
         SeeUmountKill(t, u, q, s)
  PROVE  /\ FoundClosing(t)' /\ FoundClosing(u)' /\ LastLost(u, t)' /\ Rising(u)'
         /\ StartChain(t, u)' /\ StartQuiet(t, u)' /\ MiddleChain(t, u)' /\ MiddleChain(u, t)'
         /\ CrossAt(t, u)'
  <1> USE DEF SeeUmountKill, SeeUmount
  <1>1. /\ Closing(t) /\ Between(Level(t)) /\ Between(q) /\ Level(t) # q /\ Level(t)' = Level(t)
        /\ Closing(t)'
    BY DEF Closing, Levels, Level, Part
  <1>2. u # t => /\ task'[u] = task[u] /\ Level(u)' = Level(u) /\ Closing(u)' = Closing(u)
                 /\ (Amid(u)' <=> Amid(u)) /\ Beyond(u)' = Beyond(u) /\ (Starting(u)' <=> Starting(u))
    BY DEF Stays, Level, Closing, Amid, Beyond, Opening, Starting
  <1>3. \/ q = Last /\ Starting(t)
        \/ q < Last /\ q > Level(t) /\ Amid(t)
        \/ q < Last /\ q < Level(t)
    BY <1>1 DEF Starting, Amid, Between, PartsInt
  <1>4. u # t /\ Closing(u) => task[u].sb # s
    BY <1>2 DEF Awake, Closing
  <1>5. ASSUME u # t, Taking(u), Level(t) > Level(u), task[t].pc = "umount"
        PROVE  q > Level(u)
    <2>1. q >= Level(u)
      BY <1>5 DEF CrossAt
    <2>2. q # Level(u)
      BY <1>4, <1>5 DEF Aimed, Taking, Starting, Amid, Closing, Level
    <2>3. Between(Level(u))
      BY <1>5 DEF Levels, Taking, Starting, Amid, Closing
    <2> QED
      BY <1>1, <2>1, <2>2, <2>3 DEF Between
  <1>6. ASSUME u # t, Taking(u), ~Cut(t, u)'
        PROVE  ~Cut(t, u)
    BY <1>1, <1>2, <1>5, <1>6 DEF Cut, Taking, Starting, Amid, Closing, Levels,
                                  Between
  <1>7. ASSUME u # t, Taking(u), Level(u) < Last, Starting(u) \/ task[u].pc = "umount", ~Cut(t, u)
        PROVE  q < Level(u)
    <2>1. Between(Level(u)) /\ Closing(u)
      BY <1>7 DEF Levels, Taking, Starting, Amid, Closing
    <2>2. Level(t) <= Level(u)
      BY <1>1, <1>7, <2>1 DEF Cut, Between
    <2>3. CASE ~Taking(t)
      BY <1>1, <1>3, <2>1, <2>2, <2>3 DEF Taking, Between
    <2>4. CASE Taking(t)
      <3>1. Level(t) # Level(u)
        BY <1>1, <1>7, <2>1, <2>4 DEF Aimed, ArmedOnce, ClosedOnce, Level
      <3> QED
        BY <1>1, <1>7, <2>1, <2>2, <2>4, <3>1 DEF CrossAmid, Between
    <2> QED
      BY <2>3, <2>4
  <1>8. ASSUME u # t, Taking(u), ~Cut(t, u)', NEW r \in Partitions, Level(u) < r,
               Id(MountOf(task[u].sb), r) \in Living
        PROVE  Id(MountOf(task[u].sb), r) \in Living'
    <2>1. Between(Level(u)) /\ Closing(u) /\ Level(u) < Last
      BY <1>8 DEF Levels, Taking, Starting, Amid, Closing, Part, Between,
                  PartsInt
    <2>2. q < Level(u)
      BY <1>6, <1>7, <1>8, <2>1 DEF Taking, Amid
    <2>3. PartOf(Id(MountOf(task[u].sb), r)) # q
      BY <1>1, <1>8, <2>1, <2>2 DEF Names, Levels, Between, PartsInt
    <2> QED
      BY <1>8, <2>3
  <1>9. FoundClosing(t)'
    <2> SUFFICES ASSUME Level(t) = Last PROVE MountOf(task[t].sb) \in Found'
      BY <1>1 DEF FoundClosing
    <2>1. PartOf(Id(MountOf(task[t].sb), Last)) = Last
      BY <1>1 DEF Names, Levels, PartsInt
    <2> QED
      BY <1>1, <2>1 DEF FoundClosing
  <1>10. FoundClosing(u)'
    <2> SUFFICES ASSUME u # t, Closing(u), Level(u) = Last PROVE MountOf(task[u].sb) \in Found'
      BY <1>2, <1>9 DEF FoundClosing
    <2>1. task[u].sb \in Ids /\ PartOf(task[u].sb) = Last
      BY DEF Levels, Level
    <2>2. task[u].sb = Id(MountOf(task[u].sb), Last)
      BY <2>1 DEF Names
    <2> QED
      BY <1>4, <2>2 DEF FoundClosing
  <1>11. LastLost(u, t)'
    <2> SUFFICES ASSUME u # t, Beyond(u), Id(task[u].mount, Last) \notin Living'
                 PROVE  /\ q = Last /\ K > 0 /\ Level(t) = 0 /\ Sterile
                        /\ Id(MountOf(task[t].sb), K) \in Living'
      BY <1>1, <1>2 DEF LastLost, PartsInt, Between, Closing, Beyond, Opening,
                        Level
    <2>1. Id(task[u].mount, Last) = s
      BY DEF LastLost
    <2>2. q = Last
      BY <2>1 DEF Mine, Beyond, PartsInt
    <2>3. Starting(t) /\ ~Cut(u, t)
      BY <1>1, <1>3, <2>2 DEF Cut, Beyond, Opening, Between
    <2>4. Level(t) = 0 /\ K > 0 /\ Sterile
      BY <2>3 DEF StartQuiet, Early, Beyond, PartsInt
    <2>5. Id(MountOf(task[t].sb), K) \in Living
      BY <2>3, <2>4 DEF StartChain, Chain, PartsInt
    <2>6. PartOf(Id(MountOf(task[t].sb), K)) = K
      BY <1>1 DEF Names, Levels, PartsInt
    <2> QED
      BY <2>2, <2>4, <2>5, <2>6 DEF PartsInt
  <1>12. Rising(u)'
    <2> SUFFICES ASSUME u # t, Beyond(u), NEW r \in Partitions, task[u].part < r, r < Last,
                        Id(task[u].mount, r) = s
                 PROVE  FALSE
      BY <1>1, <1>2 DEF Rising, Closing, Beyond, Opening
    <2>1. q = r
      BY DEF Mine, Beyond
    <2>2. CASE q < Level(t)
      BY <1>1, <2>1, <2>2 DEF Lower, Above, Beyond, Part, Between
    <2>3. CASE Amid(t)
      <3>1. ~Cut(u, t)
        BY DEF Cut, Beyond, Opening
      <3> QED
        BY <1>1, <2>1, <2>3, <3>1 DEF MiddleAbove, Above, Beyond, Part, Between
    <2> QED
      BY <1>1, <1>3, <2>1, <2>2, <2>3 DEF Between, PartsInt
  <1>13. StartChain(t, u)'
    <2> SUFFICES ASSUME u # t, Starting(u), ~Cut(t, u)', NEW r \in Partitions, Level(u) < r, r <= K
                 PROVE  Id(MountOf(task[u].sb), r) \in Living'
      BY <1>2 DEF StartChain, Chain
    <2>1. ~Cut(t, u)
      BY <1>6 DEF Taking
    <2>2. Id(MountOf(task[u].sb), r) \in Living
      BY <2>1 DEF StartChain, Chain
    <2> QED
      BY <1>8, <2>2 DEF Taking
  <1>14. StartQuiet(t, u)'
    <2> SUFFICES ASSUME u # t, Starting(u), ~Cut(t, u)'
                 PROVE  \/ MountOf(task[u].sb) \in Found'
                        \/ Level(u) = 0 /\ K > 0 /\ Sterile
      BY <1>1, <1>2 DEF StartQuiet, Above, Beyond, Opening, Closing
    <2>1. ~Cut(t, u)
      BY <1>6 DEF Taking
    <2>2. q < Level(u) /\ Between(Level(u))
      BY <1>7, <2>1 DEF Taking, Starting, Levels
    <2>3. PartOf(Id(MountOf(task[u].sb), Last)) = Last
      BY DEF Names, Levels, PartsInt, Starting
    <2>4. Id(MountOf(task[u].sb), Last) # s
      BY <1>1, <2>2, <2>3 DEF Between, PartsInt
    <2>5. ~Early(t)
      BY DEF Early
    <2> QED
      BY <2>1, <2>4, <2>5 DEF StartQuiet
  <1>15. MiddleChain(t, u)'
    <2> SUFFICES ASSUME u # t, Amid(u), ~Cut(t, u)', NEW r \in Partitions, Level(u) < r, r <= task[u].part
                 PROVE  Id(MountOf(task[u].sb), r) \in Living'
      BY <1>2 DEF MiddleChain, Chain
    <2>1. ~Cut(t, u)
      BY <1>6 DEF Taking
    <2>2. Id(MountOf(task[u].sb), r) \in Living
      BY <2>1 DEF MiddleChain, Chain
    <2> QED
      BY <1>8, <2>2 DEF Taking
  <1>16. MiddleChain(u, t)'
    <2> SUFFICES ASSUME u # t, Amid(t)', ~Cut(u, t), NEW r \in Partitions, Level(t) < r, r <= q - 1
                 PROVE  Id(MountOf(task[t].sb), r) \in Living'
      BY <1>1, <1>2 DEF MiddleChain, Chain, Cut, Amid
    <2>1. q - 1 > Level(t) /\ q - 1 < Last
      BY <1>1 DEF Amid
    <2>2. Id(MountOf(task[t].sb), r) \in Living
      <3>1. CASE Starting(t)
        BY <1>1, <3>1 DEF StartChain, Chain, Between, PartsInt
      <3>2. CASE Amid(t)
        BY <1>1, <3>2 DEF MiddleChain, Chain, Between, PartsInt
      <3> QED
        BY <1>1, <1>3, <2>1, <3>1, <3>2 DEF Between, PartsInt
    <2>3. PartOf(Id(MountOf(task[t].sb), r)) = r
      BY <1>1 DEF Names, Levels
    <2> QED
      BY <1>1, <2>2, <2>3 DEF Between, PartsInt
  <1>17. CrossAt(t, u)'
    <2> SUFFICES ASSUME u # t, Taking(u), Level(t) > Level(u), (task[t].pc = "umount")'
                 PROVE  q - 1 >= Level(u)
      BY <1>1, <1>2 DEF CrossAt, Taking
    <2> QED
      BY <1>1, <1>5 DEF Levels, Taking, Starting, Amid, Closing, Between
  <1> QED
    BY <1>9, <1>10, <1>11, <1>12, <1>13, <1>14, <1>15, <1>16, <1>17

LEMMA OrderMountCall ==
  ASSUME NEW t \in Tasks, NEW u \in Tasks, Frame(t, u), Frame(t, u)',
         Order(t, u), Order(u, t), SeeMountCall(t, u)
  PROVE  Order(t, u)' /\ Order(u, t)'
  <1> USE DEF Frame, Order
  <1>1. FoundBeyond(t)' /\ FoundBeyond(u)' /\ FoundClosing(t)' /\
        FoundClosing(u)' /\ Rising(t)' /\ Rising(u)' /\ NoFirst(t)' /\
        NoFirst(u)'
    BY DEF Between, Beyond, Closing, FoundBeyond, FoundClosing, Level, Levels,
           NoFirst, Opening, Part, PartsInt, Rising, Same, SeeMountCall, Stays
  <1>2. LastLost(t, u)' /\ LastLost(u, t)' /\ Lower(t, u)' /\ Lower(u, t)' /\
        Aimed(t)' /\ Aimed(u)'
    BY DEF Above, Aimed, Amid, Between, Beyond, Closing, LastLost, Level,
           Levels, Lower, Opening, Part, PartsInt, Same, SeeMountCall,
           Starting, Stays, Taking
  <1>3. StartChain(t, u)' /\ StartChain(u, t)' /\ StartQuiet(t, u)' /\
        StartQuiet(u, t)'
    BY DEF Above, Between, Beyond, Chain, Closing, Cut, Early, Level, Levels,
           Opening, Part, PartsInt, Same, SeeMountCall, StartChain, StartQuiet,
           Starting, Stays
  <1>4. MiddleChain(t, u)' /\ MiddleChain(u, t)' /\ MiddleAbove(t, u)' /\
        MiddleAbove(u, t)'
    BY DEF Above, Amid, Between, Chain, Closing, Cut, Level, Levels,
           MiddleAbove, MiddleChain, Opening, Part, PartsInt, Same,
           SeeMountCall, Stays
  <1>5. CrossAt(t, u)' /\ CrossAt(u, t)' /\ CrossAmid(t, u)' /\
        CrossAmid(u, t)'
    BY DEF Amid, Between, Closing, CrossAmid, CrossAt, Level, Levels, Part,
           PartsInt, Same, SeeMountCall, Starting, Stays, Taking
  <1>6. LedIntact(t, u)' /\ LedIntact(u, t)' /\ LedBeyond(t, u)' /\
        LedBeyond(u, t)' /\ LedClosing(t, u)' /\ LedClosing(u, t)'
    BY DEF Between, Beyond, Closing, Led, LedBeyond, LedClosing, LedIntact,
           Level, Levels, Opening, Part, PartsInt, Same, SeeMountCall, Stays,
           Untaken
  <1>7. LedQuiet(t, u)'
    BY DEF Between, Beyond, Closing, Early, Led, LedQuiet, Level, Levels,
           Opening, Part, PartsInt, Same, SeeMountCall, Stays, Untaken, Waiting
  <1>8. LedQuiet(u, t)'
    BY <1>7 DEF LedQuiet, Led
  <1>9. QED BY <1>1, <1>2, <1>3, <1>4, <1>5, <1>6, <1>7, <1>8, Zenon

LEMMA OrderAlloc ==
  ASSUME NEW t \in Tasks, NEW u \in Tasks, Frame(t, u), Frame(t, u)',
         Order(t, u), Order(u, t), SeeAlloc(t, u)
  PROVE  Order(t, u)' /\ Order(u, t)'
  <1> USE DEF Frame, Order
  <1>1. FoundBeyond(t)' /\ FoundBeyond(u)' /\ FoundClosing(t)' /\
        FoundClosing(u)' /\ Rising(t)' /\ Rising(u)' /\ NoFirst(t)' /\
        NoFirst(u)'
    BY DEF Between, Beyond, Closing, Early, FoundBeyond, FoundClosing, Level,
           Levels, Listed, Moved, NoFirst, Opening, Part, PartsInt, Rising,
           SeeAlloc, Stays
  <1>2. LastLost(t, u)' /\ LastLost(u, t)' /\ Lower(t, u)' /\ Lower(u, t)' /\
        Aimed(t)' /\ Aimed(u)'
    BY DEF Above, Aimed, Amid, Between, Beyond, Closing, Cut, Early, LastLost,
           Level, Levels, Listed, Lower, MiddleAbove, Moved, Opening, Part,
           PartsInt, SeeAlloc, StartQuiet, Starting, Stays, Taking
  <1>3. StartChain(t, u)' /\ StartChain(u, t)' /\ StartQuiet(t, u)' /\
        StartQuiet(u, t)'
    BY DEF Above, Between, Beyond, Chain, Closing, Cut, Early, Level, Levels,
           Listed, Moved, Opening, Part, PartsInt, SeeAlloc, StartChain,
           StartQuiet, Starting, Stays
  <1>4. MiddleChain(t, u)' /\ MiddleChain(u, t)' /\ MiddleAbove(t, u)' /\
        MiddleAbove(u, t)'
    BY DEF Above, Amid, Between, Chain, Closing, Cut, Early, Level, Levels,
           Listed, MiddleAbove, MiddleChain, Moved, Opening, Part, PartsInt,
           SeeAlloc, Stays
  <1>5. CrossAt(t, u)' /\ CrossAt(u, t)' /\ CrossAmid(t, u)' /\
        CrossAmid(u, t)'
    BY DEF Amid, Between, Closing, CrossAmid, CrossAt, Early, Level, Levels,
           Listed, Moved, Part, PartsInt, SeeAlloc, Starting, Stays, Taking
  <1>6. LedIntact(t, u)' /\ LedIntact(u, t)' /\ LedBeyond(t, u)' /\
        LedBeyond(u, t)' /\ LedClosing(t, u)' /\ LedClosing(u, t)'
    BY DEF Between, Beyond, Closing, Early, Led, LedBeyond, LedClosing,
           LedIntact, Level, Levels, Listed, Moved, Opening, Part, PartsInt,
           SeeAlloc, Stays, Untaken
  <1>7. LedQuiet(t, u)'
    BY DEF Between, Beyond, Closing, Early, Led, LedQuiet, Level, Levels,
           Listed, Moved, Opening, Part, PartsInt, SeeAlloc, Stays, Untaken,
           Waiting
  <1>8. LedQuiet(u, t)'
    BY <1>7 DEF LedQuiet, Led
  <1>9. QED BY <1>1, <1>2, <1>3, <1>4, <1>5, <1>6, <1>7, <1>8, Zenon

LEMMA OrderAllocFails ==
  ASSUME NEW t \in Tasks, NEW u \in Tasks, Frame(t, u), Frame(t, u)',
         Order(t, u), Order(u, t), SeeAllocFails(t, u)
  PROVE  Order(t, u)' /\ Order(u, t)'
  <1> USE DEF Frame, Order
  <1>1. FoundBeyond(t)' /\ FoundBeyond(u)' /\ FoundClosing(t)' /\
        FoundClosing(u)' /\ Rising(t)' /\ Rising(u)' /\ NoFirst(t)' /\
        NoFirst(u)'
    BY DEF Between, Beyond, Closing, Early, FoundBeyond, FoundClosing, Level,
           Levels, Listed, NoFirst, Opening, Part, PartsInt, Rising,
           SeeAllocFails, Stays
  <1>2. LastLost(t, u)' /\ LastLost(u, t)' /\ Lower(t, u)' /\ Lower(u, t)' /\
        Aimed(t)' /\ Aimed(u)'
    BY DEF Above, Aimed, Amid, Between, Beyond, Closing, Cut, Early, LastLost,
           Level, Levels, Listed, Lower, MiddleAbove, Opening, Part, PartsInt,
           SeeAllocFails, StartQuiet, Starting, Stays, Taking
  <1>3. StartChain(t, u)' /\ StartChain(u, t)' /\ StartQuiet(t, u)' /\
        StartQuiet(u, t)'
    BY DEF Above, Between, Beyond, Chain, Closing, Cut, Early, Level, Levels,
           Listed, Opening, Part, PartsInt, SeeAllocFails, StartChain,
           StartQuiet, Starting, Stays
  <1>4. MiddleChain(t, u)' /\ MiddleChain(u, t)' /\ MiddleAbove(t, u)' /\
        MiddleAbove(u, t)'
    BY DEF Above, Amid, Between, Chain, Closing, Cut, Early, Level, Levels,
           Listed, MiddleAbove, MiddleChain, Opening, Part, PartsInt,
           SeeAllocFails, Stays
  <1>5. CrossAt(t, u)' /\ CrossAt(u, t)' /\ CrossAmid(t, u)' /\
        CrossAmid(u, t)'
    BY DEF Amid, Between, Closing, CrossAmid, CrossAt, Early, Level, Levels,
           Listed, Part, PartsInt, SeeAllocFails, Starting, Stays, Taking
  <1>6. LedIntact(t, u)' /\ LedIntact(u, t)' /\ LedBeyond(t, u)' /\
        LedBeyond(u, t)' /\ LedClosing(t, u)' /\ LedClosing(u, t)'
    BY DEF Between, Beyond, Closing, Early, Led, LedBeyond, LedClosing,
           LedIntact, Level, Levels, Listed, Opening, Part, PartsInt,
           SeeAllocFails, Stays, Untaken
  <1>7. LedQuiet(t, u)'
    BY AllocFailsLedQuiet
  <1>8. LedQuiet(u, t)'
    BY <1>7 DEF LedQuiet, Led
  <1>9. QED BY <1>1, <1>2, <1>3, <1>4, <1>5, <1>6, <1>7, <1>8, Zenon

LEMMA OrderOpen ==
  ASSUME NEW t \in Tasks, NEW u \in Tasks, Frame(t, u), Frame(t, u)',
         Order(t, u), Order(u, t), SeeOpen(t, u)
  PROVE  Order(t, u)' /\ Order(u, t)'
  <1> USE DEF Frame, Order
  <1>1. FoundBeyond(t)' /\ FoundBeyond(u)' /\ FoundClosing(t)' /\
        FoundClosing(u)' /\ Rising(t)' /\ Rising(u)' /\ NoFirst(t)' /\
        NoFirst(u)'
    BY DEF Between, Beyond, Closing, FoundBeyond, FoundClosing, Level, Levels,
           Moved, NoFirst, Opening, Part, PartsInt, Rising, Same, SeeOpen,
           Stays
  <1>2. LastLost(t, u)' /\ LastLost(u, t)' /\ Lower(t, u)' /\ Lower(u, t)' /\
        Aimed(t)' /\ Aimed(u)'
    BY DEF Above, Aimed, Amid, Between, Beyond, Closing, LastLost, Level,
           Levels, Lower, Moved, Opening, Part, PartsInt, Same, SeeOpen,
           Starting, Stays, Taking
  <1>3. StartChain(t, u)' /\ StartChain(u, t)' /\ StartQuiet(t, u)' /\
        StartQuiet(u, t)'
    BY DEF Above, Between, Beyond, Chain, Closing, Cut, Early, Level, Levels,
           Moved, Opening, Part, PartsInt, Same, SeeOpen, StartChain,
           StartQuiet, Starting, Stays
  <1>4. MiddleChain(t, u)' /\ MiddleChain(u, t)' /\ MiddleAbove(t, u)' /\
        MiddleAbove(u, t)'
    BY DEF Above, Amid, Between, Chain, Closing, Cut, Level, Levels,
           MiddleAbove, MiddleChain, Moved, Opening, Part, PartsInt, Same,
           SeeOpen, Stays
  <1>5. CrossAt(t, u)' /\ CrossAt(u, t)' /\ CrossAmid(t, u)' /\
        CrossAmid(u, t)'
    BY DEF Amid, Between, Closing, CrossAmid, CrossAt, Level, Levels, Moved,
           Part, PartsInt, Same, SeeOpen, Starting, Stays, Taking
  <1>6. LedIntact(t, u)' /\ LedIntact(u, t)' /\ LedBeyond(t, u)' /\
        LedBeyond(u, t)' /\ LedClosing(t, u)' /\ LedClosing(u, t)'
    BY DEF Between, Beyond, Closing, Led, LedBeyond, LedClosing, LedIntact,
           Level, Levels, Moved, Opening, Part, PartsInt, Same, SeeOpen, Stays,
           Untaken
  <1>7. LedQuiet(t, u)'
    BY DEF Between, Beyond, Closing, Early, Led, LedQuiet, Level, Levels,
           Moved, Opening, Part, PartsInt, Same, SeeOpen, Stays, Untaken,
           Waiting
  <1>8. LedQuiet(u, t)'
    BY <1>7 DEF LedQuiet, Led
  <1>9. QED BY <1>1, <1>2, <1>3, <1>4, <1>5, <1>6, <1>7, <1>8, Zenon

LEMMA OrderSgetNew ==
  ASSUME NEW t \in Tasks, NEW u \in Tasks, Frame(t, u), Frame(t, u)',
         Order(t, u), Order(u, t), SeeSgetNew(t, u)
  PROVE  Order(t, u)' /\ Order(u, t)'
  <1> USE DEF Frame, Order
  <1>1. LastLost(t, u)' /\ LastLost(u, t)' /\ Lower(t, u)' /\ Lower(u, t)' /\
        Aimed(t)' /\ Aimed(u)'
    BY DEF Above, Aimed, Amid, Awake, Between, Beyond, Closing, Early,
           FoundClosing, LastLost, Level, Levels, Lower, Moved, Opening, Part,
           PartsInt, SeeSgetNew, Starting, Stays, Taking
  <1>2. StartChain(t, u)' /\ StartChain(u, t)' /\ StartQuiet(u, t)'
    BY DEF Above, Between, Beyond, Chain, Closing, Cut, Early, Level, Levels,
           Lower, Moved, Opening, Part, PartsInt, SeeSgetNew, StartChain,
           StartQuiet, Starting, Stays
  <1>3. MiddleChain(t, u)' /\ MiddleChain(u, t)' /\ MiddleAbove(u, t)'
    BY DEF Above, Amid, Between, Chain, Closing, Cut, Early, Level, Levels,
           MiddleAbove, MiddleChain, Moved, Opening, Part, PartsInt,
           SeeSgetNew, Stays
  <1>4. CrossAt(t, u)' /\ CrossAt(u, t)' /\ CrossAmid(t, u)' /\
        CrossAmid(u, t)'
    BY DEF Amid, Between, Closing, CrossAmid, CrossAt, Early, Level, Levels,
           Moved, Opening, Part, PartsInt, SeeSgetNew, Starting, Stays, Taking
  <1>5. LedIntact(t, u)' /\ LedIntact(u, t)' /\ LedClosing(t, u)' /\
        LedClosing(u, t)'
    BY DEF Between, Closing, Early, Led, LedClosing, LedIntact, Level, Levels,
           Moved, Opening, Part, PartsInt, SeeSgetNew, Stays, Untaken
  <1>6. LedQuiet(t, u)'
    BY DEF Between, Beyond, Closing, Early, FoundBeyond, FoundClosing, Led,
           LedBeyond, LedIntact, LedQuiet, Level, Levels, Moved, OneOf,
           Opening, Part, PartsInt, SeeSgetNew, Stays, Untaken, Waiting
  <1>7. FoundClosing(t)' /\ FoundClosing(u)'
    BY DEF Between, Closing, Early, FoundClosing, Level, Levels, Moved,
           Opening, Part, PartsInt, SeeSgetNew, Stays
  <1>8. Rising(t)'
    BY DEF Between, Beyond, Closing, Early, LastLost, Level, Levels, Moved,
           Opening, Part, PartsInt, Rising, SeeSgetNew, Stays
  <1>9. Rising(u)' /\ NoFirst(t)' /\ NoFirst(u)'
    BY DEF Between, Beyond, Closing, Early, LastLost, Level, Levels, Moved,
           NoFirst, Opening, Part, PartsInt, ReturnedFirst, Rising, SeeSgetNew,
           Stays
  <1>10. FoundBeyond(t)' /\ FoundBeyond(u)'
    BY SgetNewFoundBeyond
  <1>11. StartQuiet(t, u)'
    BY SgetNewStartQuiet
  <1>12. MiddleAbove(t, u)'
    BY SgetNewMiddleAbove
  <1>13. LedBeyond(t, u)' /\ LedBeyond(u, t)'
    BY SgetNewLedBeyond
  <1>14. LedQuiet(u, t)'
    BY <1>6 DEF LedQuiet, Led
  <1>15. QED BY <1>1, <1>2, <1>3, <1>4, <1>5, <1>6, <1>7, <1>8, <1>9, <1>10, <1>11, <1>12,
                <1>13, <1>14, Zenon

LEMMA OrderSgetOld ==
  ASSUME NEW t \in Tasks, NEW u \in Tasks, Frame(t, u), Frame(t, u)',
         Order(t, u), Order(u, t), SeeSgetOld(t, u)
  PROVE  Order(t, u)' /\ Order(u, t)'
  <1> USE DEF Frame, Order
  <1>1. FoundBeyond(t)' /\ FoundBeyond(u)' /\ FoundClosing(t)' /\
        FoundClosing(u)' /\ Rising(t)' /\ Rising(u)' /\ NoFirst(t)' /\
        NoFirst(u)'
    BY DEF Between, Beyond, Closing, FoundBeyond, FoundClosing, Level, Levels,
           NoFirst, Opening, Part, PartsInt, Rising, SeeSgetOld, Stays
  <1>2. LastLost(t, u)' /\ LastLost(u, t)' /\ Lower(t, u)' /\ Lower(u, t)' /\
        Aimed(t)' /\ Aimed(u)'
    BY DEF Above, Aimed, Amid, Between, Beyond, Closing, Cut, Early, LastLost,
           Level, Levels, Lower, MiddleAbove, Opening, Part, PartsInt,
           SeeSgetOld, StartQuiet, Starting, Stays, Taking
  <1>3. StartChain(t, u)' /\ StartChain(u, t)' /\ StartQuiet(t, u)' /\
        StartQuiet(u, t)'
    BY DEF Above, Between, Beyond, Chain, Closing, Cut, Early, Level, Levels,
           Opening, Part, PartsInt, SeeSgetOld, StartChain, StartQuiet,
           Starting, Stays
  <1>4. MiddleChain(t, u)' /\ MiddleChain(u, t)' /\ MiddleAbove(t, u)' /\
        MiddleAbove(u, t)'
    BY DEF Above, Amid, Between, Chain, Closing, Cut, Level, Levels,
           MiddleAbove, MiddleChain, Opening, Part, PartsInt, SeeSgetOld, Stays
  <1>5. CrossAt(t, u)' /\ CrossAt(u, t)' /\ CrossAmid(t, u)' /\
        CrossAmid(u, t)'
    BY DEF Amid, Between, Closing, CrossAmid, CrossAt, Level, Levels, Part,
           PartsInt, SeeSgetOld, Starting, Stays, Taking
  <1>6. LedIntact(t, u)' /\ LedIntact(u, t)' /\ LedBeyond(t, u)' /\
        LedBeyond(u, t)' /\ LedClosing(t, u)' /\ LedClosing(u, t)'
    BY DEF Between, Beyond, Closing, Led, LedBeyond, LedClosing, LedIntact,
           Level, Levels, Opening, Part, PartsInt, SeeSgetOld, Stays, Untaken
  <1>7. LedQuiet(t, u)'
    BY DEF Between, Beyond, Closing, Early, Led, LedQuiet, Level, Levels,
           Opening, Part, PartsInt, ReturnedFirst, SeeSgetOld, Stays, Untaken,
           Waiting
  <1>8. LedQuiet(u, t)'
    BY <1>7 DEF LedQuiet, Led
  <1>9. QED BY <1>1, <1>2, <1>3, <1>4, <1>5, <1>6, <1>7, <1>8, Zenon

LEMMA OrderFillNext ==
  ASSUME NEW t \in Tasks, NEW u \in Tasks, Frame(t, u), Frame(t, u)',
         Order(t, u), Order(u, t), NEW s, SeeFillNext(t, u, s)
  PROVE  Order(t, u)' /\ Order(u, t)'
  <1> USE DEF Frame, Order
  <1>1. LastLost(t, u)' /\ LastLost(u, t)' /\ Lower(t, u)' /\ Lower(u, t)' /\
        Aimed(t)'
    BY DEF Above, Aimed, Amid, Awake, Between, Beyond, Closing, Cut, Filled,
           LastLost, Level, Levels, Lower, MiddleAbove, Moved, Opening, Part,
           PartsInt, SeeFillNext, Starting, Stays, Taking
  <1>2. StartChain(t, u)' /\ StartChain(u, t)' /\ StartQuiet(t, u)' /\
        StartQuiet(u, t)'
    BY DEF Above, Awake, Between, Beyond, Chain, Closing, Cut, Early, Filled,
           Level, Levels, Moved, Opening, Part, PartsInt, SeeFillNext,
           StartChain, StartQuiet, Starting, Stays
  <1>3. MiddleChain(t, u)' /\ MiddleChain(u, t)' /\ MiddleAbove(t, u)' /\
        MiddleAbove(u, t)'
    BY DEF Above, Amid, Between, Chain, Closing, Cut, Filled, Level, Levels,
           MiddleAbove, MiddleChain, Moved, Opening, Part, PartsInt,
           SeeFillNext, Stays
  <1>4. CrossAt(t, u)' /\ CrossAt(u, t)' /\ CrossAmid(t, u)' /\
        CrossAmid(u, t)'
    BY DEF Amid, Between, Closing, CrossAmid, CrossAt, Filled, Level, Levels,
           Moved, Part, PartsInt, SeeFillNext, Starting, Stays, Taking
  <1>5. LedIntact(t, u)' /\ LedIntact(u, t)' /\ LedBeyond(t, u)' /\
        LedBeyond(u, t)' /\ LedClosing(t, u)' /\ LedClosing(u, t)'
    BY DEF Between, Beyond, Closing, Filled, Led, LedBeyond, LedClosing,
           LedIntact, Level, Levels, Moved, Opening, Part, PartsInt,
           SeeFillNext, Stays, Untaken
  <1>6. LedQuiet(t, u)'
    BY DEF Between, Beyond, Closing, Early, Filled, Led, LedBeyond, LedQuiet,
           Level, Levels, Moved, Opening, Part, PartsInt, SeeFillNext, Stays,
           Untaken, Waiting
  <1>7. FoundBeyond(t)' /\ FoundBeyond(u)' /\ FoundClosing(t)' /\
        FoundClosing(u)'
    BY DEF Between, Beyond, Closing, Filled, FoundBeyond, FoundClosing, Level,
           Levels, Moved, Opening, Part, PartsInt, SeeFillNext, Stays
  <1>8. Rising(t)'
    BY DEF Between, Beyond, Closing, Filled, Level, Levels, Moved, Opening,
           Part, PartsInt, Rising, SeeFillNext, Stays
  <1>9. NoFirst(t)'
    BY DEF Between, Closing, Filled, Level, Levels, Moved, NoFirst, Part,
           PartsInt, SeeFillNext, Stays
  <1>10. Rising(u)'
    BY DEF Between, Beyond, Closing, Filled, Level, Levels, Moved, Opening,
           Part, PartsInt, Rising, SeeFillNext, Stays
  <1>11. NoFirst(u)'
    BY DEF Between, Closing, Filled, Level, Levels, Moved, NoFirst, Part,
           PartsInt, SeeFillNext, Stays
  <1>12. u # t => Aimed(u)'
    BY FillNextAimed DEF SeeFillNext, Filled, Moved, Taken
  <1>13. LedQuiet(u, t)'
    BY <1>6 DEF LedQuiet, Led
  <1>14. QED BY <1>1, <1>2, <1>3, <1>4, <1>5, <1>6, <1>7, <1>8, <1>9, <1>10, <1>11, <1>12,
                <1>13, Zenon

LEMMA OrderFillLast ==
  ASSUME NEW t \in Tasks, NEW u \in Tasks, Frame(t, u), Frame(t, u)',
         Order(t, u), Order(u, t), NEW s, SeeFillLast(t, u, s)
  PROVE  Order(t, u)' /\ Order(u, t)'
  <1> USE DEF Frame, Order
  <1>1. FoundBeyond(t)' /\ FoundBeyond(u)' /\ FoundClosing(t)' /\
        FoundClosing(u)' /\ Rising(t)' /\ Rising(u)' /\ NoFirst(t)' /\
        NoFirst(u)'
    BY DEF Between, Beyond, Closing, Filled, FoundBeyond, FoundClosing, Level,
           Levels, NoFirst, OneOf, Opening, Part, PartsInt, Rising,
           SeeFillLast, Stays
  <1>2. LastLost(t, u)' /\ LastLost(u, t)' /\ Lower(t, u)' /\ Lower(u, t)' /\
        Aimed(t)'
    BY DEF Above, Aimed, Amid, Between, Beyond, Closing, Filled, LastLost,
           Level, Levels, Lower, Opening, Part, PartsInt, SeeFillLast,
           Starting, Stays, Taking
  <1>3. StartChain(t, u)' /\ StartChain(u, t)' /\ StartQuiet(t, u)' /\
        StartQuiet(u, t)'
    BY DEF Above, Between, Beyond, Chain, Closing, Cut, Early, Filled, Level,
           Levels, Opening, Part, PartsInt, SeeFillLast, StartChain,
           StartQuiet, Starting, Stays
  <1>4. MiddleChain(t, u)' /\ MiddleChain(u, t)' /\ MiddleAbove(t, u)' /\
        MiddleAbove(u, t)'
    BY DEF Above, Amid, Between, Chain, Closing, Cut, Filled, Level, Levels,
           MiddleAbove, MiddleChain, Opening, Part, PartsInt, SeeFillLast,
           Stays
  <1>5. CrossAt(t, u)' /\ CrossAt(u, t)' /\ CrossAmid(t, u)' /\
        CrossAmid(u, t)'
    BY DEF Amid, Between, Closing, CrossAmid, CrossAt, Filled, Level, Levels,
           Part, PartsInt, SeeFillLast, Starting, Stays, Taking
  <1>6. LedBeyond(t, u)' /\ LedBeyond(u, t)' /\ LedClosing(t, u)' /\
        LedClosing(u, t)'
    BY DEF Above, Between, Beyond, Closing, Filled, Led, LedBeyond, LedClosing,
           Level, Levels, Lower, OneOf, Opening, Part, PartsInt, SeeFillLast,
           Stays, Untaken
  <1>7. u # t => Aimed(u)'
    BY FillNextAimed DEF SeeFillLast, Filled, Moved, Taken
  <1>8. LedIntact(t, u)' /\ LedQuiet(t, u)'
    BY FillLastLed
  <1>9. LedIntact(u, t)'
    BY <1>8 DEF LedIntact, Led
  <1>10. LedQuiet(u, t)'
    BY <1>8 DEF LedQuiet, Led
  <1>11. QED BY <1>1, <1>2, <1>3, <1>4, <1>5, <1>6, <1>7, <1>8, <1>9, <1>10, Zenon

LEMMA OrderFillFail ==
  ASSUME NEW t \in Tasks, NEW u \in Tasks, Frame(t, u), Frame(t, u)',
         Order(t, u), Order(u, t), NEW s, SeeFillFail(t, u, s)
  PROVE  Order(t, u)' /\ Order(u, t)'
  <1> USE DEF Frame, Order
  <1>1. FoundBeyond(t)' /\ FoundBeyond(u)' /\ Rising(t)' /\ Rising(u)' /\
        NoFirst(t)' /\ NoFirst(u)'
    BY DEF Between, Beyond, Closing, Filled, FoundBeyond, Level, Levels,
           NoFirst, Opening, Part, PartsInt, Rising, SeeFillFail, Stays, Taken
  <1>2. LastLost(t, u)' /\ LastLost(u, t)' /\ Lower(t, u)' /\ Lower(u, t)' /\
        Aimed(t)'
    BY DEF Above, Aimed, Amid, Between, Beyond, Closing, Filled, LastLost,
           Level, Levels, Lower, OneOf, Opening, Part, PartsInt, SeeFillFail,
           Starting, Stays, Taken, Taking
  <1>3. StartChain(t, u)' /\ StartQuiet(t, u)'
    BY DEF Above, Amid, Between, Beyond, Chain, Closing, Cut, Early, Filled,
           FoundBeyond, LastLost, Level, Levels, MiddleAbove, OneOf, Opening,
           Part, PartsInt, Rising, SeeFillFail, StartChain, StartQuiet,
           Starting, Stays, Taken
  <1>4. MiddleChain(t, u)' /\ MiddleChain(u, t)' /\ MiddleAbove(t, u)' /\
        MiddleAbove(u, t)'
    BY DEF Above, Amid, Between, Chain, Closing, Cut, Filled, Level, Levels,
           MiddleAbove, MiddleChain, Opening, Part, PartsInt, SeeFillFail,
           Stays, Taken
  <1>5. CrossAt(t, u)' /\ CrossAt(u, t)' /\ CrossAmid(t, u)' /\
        CrossAmid(u, t)'
    BY DEF Above, Amid, Between, Beyond, Closing, CrossAmid, CrossAt, Cut,
           Early, Filled, Level, Levels, Lower, MiddleAbove, Opening, Part,
           PartsInt, SeeFillFail, StartQuiet, Starting, Stays, Taken, Taking
  <1>6. LedQuiet(t, u)'
    BY DEF Between, Beyond, Closing, Early, Filled, FoundBeyond, Led,
           LedBeyond, LedQuiet, Level, Levels, OneOf, Opening, Part, PartsInt,
           SeeFillFail, Stays, Taken, Untaken, Waiting
  <1>7. LedIntact(t, u)' /\ LedIntact(u, t)' /\ LedBeyond(t, u)'
    BY DEF Between, Beyond, Closing, Filled, Led, LedBeyond, LedIntact, Level,
           Levels, Opening, Part, PartsInt, SeeFillFail, Stays, Taken, Untaken
  <1>8. LedBeyond(u, t)' /\ LedClosing(t, u)' /\ LedClosing(u, t)'
    BY DEF Between, Beyond, Closing, Filled, Led, LedBeyond, LedClosing, Level,
           Levels, Opening, Part, PartsInt, SeeFillFail, Stays, Taken, Untaken
  <1>9. u # t => Aimed(u)'
    BY FillNextAimed DEF SeeFillFail, Filled, Moved, Taken
  <1>10. FoundClosing(t)' /\ FoundClosing(u)' /\ StartChain(u, t)' /\
         StartQuiet(u, t)'
    BY FillFailHard
  <1>11. LedQuiet(u, t)'
    BY <1>6 DEF LedQuiet, Led
  <1>12. QED BY <1>1, <1>2, <1>3, <1>4, <1>5, <1>6, <1>7, <1>8, <1>9, <1>10, <1>11, Zenon

LEMMA OrderUnmount ==
  ASSUME NEW t \in Tasks, NEW u \in Tasks, Frame(t, u), Frame(t, u)',
         Order(t, u), Order(u, t), NEW x, SeeUnmount(t, u, x)
  PROVE  Order(t, u)' /\ Order(u, t)'
  <1> USE DEF Frame, Order
  <1>1. FoundBeyond(t)' /\ FoundBeyond(u)' /\ FoundClosing(t)' /\
        FoundClosing(u)' /\ Rising(t)' /\ Rising(u)' /\ NoFirst(t)' /\
        NoFirst(u)'
    BY DEF Between, Beyond, Closing, FoundBeyond, FoundClosing, Level, Levels,
           NoFirst, Opening, Part, PartsInt, Rising, SeeUnmount, Stays, Taken
  <1>2. LastLost(t, u)' /\ LastLost(u, t)' /\ Lower(t, u)' /\ Lower(u, t)' /\
        Aimed(t)' /\ Aimed(u)'
    BY DEF Above, Aimed, Amid, Between, Beyond, Closing, LastLost, Level,
           Levels, Lower, NoFirst, Opening, Part, PartsInt, SeeUnmount,
           Starting, Stays, Taken, Taking
  <1>3. StartQuiet(t, u)'
    BY DEF Above, Between, Beyond, Closing, Cut, Early, Led, LedBeyond,
           LedClosing, LedQuiet, Level, Levels, Opening, Part, PartsInt,
           SeeUnmount, StartQuiet, Starting, Stays, Taken, Untaken, Waiting
  <1>4. MiddleChain(t, u)' /\ MiddleChain(u, t)' /\ MiddleAbove(t, u)' /\
        MiddleAbove(u, t)'
    BY DEF Above, Amid, Between, Chain, Closing, Cut, Level, Levels,
           MiddleAbove, MiddleChain, Opening, Part, PartsInt, SeeUnmount,
           Stays, Taken
  <1>5. CrossAt(t, u)' /\ CrossAt(u, t)' /\ CrossAmid(t, u)'
    BY DEF Amid, Between, Closing, CrossAmid, CrossAt, Led, LedClosing, Level,
           Levels, Part, PartsInt, SeeUnmount, Starting, Stays, Taken, Taking,
           Untaken
  <1>6. LedIntact(t, u)' /\ LedIntact(u, t)' /\ LedBeyond(t, u)' /\
        LedBeyond(u, t)' /\ LedClosing(t, u)' /\ LedClosing(u, t)'
    BY DEF Between, Beyond, Closing, Led, LedBeyond, LedClosing, LedIntact,
           Level, Levels, Opening, Part, PartsInt, SeeUnmount, Stays, Taken,
           Untaken
  <1>7. LedQuiet(t, u)'
    BY DEF Between, Beyond, Closing, Early, Led, LedQuiet, Level, Levels,
           Opening, Part, PartsInt, SeeUnmount, Stays, Taken, Untaken, Waiting
  <1>8. StartChain(t, u)' /\ StartChain(u, t)'
    BY UnmountStartChain
  <1>9. StartQuiet(u, t)' /\ CrossAmid(u, t)'
    BY UnmountHard
  <1>10. LedQuiet(u, t)'
    BY <1>7 DEF LedQuiet, Led
  <1>11. QED BY <1>1, <1>2, <1>3, <1>4, <1>5, <1>6, <1>7, <1>8, <1>9, <1>10, Zenon

LEMMA OrderCompareHit ==
  ASSUME NEW t \in Tasks, NEW u \in Tasks, Frame(t, u), Frame(t, u)',
         Order(t, u), Order(u, t), SeeCompareHit(t, u)
  PROVE  Order(t, u)' /\ Order(u, t)'
  <1> USE DEF Frame, Order
  <1>1. FoundBeyond(t)' /\ FoundBeyond(u)' /\ FoundClosing(t)' /\
        FoundClosing(u)' /\ Rising(t)' /\ Rising(u)' /\ NoFirst(t)' /\
        NoFirst(u)'
    BY DEF Between, Beyond, Closing, FoundBeyond, FoundClosing, Level, Levels,
           NoFirst, Opening, Part, PartsInt, Rising, Same, SeeCompareHit, Stays
  <1>2. LastLost(t, u)' /\ LastLost(u, t)' /\ Lower(t, u)' /\ Lower(u, t)' /\
        Aimed(t)' /\ Aimed(u)'
    BY DEF Above, Aimed, Amid, Between, Beyond, Closing, LastLost, Level,
           Levels, Lower, Opening, Part, PartsInt, Same, SeeCompareHit,
           Starting, Stays, Taking
  <1>3. StartChain(t, u)' /\ StartChain(u, t)' /\ StartQuiet(t, u)' /\
        StartQuiet(u, t)'
    BY DEF Above, Between, Beyond, Chain, Closing, Cut, Early, Level, Levels,
           Opening, Part, PartsInt, Same, SeeCompareHit, StartChain,
           StartQuiet, Starting, Stays
  <1>4. MiddleChain(t, u)' /\ MiddleChain(u, t)' /\ MiddleAbove(t, u)' /\
        MiddleAbove(u, t)'
    BY DEF Above, Amid, Between, Chain, Closing, Cut, Level, Levels,
           MiddleAbove, MiddleChain, Opening, Part, PartsInt, Same,
           SeeCompareHit, Stays
  <1>5. CrossAt(t, u)' /\ CrossAt(u, t)' /\ CrossAmid(t, u)' /\
        CrossAmid(u, t)'
    BY DEF Amid, Between, Closing, CrossAmid, CrossAt, Level, Levels, Part,
           PartsInt, Same, SeeCompareHit, Starting, Stays, Taking
  <1>6. LedIntact(t, u)' /\ LedIntact(u, t)' /\ LedBeyond(t, u)' /\
        LedBeyond(u, t)' /\ LedClosing(t, u)' /\ LedClosing(u, t)'
    BY DEF ArmedOnce, Between, Beyond, Closing, Led, LedBeyond, LedClosing,
           LedIntact, Level, Levels, Opening, Part, PartsInt, ReturnedFirst,
           Same, SeeCompareHit, Stays, Untaken
  <1>7. LedQuiet(t, u)'
    BY DEF ArmedOnce, Between, Beyond, Closing, Early, Led, LedClosing,
           LedQuiet, Level, Levels, Opening, Part, PartsInt, ReturnedFirst,
           Same, SeeCompareHit, Stays, Untaken, Waiting
  <1>8. LedQuiet(u, t)'
    BY <1>7 DEF LedQuiet, Led
  <1>9. QED BY <1>1, <1>2, <1>3, <1>4, <1>5, <1>6, <1>7, <1>8, Zenon

LEMMA OrderCompareNext ==
  ASSUME NEW t \in Tasks, NEW u \in Tasks, Frame(t, u), Frame(t, u)',
         Order(t, u), Order(u, t), SeeCompareNext(t, u)
  PROVE  Order(t, u)' /\ Order(u, t)'
  <1> USE DEF Frame, Order
  <1>1. FoundBeyond(t)' /\ FoundBeyond(u)' /\ FoundClosing(t)' /\
        FoundClosing(u)' /\ Rising(t)' /\ Rising(u)' /\ NoFirst(t)' /\
        NoFirst(u)'
    BY DEF Between, Beyond, Closing, FoundBeyond, FoundClosing, Level, Levels,
           NoFirst, Opening, Part, PartsInt, Rising, Same, SeeCompareNext,
           Stays
  <1>2. LastLost(t, u)' /\ LastLost(u, t)' /\ Lower(t, u)' /\ Lower(u, t)' /\
        Aimed(t)' /\ Aimed(u)'
    BY DEF Above, Aimed, Amid, Between, Beyond, Closing, LastLost, Level,
           Levels, Lower, Opening, Part, PartsInt, Same, SeeCompareNext,
           Starting, Stays, Taking
  <1>3. StartChain(t, u)' /\ StartChain(u, t)' /\ StartQuiet(t, u)' /\
        StartQuiet(u, t)'
    BY DEF Above, Between, Beyond, Chain, Closing, Cut, Early, Level, Levels,
           Opening, Part, PartsInt, Same, SeeCompareNext, StartChain,
           StartQuiet, Starting, Stays
  <1>4. MiddleChain(t, u)' /\ MiddleChain(u, t)' /\ MiddleAbove(t, u)' /\
        MiddleAbove(u, t)'
    BY DEF Above, Amid, Between, Chain, Closing, Cut, Level, Levels,
           MiddleAbove, MiddleChain, Opening, Part, PartsInt, Same,
           SeeCompareNext, Stays
  <1>5. CrossAt(t, u)' /\ CrossAt(u, t)' /\ CrossAmid(t, u)' /\
        CrossAmid(u, t)'
    BY DEF Amid, Between, Closing, CrossAmid, CrossAt, Level, Levels, Part,
           PartsInt, Same, SeeCompareNext, Starting, Stays, Taking
  <1>6. LedIntact(t, u)' /\ LedIntact(u, t)' /\ LedBeyond(t, u)' /\
        LedBeyond(u, t)' /\ LedClosing(t, u)' /\ LedClosing(u, t)'
    BY DEF Between, Beyond, Closing, Led, LedBeyond, LedClosing, LedIntact,
           Level, Levels, Opening, Part, PartsInt, Same, SeeCompareNext, Stays,
           Untaken
  <1>7. LedQuiet(t, u)'
    BY DEF Between, Beyond, Closing, Early, Led, LedQuiet, Level, Levels,
           Opening, Part, PartsInt, Same, SeeCompareNext, Stays, Untaken,
           Waiting
  <1>8. LedQuiet(u, t)'
    BY <1>7 DEF LedQuiet, Led
  <1>9. QED BY <1>1, <1>2, <1>3, <1>4, <1>5, <1>6, <1>7, <1>8, Zenon

LEMMA OrderUmountSkip ==
  ASSUME NEW t \in Tasks, NEW u \in Tasks, Frame(t, u), Frame(t, u)',
         Order(t, u), Order(u, t), NEW q, SeeUmountSkip(t, u, q)
  PROVE  Order(t, u)' /\ Order(u, t)'
  <1> USE DEF Frame, Order
  <1>1. FoundBeyond(t)' /\ FoundBeyond(u)' /\ FoundClosing(t)' /\
        FoundClosing(u)' /\ Rising(t)' /\ Rising(u)' /\ NoFirst(t)' /\
        NoFirst(u)'
    BY DEF Between, Beyond, Closing, FoundBeyond, FoundClosing, Level, Levels,
           NoFirst, Opening, Part, PartsInt, Rising, Same, SeeUmount,
           SeeUmountSkip, Stays
  <1>2. LastLost(t, u)' /\ LastLost(u, t)' /\ Lower(t, u)' /\ Lower(u, t)' /\
        Aimed(t)' /\ Aimed(u)'
    BY DEF Above, Aimed, Amid, Between, Beyond, Closing, LastLost, Level,
           Levels, Lower, Opening, Part, PartsInt, Same, SeeUmount,
           SeeUmountSkip, Starting, Stays, Taking
  <1>3. StartChain(t, u)' /\ StartChain(u, t)' /\ StartQuiet(t, u)' /\
        StartQuiet(u, t)'
    BY DEF Above, Between, Beyond, Chain, Closing, Cut, Early, Level, Levels,
           Opening, Part, PartsInt, Same, SeeUmount, SeeUmountSkip, StartChain,
           StartQuiet, Starting, Stays
  <1>4. MiddleChain(t, u)' /\ MiddleChain(u, t)' /\ MiddleAbove(t, u)' /\
        MiddleAbove(u, t)'
    BY DEF Above, Amid, Between, Chain, Closing, Cut, Level, Levels,
           MiddleAbove, MiddleChain, Opening, Part, PartsInt, Same, SeeUmount,
           SeeUmountSkip, Stays
  <1>5. CrossAt(t, u)' /\ CrossAt(u, t)' /\ CrossAmid(t, u)' /\
        CrossAmid(u, t)'
    BY DEF Amid, Between, Closing, CrossAmid, CrossAt, Level, Levels, Part,
           PartsInt, Same, SeeUmount, SeeUmountSkip, Starting, Stays, Taking
  <1>6. LedIntact(t, u)' /\ LedIntact(u, t)' /\ LedBeyond(t, u)' /\
        LedBeyond(u, t)' /\ LedClosing(t, u)' /\ LedClosing(u, t)'
    BY DEF Between, Beyond, Closing, Led, LedBeyond, LedClosing, LedIntact,
           Level, Levels, Opening, Part, PartsInt, Same, SeeUmount,
           SeeUmountSkip, Stays, Untaken
  <1>7. LedQuiet(t, u)'
    BY DEF Between, Beyond, Closing, Early, Led, LedQuiet, Level, Levels,
           Opening, Part, PartsInt, Same, SeeUmount, SeeUmountSkip, Stays,
           Untaken, Waiting
  <1>8. LedQuiet(u, t)'
    BY <1>7 DEF LedQuiet, Led
  <1>9. QED BY <1>1, <1>2, <1>3, <1>4, <1>5, <1>6, <1>7, <1>8, Zenon

LEMMA OrderUmountKill ==
  ASSUME NEW t \in Tasks, NEW u \in Tasks, Frame(t, u), Frame(t, u)',
         Order(t, u), Order(u, t), NEW q, NEW s, SeeUmountKill(t, u, q, s)
  PROVE  Order(t, u)' /\ Order(u, t)'
  <1> USE DEF Frame, Order
  <1>1. FoundBeyond(t)' /\ FoundBeyond(u)' /\ Rising(t)' /\ NoFirst(t)' /\
        NoFirst(u)'
    BY DEF Above, Amid, Between, Beyond, Closing, Cut, FoundBeyond, Level,
           Levels, Lower, MiddleAbove, NoFirst, Opening, Part, PartsInt,
           Rising, SeeUmount, SeeUmountKill, Stays
  <1>2. LastLost(t, u)' /\ Lower(t, u)' /\ Lower(u, t)' /\ Aimed(t)' /\
        Aimed(u)'
    BY DEF Above, Aimed, Amid, Between, Beyond, Chain, Closing, Cut, Early,
           LastLost, Level, Levels, Lower, MiddleAbove, Opening, Part,
           PartsInt, SeeUmount, SeeUmountKill, StartChain, StartQuiet,
           Starting, Stays, Taking
  <1>3. StartChain(u, t)' /\ StartQuiet(u, t)'
    BY DEF Above, Aimed, Amid, ArmedOnce, Between, Beyond, Chain, ClosedOnce,
           Closing, CrossAmid, CrossAt, Cut, Early, Level, Levels, Opening,
           Part, PartsInt, SeeUmount, SeeUmountKill, StartChain, StartQuiet,
           Starting, Stays, Taking
  <1>4. MiddleAbove(t, u)' /\ MiddleAbove(u, t)'
    BY DEF Above, Amid, Between, Beyond, Closing, CrossAmid, CrossAt, Cut,
           Early, Level, Levels, Lower, MiddleAbove, Opening, Part, PartsInt,
           SeeUmount, SeeUmountKill, StartQuiet, Starting, Stays, Taking
  <1>5. CrossAt(u, t)' /\ CrossAmid(t, u)' /\ CrossAmid(u, t)'
    BY DEF Amid, Between, Closing, CrossAmid, CrossAt, Level, Levels, Part,
           PartsInt, SeeUmount, SeeUmountKill, Starting, Stays, Taking
  <1>6. LedIntact(t, u)' /\ LedIntact(u, t)' /\ LedBeyond(t, u)' /\
        LedBeyond(u, t)' /\ LedClosing(t, u)' /\ LedClosing(u, t)'
    BY DEF Aimed, Amid, ArmedOnce, Between, Beyond, Closing, Led, LedBeyond,
           LedClosing, LedIntact, Level, Levels, Opening, Part, PartsInt,
           ReturnedFirst, SeeUmount, SeeUmountKill, Starting, Stays, Taking,
           Untaken
  <1>7. LedQuiet(t, u)'
    BY DEF Aimed, Amid, ArmedOnce, Between, Beyond, Closing, Early, Led,
           LedClosing, LedQuiet, Level, Levels, Opening, Part, PartsInt,
           ReturnedFirst, SeeUmount, SeeUmountKill, Starting, Stays, Taking,
           Untaken, Waiting
  <1>8. FoundClosing(t)' /\ FoundClosing(u)' /\ LastLost(u, t)' /\
        Rising(u)' /\ StartChain(t, u)' /\ StartQuiet(t, u)' /\
        MiddleChain(t, u)' /\ MiddleChain(u, t)' /\ CrossAt(t, u)'
    BY UmountKillHard
  <1>9. LedQuiet(u, t)'
    BY <1>7 DEF LedQuiet, Led
  <1>10. QED BY <1>1, <1>2, <1>3, <1>4, <1>5, <1>6, <1>7, <1>8, <1>9, Zenon

LEMMA OrderKilled ==
  ASSUME NEW t \in Tasks, NEW u \in Tasks, Frame(t, u), Frame(t, u)',
         Order(t, u), Order(u, t), NEW s, SeeKilled(t, u, s)
  PROVE  Order(t, u)' /\ Order(u, t)'
  <1> USE DEF Frame, Order
  <1>1. FoundBeyond(t)' /\ FoundBeyond(u)' /\ FoundClosing(t)' /\
        FoundClosing(u)' /\ Rising(t)' /\ Rising(u)' /\ NoFirst(t)' /\
        NoFirst(u)'
    BY DEF Between, Beyond, Closing, FoundBeyond, FoundClosing, Level, Levels,
           NoFirst, Opening, Part, PartsInt, Rising, SeeKilled, Stays
  <1>2. LastLost(t, u)' /\ LastLost(u, t)' /\ Lower(t, u)' /\ Lower(u, t)' /\
        Aimed(t)'
    BY DEF Above, Aimed, Amid, Between, Beyond, Closing, LastLost, Level,
           Levels, Lower, Opening, Part, PartsInt, SeeKilled, Starting, Stays,
           Taking
  <1>3. StartChain(t, u)' /\ StartChain(u, t)' /\ StartQuiet(t, u)' /\
        StartQuiet(u, t)'
    BY DEF Above, Between, Beyond, Chain, Closing, Cut, Early, Level, Levels,
           Opening, Part, PartsInt, SeeKilled, StartChain, StartQuiet,
           Starting, Stays
  <1>4. MiddleChain(t, u)' /\ MiddleChain(u, t)' /\ MiddleAbove(t, u)' /\
        MiddleAbove(u, t)'
    BY DEF Above, Amid, Between, Chain, Closing, Cut, Level, Levels,
           MiddleAbove, MiddleChain, Opening, Part, PartsInt, SeeKilled, Stays
  <1>5. CrossAt(t, u)' /\ CrossAt(u, t)' /\ CrossAmid(t, u)' /\
        CrossAmid(u, t)'
    BY DEF Amid, Between, Closing, CrossAmid, CrossAt, Level, Levels, Opening,
           Part, PartsInt, SeeKilled, Starting, Stays, Taking
  <1>6. LedIntact(t, u)' /\ LedIntact(u, t)' /\ LedBeyond(t, u)' /\
        LedBeyond(u, t)' /\ LedClosing(t, u)' /\ LedClosing(u, t)'
    BY DEF Between, Beyond, Closing, Led, LedBeyond, LedClosing, LedIntact,
           Level, Levels, Opening, Part, PartsInt, SeeKilled, Stays, Untaken
  <1>7. LedQuiet(t, u)'
    BY DEF Between, Beyond, Closing, Early, Led, LedQuiet, Level, Levels,
           Opening, Part, PartsInt, SeeKilled, Stays, Untaken, Waiting
  <1>8. u # t => Aimed(u)'
    BY KilledAimed
  <1>9. LedQuiet(u, t)'
    BY <1>7 DEF LedQuiet, Led
  <1>10. QED BY <1>1, <1>2, <1>3, <1>4, <1>5, <1>6, <1>7, <1>8, <1>9, Zenon

-----------------------------------------------------------------------------
(***************************************************************************)
(* Overlap is kept                                                         *)
(***************************************************************************)
(* What Frame says holds of any two tasks that are not stuck. *)
Framed == \A t, u \in Tasks :
  Shapes /\ Base /\ ~Gone(t) /\ ~Gone(u) => Frame(t, u)

LEMMA FramedNow == Framed
  <1> SUFFICES ASSUME NEW t \in Tasks, NEW u \in Tasks, Shapes, Base,
                      ~Gone(t), ~Gone(u)
               PROVE  Frame(t, u)
    BY DEF Framed
  <1>1. /\ PartsInt /\ IdsInt /\ IdsAre /\ IdsOf /\ TaskPart /\ TaskIds
        /\ NoneOut /\ Closed /\ FirstFree /\ OwnApart /\ OneBeyond
    BY DEF Shapes, Base
  <1>2. Part(t) /\ Part(u)
    BY <1>1 DEF Part, Between, TaskPart, PartsInt
  <1>3. Levels(t) /\ Levels(u)
    BY <1>1 DEF Levels, Level, PartOf, Between, Closed, IdsInt, PartsInt
  <1>4. Mine(t) /\ Mine(u)
    BY <1>1 DEF Mine, TaskIds, PartOf, MountOf
  <1>5. Names
    BY <1>1 DEF Names, IdsAre, IdsOf, IdsInt, PartOf, MountOf
  <1>6. Awake(t) /\ Awake(u)
    BY <1>1 DEF Awake, Gone, Closed, Living
  <1>7. ReturnedFirst
    BY <1>1 DEF ReturnedFirst, Returned, Living, Alive, FirstFree, PartOf
  <1>8. ArmedIds /\ ArmedOnce
    BY DEF ArmedIds, ArmedOnce, Armed
  <1>9. ClosedOnce(t, u)
    BY <1>1 DEF ClosedOnce, OwnApart, Own, Opening, Closing
  <1>10. OneOf(t, u)
    BY <1>1 DEF OneBeyond
  <1>11. QED BY <1>1, <1>2, <1>3, <1>4, <1>5, <1>6, <1>7, <1>8, <1>9, <1>10
         DEF Frame

LEMMA FramedAfter == Framed'
  BY FramedNow, PTL

(* No step gets a task loose. *)
LEMMA GoneStays ==
  ASSUME Base, NEW t \in Tasks, Only(t), task[t].pc # "oops",
         Closing(t) => \/ Closing(t)' /\ task'[t].sb = task[t].sb
                       \/ Alive(task[t].sb),
         \A s \in Ids : super[s].state = "dead" => super'[s].state = "dead"
  PROVE  \A v \in Tasks : Gone(v) => Gone(v)'
  <1> SUFFICES ASSUME NEW v \in Tasks, Gone(v) PROVE Gone(v)'
    OBVIOUS
  <1>1. CASE task[v].pc = "oops"
    BY <1>1 DEF Only, Gone
  <1>2. CASE Closing(v) /\ ~Alive(task[v].sb)
    <2>1. task[v].sb \in Ids /\ super[task[v].sb].state = "dead"
      BY <1>2 DEF Base, Closed, Alive
    <2>2. Closing(v)' /\ task'[v].sb = task[v].sb
      BY <1>2 DEF Only, Closing
    <2>3. super'[task'[v].sb].state = "dead"
      BY <2>1, <2>2
    <2>4. QED BY <2>2, <2>3 DEF Gone, Alive
  <1>3. QED BY <1>1, <1>2 DEF Gone

Pair(t, u) == \A v \in Tasks : v = t \/ v = u
(* All that is known before a step of t that Order(t, u) follows. *)
Both(t, u) == /\ Pair(t, u) /\ ~Gone(t) /\ ~Gone(u)
              /\ Frame(t, u) /\ Order(t, u) /\ Order(u, t)

LEMMA BothOf ==
  ASSUME Shapes, Overlap, NEW t \in Tasks, NEW u \in Tasks, Pair(t, u),
         ~Gone(t), ~Gone(u)
  PROVE  Both(t, u)
  <1>1. Base
    BY DEF Overlap
  <1>2. \A v \in Tasks : ~Gone(v)
    BY DEF Pair
  <1>3. Order(t, u) /\ Order(u, t)
    BY <1>2 DEF Overlap, Pair
  <1>4. QED BY <1>1, <1>3, FramedNow DEF Both, Framed

(* It is enough to follow the two tasks, one of which steps. *)
LEMMA Follow ==
  ASSUME Shapes, Shapes', Overlap, Base', NEW t \in Tasks,
         \A v \in Tasks : Gone(v) => Gone(v)',
         \A u \in Tasks : Both(t, u) /\ Frame(t, u)' =>
           Order(t, u)' /\ Order(u, t)'
  PROVE  Overlap'
  <1> SUFFICES ASSUME \A v \in Tasks : ~Gone(v)', NEW a \in Tasks, NEW b \in Tasks,
                      Pair(a, b)
               PROVE  Order(a, b)'
    BY DEF Overlap, Pair
  <1>1. \A u \in Tasks : Frame(t, u)'
    BY FramedAfter DEF Framed
  <1>2. ASSUME NEW u \in Tasks, Pair(t, u)
        PROVE  Order(t, u)' /\ Order(u, t)'
    <2>1. ~Gone(t) /\ ~Gone(u)
      OBVIOUS
    <2>2. Both(t, u)
      BY <1>2, <2>1, BothOf
    <2>3. QED BY <1>1, <2>2
  <1>3. CASE t = a
    BY <1>2, <1>3
  <1>4. CASE t = b
    <2>1. Pair(t, a)
      BY <1>4 DEF Pair
    <2>2. QED BY <1>2, <1>4, <2>1
  <1>5. QED BY <1>3, <1>4 DEF Pair

LEMMA SgetNewOneBeyond ==
  ASSUME PartsInt, NEW t \in Tasks, NEW u \in Tasks, Part(t), u # t,
         OneOf(t, u), FoundBeyond(u), LastLost(u, t), SeeSgetNew(t, u)
  PROVE  OneOf(t, u)'
  <1> SUFFICES ASSUME Beyond(u)' PROVE FALSE
    BY DEF OneOf
  <1>1. Beyond(u) /\ task[t].pc = "sget"
    BY DEF SeeSgetNew, Moved, Stays, Beyond, Opening
  <1>2. task[t].part = Last
    BY <1>1 DEF OneOf, Beyond, Opening, Part, Between, PartsInt
  <1>3. task[u].mount \in Found
    BY <1>1 DEF FoundBeyond, LastLost
  <1>4. Early(u)
    BY <1>2, <1>3 DEF SeeSgetNew
  <1> QED
    BY <1>1, <1>4 DEF Early, Beyond, PartsInt

LEMMA StepMountCall ==
  ASSUME Shapes, Shapes', Overlap, NEW t \in Tasks, DidMountCall(t)
  PROVE  Overlap'
  <1>1. Base
    BY DEF Overlap
  <1>2. Base'
    BY <1>1, BaseMountCall
  <1>3. \A v \in Tasks : Gone(v) => Gone(v)'
    BY <1>1, GoneStays DEF DidMountCall, Closing
  <1>4. ASSUME NEW u \in Tasks, Both(t, u), Frame(t, u)'
        PROVE  Order(t, u)' /\ Order(u, t)'
    <2>1. SeeMountCall(t, u)
      BY SeesMountCall
    <2>2. QED BY <1>4, <2>1, OrderMountCall DEF Both
  <1>5. QED BY <1>2, <1>3, <1>4, Follow

LEMMA StepAlloc ==
  ASSUME Shapes, Shapes', Overlap, NEW t \in Tasks, DidAlloc(t)
  PROVE  Overlap'
  <1>1. Base
    BY DEF Overlap
  <1>2. Base'
    BY <1>1, BaseAlloc
  <1>3. \A v \in Tasks : Gone(v) => Gone(v)'
    BY <1>1, GoneStays DEF DidAlloc, Closing
  <1>4. ASSUME NEW u \in Tasks, Both(t, u), Frame(t, u)'
        PROVE  Order(t, u)' /\ Order(u, t)'
    <2>1. PartsInt /\ IdsInt /\ NoneOut /\ TaskPart /\ TaskIds /\ ListKnown /\
          InfosAhead /\ InfoNew /\ Kept /\ SuperKnown
      BY <1>1 DEF Shapes, Base
    <2>2. SeeAlloc(t, u)
      BY <1>4, <2>1, SeesAlloc DEF Both, Pair
    <2>3. QED BY <1>4, <2>2, OrderAlloc DEF Both
  <1>5. QED BY <1>2, <1>3, <1>4, Follow

LEMMA StepAllocFails ==
  ASSUME Shapes, Shapes', Overlap, NEW t \in Tasks, DidAllocFails(t)
  PROVE  Overlap'
  <1>1. Base
    BY DEF Overlap
  <1>2. Base'
    BY <1>1, BaseAllocFails
  <1>3. \A v \in Tasks : Gone(v) => Gone(v)'
    BY <1>1, GoneStays DEF DidAllocFails, Closing
  <1>4. ASSUME NEW u \in Tasks, Both(t, u), Frame(t, u)'
        PROVE  Order(t, u)' /\ Order(u, t)'
    <2>1. PartsInt /\ IdsInt /\ NoneOut /\ TaskPart /\ ListKnown
      BY <1>1 DEF Shapes, Base
    <2>2. SeeAllocFails(t, u)
      BY <1>4, <2>1, SeesAllocFails DEF Both, Pair
    <2>3. QED BY <1>4, <2>2, OrderAllocFails DEF Both
  <1>5. QED BY <1>2, <1>3, <1>4, Follow

LEMMA StepOpen ==
  ASSUME Shapes, Shapes', Overlap, NEW t \in Tasks, DidOpen(t)
  PROVE  Overlap'
  <1>1. Base
    BY DEF Overlap
  <1>2. Base'
    BY <1>1, BaseOpen
  <1>3. \A v \in Tasks : Gone(v) => Gone(v)'
    BY <1>1, GoneStays DEF DidOpen, Closing
  <1>4. ASSUME NEW u \in Tasks, Both(t, u), Frame(t, u)'
        PROVE  Order(t, u)' /\ Order(u, t)'
    <2>1. PartsInt /\ IdsInt /\ ListKnown /\ SuperKnown
      BY <1>1 DEF Shapes, Base
    <2>2. SeeOpen(t, u)
      BY <2>1, SeesOpen
    <2>3. QED BY <1>4, <2>2, OrderOpen DEF Both
  <1>5. QED BY <1>2, <1>3, <1>4, Follow

LEMMA SeenBy ==
  ASSUME Shapes, Base, NEW t \in Tasks, NEW u \in Tasks, Both(t, u),
         DidSgetNew(t)
  PROVE  SeeSgetNew(t, u)
  <1>1. /\ PartsInt /\ IdsInt /\ IdsOf /\ NoneOut /\ TaskPart /\ TaskIds
        /\ ListKnown /\ SuperKnown /\ SupersAhead /\ OwnApart /\ OpenedBy
        /\ MineListed /\ Seen
    BY DEF Shapes, Base
  <1>2. \A v \in Tasks : v = t \/ v = u
    BY DEF Both, Pair
  <1>3. \A v \in Tasks : task[v].pc # "oops"
    BY <1>2 DEF Both, Gone
  <1>4. QED BY <1>1, <1>2, <1>3, SeesSgetNew

(* The one place where a task gets past the last partition.                *)
LEMMA SgetNewOneBeyondStays ==
  ASSUME Shapes, TwoTasks, Overlap, NEW t \in Tasks, DidSgetNew(t),
         NEW u \in Tasks, u # t
  PROVE  OneOf(t, u)'
  <1> SUFFICES ASSUME Beyond(u)' PROVE OneOf(t, u)'
    BY DEF OneOf
  <1>1. Base
    BY DEF Overlap
  <1>2. Pair(t, u)
    BY DEF TwoTasks, Pair
  <1>3. Opening(u)
    BY DEF Beyond, Opening, DidSgetNew, Only
  <1>4. ~Gone(t) /\ ~Gone(u)
    BY <1>3 DEF Gone, Opening, Closing, DidSgetNew
  <1>5. Both(t, u)
    BY <1>2, <1>4, BothOf
  <1>6. SeeSgetNew(t, u)
    BY <1>1, <1>5, SeenBy
  <1>7. /\ PartsInt /\ Part(t) /\ OneOf(t, u) /\ FoundBeyond(u)
        /\ LastLost(u, t)
    BY <1>5 DEF Both, Frame, Order
  <1>8. QED BY <1>6, <1>7, SgetNewOneBeyond

LEMMA StepSgetNew ==
  ASSUME Shapes, Shapes', TwoTasks, Overlap, NEW t \in Tasks, DidSgetNew(t)
  PROVE  Overlap'
  <1>1. Base
    BY DEF Overlap
  <1>2. OneBeyond'
    <2>1. ASSUME NEW a \in Tasks, NEW b \in Tasks, a # b
          PROVE  OneOf(a, b)'
      <3>1. CASE a = t
        BY <2>1, <3>1, SgetNewOneBeyondStays
      <3>2. CASE b = t
        BY <2>1, <3>2, SgetNewOneBeyondStays DEF OneOf
      <3>3. CASE a # t /\ b # t
        BY <1>1, <3>3 DEF Base, OneBeyond, OneOf, Beyond, Opening,
           DidSgetNew, Only
      <3>4. QED BY <3>1, <3>2, <3>3
    <2>2. \A a, b \in Tasks : OneOf(a, b)'
      BY <2>1 DEF OneOf
    <2>3. QED BY <2>2 DEF OneBeyond
  <1>3. Base'
    BY <1>1, <1>2, BaseSgetNew
  <1>4. \A v \in Tasks : Gone(v) => Gone(v)'
    <2>1. super[Id(task[t].mount, task[t].part)].state = "none"
      BY <1>1 DEF Base, SupersAhead, Opening, DidSgetNew, Shapes, TaskPart
    <2>2. \A s \in Ids : super[s].state = "dead" => super'[s].state = "dead"
      BY <2>1 DEF DidSgetNew
    <2>3. QED BY <1>1, <2>2, GoneStays DEF DidSgetNew, Closing
  <1>5. ASSUME NEW u \in Tasks, Both(t, u), Frame(t, u)'
        PROVE  Order(t, u)' /\ Order(u, t)'
    <2>1. SeeSgetNew(t, u)
      BY <1>1, <1>5, SeenBy
    <2>2. QED BY <1>5, <2>1, OrderSgetNew DEF Both
  <1>6. QED BY <1>3, <1>4, <1>5, Follow

LEMMA StepSgetOld ==
  ASSUME Shapes, Shapes', Overlap, NEW t \in Tasks, DidSgetOld(t)
  PROVE  Overlap'
  <1>1. Base
    BY DEF Overlap
  <1>2. Base'
    BY <1>1, BaseSgetOld
  <1>3. \A v \in Tasks : Gone(v) => Gone(v)'
    BY <1>1, GoneStays DEF DidSgetOld, Closing
  <1>4. ASSUME NEW u \in Tasks, Both(t, u), Frame(t, u)'
        PROVE  Order(t, u)' /\ Order(u, t)'
    <2>1. PartsInt /\ IdsInt /\ NoneOut /\ ListKnown /\ SuperKnown
      BY <1>1 DEF Shapes, Base
    <2>2. SeeSgetOld(t, u)
      BY <2>1, SeesSgetOld
    <2>3. QED BY <1>4, <2>2, OrderSgetOld DEF Both
  <1>5. QED BY <1>2, <1>3, <1>4, Follow

LEMMA StepFillNext ==
  ASSUME Shapes, Shapes', Overlap, NEW t \in Tasks, NEW s, NEW i,
         DidFillNext(t, s, i)
  PROVE  Overlap'
  <1>1. Base
    BY DEF Overlap
  <1>2. Base'
    BY <1>1, BaseFillNext
  <1>3. \A v \in Tasks : Gone(v) => Gone(v)'
    BY <1>1, GoneStays DEF DidFillNext, DidFill, Closing
  <1>4. ASSUME NEW u \in Tasks, Both(t, u), Frame(t, u)'
        PROVE  Order(t, u)' /\ Order(u, t)'
    <2>1. PartsInt /\ IdsInt /\ NoneOut /\ TaskIds /\ TaskPart /\ ListKnown /\
          SuperKnown /\ SbKnown /\ Apart /\ OwnApart
      BY <1>1 DEF Shapes, Base
    <2>2. Filled(t, u, s)
      BY <2>1, SeesFill DEF DidFillNext
    <2>3. SeeFillNext(t, u, s)
      BY <2>2, SeesFillNext
    <2>4. QED BY <1>4, <2>3, OrderFillNext DEF Both
  <1>5. QED BY <1>2, <1>3, <1>4, Follow

LEMMA StepFillLast ==
  ASSUME Shapes, Shapes', Overlap, NEW t \in Tasks, NEW s, NEW i,
         DidFillLast(t, s, i)
  PROVE  Overlap'
  <1>1. Base
    BY DEF Overlap
  <1>2. Base'
    BY <1>1, BaseFillLast
  <1>3. \A v \in Tasks : Gone(v) => Gone(v)'
    BY <1>1, GoneStays DEF DidFillLast, DidFill, Closing
  <1>4. ASSUME NEW u \in Tasks, Both(t, u), Frame(t, u)'
        PROVE  Order(t, u)' /\ Order(u, t)'
    <2>1. PartsInt /\ IdsInt /\ NoneOut /\ TaskIds /\ TaskPart /\ ListKnown /\
          SuperKnown /\ SbKnown /\ Apart /\ OwnApart
      BY <1>1 DEF Shapes, Base
    <2>2. Filled(t, u, s)
      BY <2>1, SeesFill DEF DidFillLast
    <2>3. SeeFillLast(t, u, s)
      BY <2>2, SeesFillLast
    <2>4. QED BY <1>4, <2>3, OrderFillLast DEF Both
  <1>5. QED BY <1>2, <1>3, <1>4, Follow

LEMMA StepFillFail ==
  ASSUME Shapes, Shapes', Overlap, NEW t \in Tasks, NEW s, NEW i,
         DidFillFail(t, s, i)
  PROVE  Overlap'
  <1>1. Base
    BY DEF Overlap
  <1>2. Base'
    BY <1>1, BaseFillFail
  <1>3. \A v \in Tasks : Gone(v) => Gone(v)'
    BY <1>1, GoneStays DEF DidFillFail, DidFill, Closing
  <1>4. ASSUME NEW u \in Tasks, Both(t, u), Frame(t, u)'
        PROVE  Order(t, u)' /\ Order(u, t)'
    <2>1. PartsInt /\ IdsInt /\ NoneOut /\ TaskIds /\ TaskPart /\ ListKnown /\
          SuperKnown /\ SbKnown /\ Apart /\ OwnApart
      BY <1>1 DEF Shapes, Base
    <2>2. Filled(t, u, s)
      BY <2>1, SeesFill DEF DidFillFail
    <2>3. SeeFillFail(t, u, s)
      BY <2>2, SeesFillFail
    <2>4. QED BY <1>4, <2>3, OrderFillFail DEF Both
  <1>5. QED BY <1>2, <1>3, <1>4, Follow

LEMMA StepUnmount ==
  ASSUME Shapes, Shapes', Overlap, NEW t \in Tasks, NEW x, DidUnmount(t, x)
  PROVE  Overlap'
  <1>1. Base
    BY DEF Overlap
  <1>2. Base'
    BY <1>1, BaseUnmount
  <1>3. \A v \in Tasks : Gone(v) => Gone(v)'
    BY <1>1, GoneStays DEF DidUnmount, Closing
  <1>4. ASSUME NEW u \in Tasks, Both(t, u), Frame(t, u)'
        PROVE  Order(t, u)' /\ Order(u, t)'
    <2>1. PartsInt
      BY DEF Shapes
    <2>2. SeeUnmount(t, u, x)
      BY <2>1, SeesUnmount
    <2>3. QED BY <1>4, <2>2, OrderUnmount DEF Both
  <1>5. QED BY <1>2, <1>3, <1>4, Follow

LEMMA StepCompareHit ==
  ASSUME Shapes, Shapes', Overlap, NEW t \in Tasks, DidCompareHit(t)
  PROVE  Overlap'
  <1>1. Base
    BY DEF Overlap
  <1>2. Base'
    BY <1>1, BaseCompareHit
  <1>3. \A v \in Tasks : Gone(v) => Gone(v)'
    BY <1>1, GoneStays DEF DidCompareHit, Closing
  <1>4. ASSUME NEW u \in Tasks, Both(t, u), Frame(t, u)'
        PROVE  Order(t, u)' /\ Order(u, t)'
    <2>1. IdsInt /\ NoneOut /\ ListKnown /\ SbKnown /\ SuperKnown /\ Closed
      BY <1>1 DEF Shapes, Base
    <2>2. Same
      BY Still DEF DidCompareHit
    <2>3. SeeCompareHit(t, u)
      BY <2>1, <2>2, SeesCompareHit
    <2>4. QED BY <1>4, <2>3, OrderCompareHit DEF Both
  <1>5. QED BY <1>2, <1>3, <1>4, Follow

LEMMA StepCompareNext ==
  ASSUME Shapes, Shapes', Overlap, NEW t \in Tasks, DidCompareNext(t)
  PROVE  Overlap'
  <1>1. Base
    BY DEF Overlap
  <1>2. Base'
    BY <1>1, BaseCompareNext
  <1>3. \A v \in Tasks : Gone(v) => Gone(v)'
    BY <1>1, GoneStays DEF DidCompareNext, Closing
  <1>4. ASSUME NEW u \in Tasks, Both(t, u), Frame(t, u)'
        PROVE  Order(t, u)' /\ Order(u, t)'
    <2>1. NoneOut /\ PartsInt
      BY DEF Shapes
    <2>2. Same
      BY Still DEF DidCompareNext
    <2>3. SeeCompareNext(t, u)
      BY <2>1, <2>2, SeesCompareNext
    <2>4. QED BY <1>4, <2>3, OrderCompareNext DEF Both
  <1>5. QED BY <1>2, <1>3, <1>4, Follow

LEMMA StepUmountSkip ==
  ASSUME Shapes, Shapes', Overlap, NEW t \in Tasks, NEW q, DidUmountSkip(t, q)
  PROVE  Overlap'
  <1>1. Base
    BY DEF Overlap
  <1>2. Base'
    BY <1>1, BaseUmountSkip
  <1>3. \A v \in Tasks : Gone(v) => Gone(v)'
    BY <1>1, GoneStays DEF DidUmountSkip, DidUmount, Closing
  <1>4. ASSUME NEW u \in Tasks, Both(t, u), Frame(t, u)'
        PROVE  Order(t, u)' /\ Order(u, t)'
    <2>1. AtOwn
      BY <1>1 DEF Base
    <2>2. Same
      BY Still DEF DidUmountSkip, DidUmount
    <2>3. SeeUmount(t, u, q) /\ q = Level(t)
      BY <2>1, SeesUmount DEF DidUmountSkip, DidUmount, AtOwn
    <2>4. SeeUmountSkip(t, u, q)
      BY <2>2, <2>3 DEF SeeUmountSkip
    <2>5. QED BY <1>4, <2>4, OrderUmountSkip DEF Both
  <1>5. QED BY <1>2, <1>3, <1>4, Follow

LEMMA StepUmountKill ==
  ASSUME Shapes, Shapes', Overlap, NEW t \in Tasks, NEW q, NEW s,
         DidUmountKill(t, q, s)
  PROVE  Overlap'
  <1>1. Base
    BY DEF Overlap
  <1>2. Base'
    BY <1>1, BaseUmountKill
  <1>3. \A v \in Tasks : Gone(v) => Gone(v)'
    BY <1>1, GoneStays DEF DidUmountKill, DidUmount, Alive, Closing
  <1>4. ASSUME NEW u \in Tasks, Both(t, u), Frame(t, u)'
        PROVE  Order(t, u)' /\ Order(u, t)'
    <2>1. PartsInt /\ TaskPart /\ NoneOut /\ AtOwn /\ ListKnown /\ SbKnown /\
          SuperKnown
      BY <1>1 DEF Shapes, Base
    <2>2. SeeUmountKill(t, u, q, s)
      BY <2>1, SeesUmountKill
    <2>3. QED BY <1>4, <2>2, OrderUmountKill DEF Both
  <1>5. QED BY <1>2, <1>3, <1>4, Follow

LEMMA StepKilled ==
  ASSUME Shapes, Shapes', Overlap, NEW t \in Tasks, NEW s, NEW i,
         DidKilled(t, s, i)
  PROVE  Overlap'
  <1>1. Base
    BY DEF Overlap
  <1>2. Base'
    BY <1>1, BaseKilled
  <1>3. \A v \in Tasks : Gone(v) => Gone(v)'
    BY <1>1, GoneStays DEF DidKilled, Closing
  <1>4. ASSUME NEW u \in Tasks, Both(t, u), Frame(t, u)'
        PROVE  Order(t, u)' /\ Order(u, t)'
    <2>1. PartsInt /\ IdsInt /\ IdsOf /\ NoneOut /\ TaskIds /\ ListKnown /\
          SuperKnown /\ SbKnown /\ Apart /\ Closed /\ OwnApart /\ OwnBusy
      BY <1>1 DEF Shapes, Base
    <2>2. Levels(u)
      BY <1>4 DEF Both, Frame
    <2>3. SeeKilled(t, u, s)
      BY <2>1, <2>2, SeesKilled
    <2>4. QED BY <1>4, <2>3, OrderKilled DEF Both
  <1>5. QED BY <1>2, <1>3, <1>4, Follow

LEMMA StepOops ==
  ASSUME Shapes, Shapes', Overlap, NEW t \in Tasks, DidOops(t)
  PROVE  Overlap'
  <1>1. Base'
    BY BaseOops DEF Overlap
  <1>2. Gone(t)'
    BY DEF DidOops, Gone
  <1>3. QED BY <1>1, <1>2 DEF Overlap

LEMMA OverlapInit == Init => Overlap
  <1> SUFFICES ASSUME Init PROVE Overlap
    OBVIOUS
  <1>1. /\ \A v \in Tasks : task[v].pc = "idle"
        /\ \A p \in Partitions : list[p] = None
        /\ \A i \in Ids : info[i].state = "none" /\ info[i].sb = None
                          /\ ~info[i].devices
        /\ \A s \in Ids : super[s].state = "none" /\ super[s].info = None
    BY DEF Init, Idle, NoInfo, NoSuper
  <1>2. /\ \A v \in Tasks : ~Opening(v) /\ ~Closing(v)
        /\ \A s \in Ids : ~Alive(s)
    BY <1>1 DEF Opening, Closing, Alive
  <1> USE <1>1, <1>2
  <1>3. SuperKnown /\ SuperNew /\ FirstFree /\ ListKnown /\ InfoNew /\ SbKnown
    BY DEF SuperKnown, SuperNew, FirstFree, ListKnown, InfoNew, SbKnown
  <1>4. Kept /\ Apart /\ Unmade /\ MountNew /\ InfosAhead /\ SupersAhead
    BY DEF Kept, Apart, Unmade, MountNew, InfosAhead, SupersAhead
  <1>5. Closed /\ AtOwn /\ OwnApart /\ OwnBusy
    BY DEF Closed, AtOwn, OwnApart, OwnBusy
  <1>6. FillLocked /\ FillUnknown /\ OpenedBy /\ OpenedUnused
    BY DEF FillLocked, FillUnknown, OpenedBy, OpenedUnused
  <1>7. MineListed /\ MineUnused /\ OneBeyond /\ Seen
    BY DEF MineListed, MineUnused, OneBeyond, OneOf, Beyond, Seen
  <1>8. \A t \in Tasks : ~Beyond(t) /\ ~Starting(t) /\ ~Amid(t) /\ ~Taking(t)
    BY DEF Beyond, Starting, Amid, Taking
  <1>9. Returned = {} /\ \A s \in Ids : s \notin Returned
    BY DEF Returned
  <1>10. \A t, u \in Tasks : Order(t, u)
    <2> TAKE t, u \in Tasks
    <2>1. FoundBeyond(t) /\ FoundClosing(t) /\ LastLost(t, u) /\ Rising(t)
      BY <1>8 DEF FoundBeyond, FoundClosing, LastLost, Rising
    <2>2. /\ Lower(t, u) /\ Aimed(u) /\ StartChain(t, u) /\ StartQuiet(t, u)
          /\ MiddleChain(t, u) /\ MiddleAbove(t, u)
      BY <1>8 DEF Lower, Aimed, StartChain, StartQuiet, MiddleChain,
         MiddleAbove
    <2>3. CrossAt(t, u) /\ CrossAmid(t, u) /\ NoFirst(t)
      BY <1>8, <1>9 DEF CrossAt, CrossAmid, NoFirst
    <2>4. /\ LedIntact(t, u) /\ LedBeyond(t, u) /\ LedClosing(t, u)
          /\ LedQuiet(t, u)
      BY <1>9 DEF LedIntact, LedBeyond, LedClosing, LedQuiet, Led
    <2>5. QED BY <2>1, <2>2, <2>3, <2>4 DEF Order
  <1>11. QED BY <1>3, <1>4, <1>5, <1>6, <1>7, <1>10 DEF Overlap, Base

(* The proof that nothing changes when the variables do not. *)
LEMMA OverlapStays ==
  ASSUME Overlap, UNCHANGED vars
  PROVE  Overlap'
  <1>1. /\ UNCHANGED <<list, info, super, task, mounts>>
        /\ Base
    BY DEF vars, Overlap
  <1> USE <1>1
  <1>2. SuperKnown' /\ SuperNew' /\ FirstFree' /\ ListKnown' /\ InfoNew' /\ SbKnown'
    BY DEF FirstFree, InfoNew, ListKnown, SbKnown, SuperKnown, SuperNew, Base
  <1>3. Kept' /\ Apart' /\ Unmade' /\ MountNew' /\ InfosAhead' /\ SupersAhead'
    BY DEF Alive, Apart, InfosAhead, Kept, MountNew, Opening, SupersAhead,
           Unmade, Base
  <1>4. Closed' /\ AtOwn' /\ OwnApart' /\ OwnBusy'
    BY DEF AtOwn, Closed, Closing, Level, Opening, Own, OwnApart, OwnBusy, Base
  <1>5. FillLocked' /\ FillUnknown' /\ OpenedBy' /\ OpenedUnused'
    BY DEF Alive, FillLocked, FillUnknown, OpenedBy, OpenedUnused, Stale,
           Unused, Base
  <1>6. MineListed' /\ MineUnused' /\ OneBeyond' /\ Seen'
    BY DEF Alive, Beyond, MineListed, MineUnused, OneBeyond, OneOf, Opening,
           Seen, Unused, Base
  <1>7. Base'
    BY <1>2, <1>3, <1>4, <1>5, <1>6, Zenon DEF Base
  <1>8. \A v \in Tasks : Gone(v)' <=> Gone(v)
    BY DEF Gone, Closing, Alive
  <1>9. /\ Living' = Living /\ Returned' = Returned /\ Armed' = Armed
        /\ Found' = Found /\ AtLast' = AtLast /\ (Sterile' <=> Sterile)
        /\ (LastStale' <=> LastStale)
    BY DEF Living, Returned, Armed, Found, AtLast, Sterile, LastStale, Stale,
       Alive
  <1>10. ASSUME NEW t \in Tasks, NEW u \in Tasks, Order(t, u)
        PROVE  Order(t, u)'
    <2>1. FoundBeyond(t)' /\ FoundClosing(t)' /\ LastLost(t, u)' /\
          Rising(t)' /\ Lower(t, u)' /\ Aimed(u)'
      BY <1>9, <1>10 DEF Above, Aimed, Amid, Beyond, Closing, FoundBeyond,
                         FoundClosing, LastLost, Level, Lower, Opening, Rising,
                         Starting, Taking, Order
    <2>2. StartChain(t, u)' /\ StartQuiet(t, u)' /\ MiddleChain(t, u)' /\
          MiddleAbove(t, u)'
      BY <1>9, <1>10 DEF Above, Amid, Beyond, Chain, Closing, Cut, Early,
                         Level, MiddleAbove, MiddleChain, Opening, StartChain,
                         StartQuiet, Starting, Order
    <2>3. CrossAt(t, u)' /\ CrossAmid(t, u)' /\ NoFirst(t)'
      BY <1>9, <1>10 DEF Amid, Closing, CrossAmid, CrossAt, Level, NoFirst,
                         Starting, Taking, Order
    <2>4. LedIntact(t, u)' /\ LedBeyond(t, u)' /\ LedClosing(t, u)' /\
          LedQuiet(t, u)'
      BY <1>9, <1>10 DEF Beyond, Closing, Early, Led, LedBeyond, LedClosing,
                         LedIntact, LedQuiet, Level, Opening, Untaken, Waiting,
                         Order
    <2>5. QED BY <2>1, <2>2, <2>3, <2>4 DEF Order
  <1>11. QED BY <1>7, <1>8, <1>10 DEF Overlap

LEMMA OverlapStep ==
  TwoTasks /\ TypeInv /\ TypeInv' /\ Overlap /\ [Next]_vars => Overlap'
  <1> SUFFICES ASSUME TwoTasks, TypeInv, TypeInv', Overlap, [Next]_vars
               PROVE  Overlap'
    OBVIOUS
  <1>1. Shapes /\ Shapes' /\ Base
    BY ShapesOf, ShapesAfter DEF Overlap
  <1>2. CASE UNCHANGED vars
    BY <1>2, OverlapStays
  <1>3. ASSUME NEW t \in Tasks, MountCall(t)
        PROVE  Overlap'
    BY <1>1, <1>3, MountCallDoes, StepMountCall
  <1>4. ASSUME NEW t \in Tasks, Alloc(t)
        PROVE  Overlap'
    BY <1>1, <1>4, AllocDoes, StepAlloc
  <1>5. ASSUME NEW t \in Tasks, AllocFails(t)
        PROVE  Overlap'
    BY <1>1, <1>5, AllocFailsDoes, StepAllocFails
  <1>6. ASSUME NEW t \in Tasks, OpenDevices(t) \/ OpenFails(t)
        PROVE  Overlap'
    BY <1>1, <1>6, OpenDoes, StepOpen, StepOops
  <1>7. ASSUME NEW t \in Tasks, Sget(t)
        PROVE  Overlap'
    BY <1>1, <1>7, SgetDoes, StepSgetNew, StepSgetOld, StepOops
  <1>8. ASSUME NEW t \in Tasks, Fill(t)
        PROVE  Overlap'
    <2>1. PICK s \in Ids, i \in Ids : DidFillNext(t, s, i) \/ DidFillLast(t, s, i)
      BY <1>1, <1>8, FillDoes
    <2>2. QED BY <1>1, <2>1, StepFillNext, StepFillLast
  <1>9. ASSUME NEW t \in Tasks, SetupBdiFails(t) \/ OpenCtreeFails(t)
        PROVE  Overlap'
    <2>1. PICK s \in Ids, i \in Ids : DidFillFail(t, s, i)
      BY <1>1, <1>9, FillFailDoes
    <2>2. QED BY <1>1, <2>1, StepFillFail
  <1>10. ASSUME NEW t \in Tasks, NEW s \in Ids, Unmount(t, s)
         PROVE  Overlap'
    BY <1>1, <1>10, UnmountDoes, StepUnmount
  <1>11. ASSUME NEW t \in Tasks, Compare(t)
         PROVE  Overlap'
    BY <1>1, <1>11, CompareDoes, StepCompareHit, StepCompareNext, StepOops
  <1>12. ASSUME NEW t \in Tasks, UmountMultiple(t)
         PROVE  Overlap'
    <2>1. CASE DidOops(t) \/ DidUmountSkip(t, task[t].part)
      BY <1>1, <2>1, StepOops, StepUmountSkip
    <2>2. CASE \E s \in Ids : DidUmountKill(t, task[t].part, s)
      BY <1>1, <2>2, StepUmountKill
    <2>3. QED BY <1>1, <1>12, <2>1, <2>2, UmountDoes
  <1>13. ASSUME NEW t \in Tasks, Killed(t)
         PROVE  Overlap'
    <2>1. CASE DidOops(t)
      BY <1>1, <2>1, StepOops
    <2>2. CASE \E s, i \in Ids : DidKilled(t, s, i)
      BY <1>1, <2>2, StepKilled
    <2>3. QED BY <1>1, <1>13, <2>1, <2>2, KilledDoes
  <1>14. QED BY <1>2, <1>3, <1>4, <1>5, <1>6, <1>7, <1>8, <1>9, <1>10, <1>11,
                <1>12, <1>13 DEF Next

(* For any two tasks, any number of partitions and of mounts, and whatever *)
(* fails: btrfs_mount_root does not free the fs_info of a super block that *)
(* is in use, though it follows entries of global_fs_info_list that other  *)
(* mounts replace.                                                         *)
THEOREM InfoOutlives == Spec => []InfoOutlivesSuper
  <1> DEFINE OverlapInv == TypeInv /\ (TwoTasks => Overlap)
  <1>1. Init => OverlapInv
    BY TypeInit, OverlapInit
  <1>2. OverlapInv /\ [Next]_vars => OverlapInv'
    <2>1. TwoTasks' <=> TwoTasks
      BY DEF TwoTasks
    <2>2. QED BY <2>1, TypeStep, OverlapStep
  <1>3. OverlapInv => InfoOutlivesSuper
    BY DEF InfoOutlivesSuper, Overlap, Base, Kept
  <1>4. QED BY <1>1, <1>2, <1>3, PTL DEF Spec
=============================================================================
