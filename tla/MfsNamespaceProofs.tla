------------------------ MODULE MfsNamespaceProofs ------------------------
(***************************************************************************)
(* The numbers that directories hand out, for any tasks, directories and   *)
(* files.                                                                  *)
(*                                                                         *)
(* A directory of partition 0 is locked by the VFS, so one task at a time  *)
(* counts it up; LocalInv says that all numbers in use, in the tree or in  *)
(* the delayed node, are below the counter, also after it was read again,  *)
(* and what a shadow may have in dir_index.  The root directory of a       *)
(* remote partition is counted by the one task that has the current        *)
(* directory (RemoteInv).  Both counters are bounded by the creates so     *)
(* far, so that they do not wrap.                                          *)
(***************************************************************************)
EXTENDS MfsNamespace, FiniteSetTheorems, WellFoundedInduction, TLAPS

In(t, d) == task[t].pc # "idle" /\ DirOf(task[t].file) = d
Remote(t) == task[t].n % Parts

Early == {"count", "local", "path", "shadow"}
RemotePoints == {"path", "shadow", "index", "count remote", "link"}
CwdPoints == {"shadow", "index", "count remote", "link"}
Numbered == {"count remote", "link"}

CallInv ==
  /\ \A t \in Tasks :
       /\ task[t].pc # "idle" => task[t].file \in Files
       /\ task[t].pc \in RemotePoints => Remote(t) \in Roots
       /\ task[t].pc \in Numbered => task[t].index \in 0 .. NotLoaded
  /\ \A t, u \in Tasks : \A d \in Dirs : In(t, d) /\ In(u, d) => t = u

(* Creates that have counted but not read yet, and that have not taken a   *)
(* number from a remote directory yet.                                     *)
Counting == {t \in Tasks : task[t].pc = "count"}
Waiting == {t \in Tasks : task[t].pc \in Early \cup {"index"}}

(* The k-th create that reads the count finds k or, for every other task,  *)
(* one more.                                                               *)
CountInv ==
  /\ created = Len(placed) + Cardinality(Counting)
  /\ \A k \in 1 .. Len(placed) : placed[k] \in k .. k + Cardinality(Tasks) - 1
  /\ Cardinality(Waiting) <= created

TypeInv == NamespaceTypeOK /\ CallInv /\ CountInv

(* A linked file has a number, and has it in memory while it has a dentry, *)
(* as it does during a call.                                               *)
CacheInv ==
  /\ \A f \in Files : file[f].linked =>
       /\ file[f].ref # NoIndex
       /\ file[f].dentry # "none" => file[f].cached # NoIndex
  /\ \A t \in Tasks : task[t].pc # "idle" => file[task[t].file].dentry # "none"

-----------------------------------------------------------------------------
(* A create counts the directory of the caller up twice at most.           *)
Below(d, x) ==
  /\ x <= 2 + 2 * created
  /\ \A t \in Tasks : In(t, d) =>
       /\ task[t].pc \in Early => x + 2 <= 2 + 2 * created
       /\ task[t].pc = "index" => x + 1 <= 2 + 2 * created

(* The items of a directory, whether they were flushed or not.             *)
All(d) == items[d] \cup node[d].ins
Past(d, x) == 2 <= x /\ Below(d, x) /\ \A y \in All(d) : y.index < x

(* What is queued is above all that is in the tree.                        *)
Ordered(d) == \A x \in items[d], y \in node[d].ins : x.index < y.index

InUse(d) ==
  /\ \A x \in All(d) : 2 <= x.index /\ Below(d, x.index + 1)
  /\ \A x, y \in All(d) : x.index = y.index => x = y
  /\ Ordered(d)
  /\ counter[d] # NotLoaded => Past(d, counter[d])
  /\ node[d].cnt # 0 => Past(d, node[d].cnt)
  /\ node[d].ins # {} => node[d].cnt # 0

(* What unlink has deleted or will delete in place of a shadow's number.   *)
Passed(d) == counter[d] # NotLoaded => \A k \in Phantoms(d) : k < counter[d]

(* A linked file has its item, which is not to be deleted, and unlinking   *)
(* it deletes under a number that is neither deleted already nor the       *)
(* number of another file, in its ref or in its inode in memory.           *)
Known(f) ==
  LET d == DirOf(f) IN
  file[f].linked =>
    /\ [index |-> file[f].ref, file |-> f] \in All(d)
    /\ file[f].ref \notin node[d].del
    /\ file[f].cached = NoIndex \/ file[f].cached \notin node[d].del
    /\ \A g \in Files : DirOf(g) = d /\ file[g].linked /\ g # f =>
         file[g].cached = NoIndex \/ file[g].cached \notin {file[f].ref, file[f].cached}

LocalInv(d) ==
  /\ aborted[d] = "no"
  /\ InUse(d)
  /\ Passed(d)
  /\ \A f \in Files : DirOf(f) = d => Known(f)

-----------------------------------------------------------------------------
OneCwd == \A t, u \in Tasks : Cwd[t] = Cwd[u]

CwdInv == \A t, u \in Tasks :
            task[t].pc \in CwdPoints /\ task[u].pc \in CwdPoints => t = u

(* No number in the directory is x or will be soon after it.               *)
Fresh(r, x) ==
  IF x = NotLoaded THEN All(r) = {}
  ELSE \A y \in All(r) : y.index = NotLoaded \/ y.index < x

Small(x) == x + Cardinality(Waiting) <= 2 + created

(* The numbers that are queued differ, from those in the tree too.         *)
Apart(r) ==
  /\ \A x \in items[r], y \in node[r].ins : x.index # y.index
  /\ \A x, y \in node[r].ins : x.index = y.index => x = y

RemoteInv(r) ==
  /\ aborted[r] # "index"
  /\ node[r].del = {}
  /\ Apart(r)
  /\ Fresh(r, counter[r])
  /\ counter[r] # NotLoaded => Small(counter[r])
  /\ \A y \in All(r) : y.index # NotLoaded => Small(y.index + 1)
  /\ \A t \in Tasks : task[t].pc \in Numbered /\ Remote(t) = r =>
       LET i == task[t].index IN
       /\ Fresh(r, i)
       /\ i # NotLoaded => Small(i + 1)
       /\ counter[r] = IF task[t].pc = "link" THEN Plus1(i) ELSE i

RemotesInv ==
  ~remounted /\ OneCwd => CwdInv /\ \A r \in Roots \ tainted : RemoteInv(r)

IInv ==
  /\ TypeInv
  /\ CacheInv
  /\ \A d \in Dirs \ tainted : LocalInv(d)
  /\ RemotesInv

-----------------------------------------------------------------------------
(***************************************************************************)
(* Constants, counters and finite sets                                     *)
(***************************************************************************)
LEMMA Facts ==
  /\ IsFiniteSet(Tasks) /\ Parts \in Nat /\ Parts > 1 /\ MaxCreates \in Nat
  /\ Width \in Nat /\ Width > 2 * MaxCreates + 4
  /\ NotLoaded \in Nat /\ NotLoaded = Width - 1 /\ NoIndex = Width
  /\ START_INDEX = 2 /\ START_INDEX \in 0 .. NotLoaded /\ MaxEvents \in Nat
  /\ \A f \in Files : DirOf(f) \in Dirs /\ NameOf(f) \in Names
                      /\ DirOf(f) \in Indexed
  /\ \A d \in Dirs : d \in Indexed /\ d \notin Roots
  /\ \A r \in Roots : r \in Indexed
  BY NamespaceAssumption
     DEF NotLoaded, NoIndex, START_INDEX, DirOf, NameOf, Indexed, Roots

LEMMA PlusOne ==
  /\ \A x \in 0 .. Width : Plus1(x) \in 0 .. NotLoaded
  /\ \A x \in Nat : x < NotLoaded => Plus1(x) = x + 1
  /\ Plus1(NotLoaded) = 0
  BY Facts DEF Plus1

LEMMA OneRound ==
  ASSUME NEW w \in Nat, NEW x \in Nat, x < w
  PROVE  (x + w) % w = x
  OBVIOUS

LEMMA MinusOne ==
  ASSUME NEW x \in 0 .. NotLoaded
  PROVE  (Plus1(x) + Width - 1) % Width = x
  <1>1. CASE x = NotLoaded
    BY <1>1, PlusOne, Facts
  <1>2. CASE x # NotLoaded
    <2>1. Plus1(x) + Width - 1 = x + Width /\ x < Width /\ x \in Nat
      BY <1>2, PlusOne, Facts
    <2>2. (x + Width) % Width = x
      BY <2>1, Facts, OneRound
    <2>3. QED BY <2>1, <2>2
  <1>3. QED BY <1>1, <1>2

LEMMA LargestExists ==
  ASSUME NEW n \in Nat, NEW S \in SUBSET (0 .. n), S # {}
  PROVE  \E k \in S : \A m \in S : m <= k
  <1> DEFINE Above(x) == {m \in S : m > x}
             T == {Above(x) : x \in S}
             R == StrictSubsetOrdering(S)
  <1>1. IsFiniteSet(S)
    <2>1. IsFiniteSet(0 .. n)
      BY FS_Interval
    <2>2. QED BY <2>1, FS_Subset, Zenon
  <1>2. T \subseteq FiniteSubsetsOf(S) /\ T # {}
    <2>1. ASSUME NEW x \in S PROVE Above(x) \in FiniteSubsetsOf(S)
      <3>1. Above(x) \in SUBSET S
        OBVIOUS
      <3>2. IsFiniteSet(Above(x))
        <4> HIDE DEF Above
        <4> QED BY <1>1, <3>1, FS_Subset, Zenon
      <3>3. QED BY <3>1, <3>2, Zenon DEF FiniteSubsetsOf
    <2>2. QED BY <2>1
  <1>3. IsWellFoundedOn(R, FiniteSubsetsOf(S))
    BY FS_StrictSubsetOrderingWellFounded
  <1>4. PICK X \in T : \A Y \in T : ~(<<Y, X>> \in R)
    <2> HIDE DEF T, R
    <2> QED BY <1>2, <1>3, WFMin
  <1>5. PICK x \in S : X = Above(x)
    BY <1>4
  <1>6. ASSUME NEW y \in S, y > x
        PROVE  FALSE
    <2>1. Above(y) \in SUBSET S /\ Above(x) \in SUBSET S
      OBVIOUS
    <2>2. Above(y) \subseteq Above(x)
      <3>1. ASSUME NEW m \in S, m > y PROVE m > x
        <4>1. m \in Int /\ y \in Int /\ x \in Int
          OBVIOUS
        <4>2. QED BY <1>6, <3>1, <4>1
      <3>2. QED BY <3>1
    <2>3. y \in Above(x) /\ y \notin Above(y)
      BY <1>6
    <2>4. <<Above(y), Above(x)>> \in R
      <3> HIDE DEF Above
      <3> QED BY <2>1, <2>2, <2>3 DEF StrictSubsetOrdering
    <2>5. QED BY <1>4, <1>5, <2>4
  <1>7. QED BY <1>6

(* The first free number is one more than the largest in use.              *)
LEMMA FirstFreeIs ==
  ASSUME NamespaceTypeOK, NEW d \in Indexed
  PROVE  /\ FirstFree(d) \in 0 .. NotLoaded
         /\ items[d] = {} => FirstFree(d) = 2
         /\ InTree(d, NotLoaded) => FirstFree(d) = counter[d]
         /\ items[d] # {} /\ ~InTree(d, NotLoaded) =>
              \E k \in items[d] : /\ FirstFree(d) = Plus1(k.index)
                                  /\ \A y \in items[d] : y.index <= k.index
  <1>1. CASE items[d] = {}
    BY <1>1, Facts DEF FirstFree, InTree
  <1>2. CASE InTree(d, NotLoaded)
    <2>1. items[d] # {} /\ FirstFree(d) = counter[d]
      BY <1>2 DEF FirstFree, InTree
    <2>2. QED BY <1>2, <2>1 DEF NamespaceTypeOK
  <1>3. CASE items[d] # {} /\ ~InTree(d, NotLoaded)
    <2> DEFINE S == {i.index : i \in items[d]}
    <2>1. \A i \in items[d] : i.index \in 0 .. NotLoaded
      BY DEF NamespaceTypeOK, Item
    <2>2. S \in SUBSET (0 .. NotLoaded) /\ S # {}
      BY <1>3, <2>1
    <2>3. Max(S) \in S /\ \A m \in S : Max(S) >= m
      <3> HIDE DEF S
      <3>1. PICK k \in S : \A m \in S : m <= k
        BY <2>2, Facts, LargestExists
      <3>2. \A m \in S : k >= m
        BY <3>1, <2>2, Facts
      <3>3. QED BY <3>1, <3>2, Zenon DEF Max
    <2>4. PICK k \in items[d] : Max(S) = k.index
      BY <2>3
    <2>5. \A y \in items[d] : y.index <= k.index
      <3>1. TAKE y \in items[d]
      <3>2. Max(S) >= y.index
        BY <2>3
      <3>3. QED BY <3>2, <2>4, <2>1, Facts
    <2>6. FirstFree(d) = Plus1(k.index)
      BY <1>3, <2>4 DEF FirstFree
    <2>7. QED BY <1>3, <2>5, <2>6, <2>1, PlusOne, Facts
  <1>4. QED BY <1>1, <1>2, <1>3

LEMMA LoadedIs ==
  ASSUME NamespaceTypeOK, NEW d \in Indexed
  PROVE  Loaded(d) \in 0 .. NotLoaded
  BY FirstFreeIs DEF Loaded, NamespaceTypeOK, DelayedNode

LEMMA CardStep ==
  ASSUME NEW S \in SUBSET Tasks, NEW T \in SUBSET Tasks, NEW t \in Tasks,
         \A u \in Tasks : u # t => (u \in S <=> u \in T)
  PROVE  /\ Cardinality(S) \in Nat /\ Cardinality(T) \in Nat
         /\ (t \in S <=> t \in T) => Cardinality(T) = Cardinality(S)
         /\ t \in T /\ t \notin S => Cardinality(T) = Cardinality(S) + 1
         /\ t \in S /\ t \notin T => /\ Cardinality(T) = Cardinality(S) - 1
                                     /\ Cardinality(S) >= 1
  <1>1. IsFiniteSet(S) /\ IsFiniteSet(T)
    BY Facts, FS_Subset, Zenon
  <1>2. Cardinality(S) \in Nat /\ Cardinality(T) \in Nat
    BY <1>1, FS_CardinalityType
  <1>3. ASSUME t \in S <=> t \in T PROVE Cardinality(T) = Cardinality(S)
    <2>1. S = T
      BY <1>3
    <2>2. QED BY <2>1
  <1>4. ASSUME t \in T, t \notin S PROVE Cardinality(T) = Cardinality(S) + 1
    <2>1. T = S \cup {t}
      BY <1>4
    <2>2. QED BY <1>1, <1>4, <2>1, FS_AddElement
  <1>5. ASSUME t \in S, t \notin T
        PROVE  Cardinality(T) = Cardinality(S) - 1 /\ Cardinality(S) >= 1
    <2>1. S = T \cup {t}
      BY <1>5
    <2>2. Cardinality(S) = Cardinality(T) + 1
      BY <1>1, <1>5, <2>1, FS_AddElement
    <2>3. QED BY <2>2, <1>2
  <1>6. QED BY <1>2, <1>3, <1>4, <1>5

-----------------------------------------------------------------------------
(***************************************************************************)
(* Types, the locks of the directories and the counts of the calls         *)
(***************************************************************************)
LEMMA QueueItemIs ==
  ASSUME node \in [Indexed -> DelayedNode], NEW d \in Indexed, NEW x \in Item,
         Plus1(x.index) \in 0 .. NotLoaded, node' = QueueItem(d, x)
  PROVE  /\ node' \in [Indexed -> DelayedNode]
         /\ node'[d].ins = node[d].ins \cup {x} /\ node'[d].del = node[d].del
         /\ node'[d].cnt = IF x.index >= node[d].cnt THEN Plus1(x.index) ELSE node[d].cnt
         /\ \A e \in Indexed : e # d => node'[e] = node[e]
  <1>1. PICK I : I = node[d].ins \cup {x}
    OBVIOUS
  <1>2. PICK c : c = IF x.index >= node[d].cnt THEN Plus1(x.index) ELSE node[d].cnt
    OBVIOUS
  <1>3. node[d] \in DelayedNode /\ I \in SUBSET Item /\ c \in 0 .. NotLoaded
    BY <1>1, <1>2 DEF DelayedNode
  <1>4. node' = [node EXCEPT ![d].ins = I, ![d].cnt = c]
    BY <1>1, <1>2 DEF QueueItem, DelayedNode
  <1>5. node'[d] = [node[d] EXCEPT !.ins = I, !.cnt = c]
    BY <1>4
  <1>6. /\ node'[d] \in DelayedNode /\ node'[d].ins = I /\ node'[d].cnt = c
        /\ node'[d].del = node[d].del
    BY <1>3, <1>5 DEF DelayedNode
  <1>7. node' \in [Indexed -> DelayedNode]
    BY <1>4, <1>6
  <1>8. \A e \in Indexed : e # d => node'[e] = node[e]
    BY <1>4
  <1>9. QED BY <1>1, <1>2, <1>6, <1>7, <1>8

StateType ==
  /\ counter \in [Indexed -> 0 .. NotLoaded]
  /\ items \in [Indexed -> SUBSET Item]
  /\ node \in [Indexed -> DelayedNode]
  /\ names \in [Roots -> SUBSET Names]
  /\ aborted \in [Indexed -> {"no", "name", "index"}]
  /\ file \in [Files -> Entry]

LEMMA StateTypeOf == NamespaceTypeOK => StateType
  BY DEF NamespaceTypeOK, StateType

LEMMA LinkLocalType ==
  ASSUME NamespaceTypeOK, NEW f \in Files, LinkLocal(f)
  PROVE  StateType' /\ tainted' \subseteq Indexed
  <1> DEFINE d == DirOf(f)
             i == Loaded(d)
  <1>1. d \in Indexed /\ i \in 0 .. NotLoaded /\ Plus1(i) \in 0 .. NotLoaded
        /\ i \in 0 .. Width
    <2>1. d \in Indexed
      BY Facts
    <2>2. i \in 0 .. NotLoaded
      BY <2>1, LoadedIs
    <2>3. i \in 0 .. Width
      BY <2>2, Facts
    <2>4. QED BY <2>1, <2>2, <2>3, PlusOne
  <1>2. PICK di, ii : di = d /\ ii = i
    OBVIOUS
  <1>3. PICK x : x = [index |-> ii, file |-> f]
    OBVIOUS
  <1>4. x \in Item /\ x.index = ii
    BY <1>1, <1>2, <1>3 DEF Item
  <1>5. /\ counter' = [counter EXCEPT ![di] = Plus1(ii)] /\ names' = names /\ items' = items
        /\ \/ /\ aborted' = [aborted EXCEPT ![di] = "index"]
              /\ node' = node /\ file' = file
           \/ /\ node' = QueueItem(di, x)
              /\ file' = [file EXCEPT ![f] = [@ EXCEPT !.linked = TRUE, !.ref = ii,
                                                       !.cached = ii]]
              /\ aborted' = aborted
    BY <1>2, <1>3 DEF LinkLocal
  <1>6. counter' \in [Indexed -> 0 .. NotLoaded]
    BY <1>1, <1>2, <1>5 DEF NamespaceTypeOK
  <1>7. aborted' \in [Indexed -> {"no", "name", "index"}]
    BY <1>5 DEF NamespaceTypeOK
  <1>8. node' \in [Indexed -> DelayedNode]
    BY <1>1, <1>2, <1>4, <1>5, QueueItemIs DEF NamespaceTypeOK
  <1>9. file' \in [Files -> Entry]
    <2>1. PICK e : e = [file[f] EXCEPT !.linked = TRUE, !.ref = ii, !.cached = ii]
      OBVIOUS
    <2>2. file[f] \in Entry /\ ii \in 0 .. Width
      BY <1>1, <1>2 DEF NamespaceTypeOK
    <2>3. e \in Entry
      BY <2>1, <2>2 DEF Entry
    <2>4. file' = file \/ file' = [file EXCEPT ![f] = e]
      BY <1>5, <2>1
    <2>5. QED BY <2>3, <2>4 DEF NamespaceTypeOK
  <1>10. tainted' \subseteq Indexed
    BY <1>1 DEF LinkLocal, NamespaceTypeOK
  <1>11. QED BY <1>5, <1>6, <1>7, <1>8, <1>9, <1>10 DEF StateType, NamespaceTypeOK

LEMMA LinkOrFailType ==
  ASSUME NamespaceTypeOK, NEW f \in Files, LinkOrFail(f)
  PROVE  StateType' /\ events' \in 0 .. MaxEvents /\ tainted' \subseteq Indexed
  <1>1. CASE LinkLocal(f) /\ events' = events
    BY <1>1, LinkLocalType DEF NamespaceTypeOK
  <1>2. CASE dirVars' = dirVars /\ file' = file /\ tainted' = tainted
    <2>1. StateType'
      BY <1>2, StateTypeOf DEF StateType, dirVars
    <2>2. events' = events \/ (events < MaxEvents /\ events' = events + 1)
      BY DEF LinkOrFail, Counted
    <2>3. events \in 0 .. MaxEvents /\ MaxEvents \in Nat
      BY Facts DEF NamespaceTypeOK
    <2>4. QED BY <1>2, <2>1, <2>2, <2>3 DEF NamespaceTypeOK
  <1>3. QED BY <1>1, <1>2 DEF LinkOrFail

(* The parts of TypeInv about the calls and their counts.                  *)
TaskType ==
  /\ created \in 0 .. MaxCreates
  /\ placed \in Seq(1 .. MaxCreates)
  /\ task \in [Tasks -> Call]

RestType ==
  events \in 0 .. MaxEvents /\ remounted \in BOOLEAN /\ tainted \subseteq Indexed

LEMMA TypeParts == NamespaceTypeOK <=> StateType /\ TaskType /\ RestType
  BY DEF NamespaceTypeOK, StateType, TaskType, RestType

(* A step of the call of t that neither starts it nor places its file.     *)
Onward(t) ==
  /\ created' = created /\ placed' = placed
  /\ task' = [task EXCEPT ![t] = task'[t]] /\ task'[t] \in Call
  /\ task[t].pc \notin {"idle", "count"} /\ task'[t].pc # "count"
  /\ task'[t].pc # "idle" => /\ task'[t].file = task[t].file
                             /\ task'[t].n = task[t].n
                             /\ task[t].pc \in RemotePoints
                             /\ task[t].pc \notin Early => task'[t].pc \in Numbered
  /\ task'[t].pc \in Numbered => task'[t].index \in 0 .. NotLoaded

LEMMA OnwardType ==
  ASSUME TypeInv, NEW t \in Tasks, Onward(t)
  PROVE  TaskType' /\ CallInv' /\ CountInv'
  <1>1. TaskType'
    BY DEF TaskType, TypeInv, NamespaceTypeOK, Onward
  <1>2. \A u \in Tasks : u # t => task'[u] = task[u]
    BY DEF Onward, TypeInv, NamespaceTypeOK
  <1>3. CallInv'
    <2>1. \A u \in Tasks : \A d \in Dirs : In(u, d)' => In(u, d)
      BY <1>2 DEF Onward, In
    <2>2. \A u \in Tasks :
            /\ task'[u].pc # "idle" => task'[u].file \in Files
            /\ task'[u].pc \in RemotePoints => Remote(u)' \in Roots
            /\ task'[u].pc \in Numbered => task'[u].index \in 0 .. NotLoaded
      BY <1>2 DEF Onward, CallInv, TypeInv, Remote, RemotePoints
    <2>3. QED BY <2>1, <2>2 DEF CallInv, TypeInv
  <1>4. Cardinality(Counting') = Cardinality(Counting)
    <2>1. Counting' = Counting
      BY <1>2 DEF Counting, Onward
    <2>2. QED BY <2>1
  <1>5. Cardinality(Waiting') <= Cardinality(Waiting)
    <2>1. Waiting \in SUBSET Tasks /\ Waiting' \in SUBSET Tasks
      BY DEF Waiting
    <2>2. \A u \in Tasks : u # t => (u \in Waiting <=> u \in Waiting')
      BY <1>2 DEF Waiting
    <2>3. t \in Waiting' => t \in Waiting
      BY DEF Waiting, Onward, Numbered, Early
    <2>4. QED BY <2>1, <2>2, <2>3, CardStep
  <1>6. CountInv'
    <2>1. Cardinality(Waiting) \in Int /\ Cardinality(Waiting') \in Int
      <3>1. Waiting \in SUBSET Tasks /\ Waiting' \in SUBSET Tasks
        BY DEF Waiting
      <3>2. IsFiniteSet(Waiting) /\ IsFiniteSet(Waiting')
        BY <3>1, Facts, FS_Subset, Zenon
      <3>3. QED BY <3>2, FS_CardinalityType
    <2>2. Cardinality(Waiting') <= created'
      BY <1>5, <2>1 DEF CountInv, TypeInv, Onward, TaskType, NamespaceTypeOK
    <2>3. placed' = placed /\ created' = created
      BY DEF Onward
    <2>4. QED BY <1>4, <2>2, <2>3 DEF CountInv, TypeInv
  <1>7. QED BY <1>1, <1>3, <1>6

LEMMA CallIs ==
  ASSUME TypeInv, NEW t \in Tasks
  PROVE  /\ task[t] \in Call
         /\ task[t].pc # "idle" => /\ task[t].file \in Files
                                   /\ DirOf(task[t].file) \in Dirs
                                   /\ DirOf(task[t].file) \in Indexed
         /\ task[t].pc \in RemotePoints => Remote(t) \in Roots /\ Remote(t) \in Indexed
  BY Facts DEF TypeInv, CallInv, NamespaceTypeOK

LEMMA ReturnIsOnward ==
  ASSUME TypeInv, NEW t \in Tasks, Return(t), created' = created, placed' = placed,
         task[t].pc \notin {"idle", "count"}
  PROVE  Onward(t)
  <1>1. Idle \in Call /\ Idle.pc = "idle"
    BY Facts DEF Idle, Call
  <1>2. task'[t] = Idle
    BY DEF Return, TypeInv, NamespaceTypeOK
  <1>3. QED BY <1>1, <1>2 DEF Return, Onward, Numbered

LEMMA GotoIsOnward ==
  ASSUME TypeInv, NEW t \in Tasks, NEW pc, Goto(t, pc), created' = created, placed' = placed,
         \/ task[t].pc = "path" /\ pc = "shadow"
         \/ task[t].pc = "shadow" /\ pc = "index"
         \/ task[t].pc = "count remote" /\ pc = "link"
  PROVE  Onward(t)
  <1>1. task[t] \in Call
    BY CallIs
  <1>2. task'[t] = [task[t] EXCEPT !.pc = pc] /\ task' = [task EXCEPT ![t] = task'[t]]
    BY DEF Goto, TypeInv, NamespaceTypeOK
  <1>3. task'[t] \in Call
    BY <1>1, <1>2 DEF Call
  <1>4. task'[t].pc = pc /\ task'[t].file = task[t].file /\ task'[t].n = task[t].n
        /\ task'[t].index = task[t].index
    BY <1>1, <1>2 DEF Call
  <1>5. QED BY <1>2, <1>3, <1>4 DEF Onward, Numbered, RemotePoints, Early, TypeInv, CallInv

LEMMA CreateCallType ==
  ASSUME TypeInv, NEW t \in Tasks, NEW f \in Files, CreateCall(t, f)
  PROVE  TypeInv'
  <1>1. task'[t] = [Idle EXCEPT !.pc = "count", !.file = f]
        /\ task' = [task EXCEPT ![t] = task'[t]]
        /\ \A u \in Tasks : u # t => task'[u] = task[u]
    BY DEF CreateCall, TypeInv, NamespaceTypeOK
  <1>2. task'[t] \in Call /\ task'[t].pc = "count" /\ task'[t].file = f
    <2>1. Idle \in Call
      BY Facts DEF Idle, Call
    <2>2. PICK e \in Call : e = Idle
      BY <2>1
    <2>3. task'[t] = [e EXCEPT !.pc = "count", !.file = f]
      BY <1>1, <2>2
    <2>4. QED BY <2>3 DEF Call
  <1>3. created \in 0 .. MaxCreates /\ created' = created + 1 /\ created' \in 0 .. MaxCreates
    BY Facts DEF CreateCall, TypeInv, NamespaceTypeOK
  <1>4. NamespaceTypeOK'
    <2>1. TaskType'
      BY <1>1, <1>2, <1>3 DEF CreateCall, TaskType, TypeInv, NamespaceTypeOK
    <2>2. RestType'
      BY DEF CreateCall, history, RestType, TypeInv, NamespaceTypeOK
    <2>3. file' \in [Files -> Entry]
      BY DEF CreateCall, TypeInv, NamespaceTypeOK, Entry
    <2>4. StateType'
      BY <2>3 DEF CreateCall, dirVars, StateType, TypeInv, NamespaceTypeOK
    <2>5. QED BY <2>1, <2>2, <2>4, TypeParts, PTL
  <1>5. CallInv'
    <2>1. \A u \in Tasks : \A d \in Dirs : In(u, d)' /\ u # t => In(u, d) /\ d # DirOf(f)
      BY <1>1 DEF In, CreateCall, DirFree
    <2>2. \A d \in Dirs : In(t, d)' => d = DirOf(f)
      BY <1>2 DEF In
    <2>3. \A u \in Tasks :
            /\ task'[u].pc # "idle" => task'[u].file \in Files
            /\ task'[u].pc \in RemotePoints => Remote(u)' \in Roots
            /\ task'[u].pc \in Numbered => task'[u].index \in 0 .. NotLoaded
      BY <1>1, <1>2 DEF CallInv, TypeInv, Remote, RemotePoints, Numbered
    <2>4. QED BY <2>1, <2>2, <2>3 DEF CallInv, TypeInv
  <1>6. CountInv'
    <2>1. /\ Counting \in SUBSET Tasks /\ Counting' \in SUBSET Tasks
          /\ Waiting \in SUBSET Tasks /\ Waiting' \in SUBSET Tasks
      BY DEF Counting, Waiting
    <2>2. /\ t \notin Counting /\ t \in Counting' /\ t \notin Waiting /\ t \in Waiting'
          /\ \A u \in Tasks : u # t => /\ u \in Counting <=> u \in Counting'
                                       /\ u \in Waiting <=> u \in Waiting'
      BY <1>1, <1>2 DEF Counting, Waiting, CreateCall, Early
    <2>3. Cardinality(Counting') = Cardinality(Counting) + 1
          /\ Cardinality(Counting) \in Nat
      BY <2>1, <2>2, CardStep
    <2>4. Cardinality(Waiting') = Cardinality(Waiting) + 1
          /\ Cardinality(Waiting) \in Nat
      BY <2>1, <2>2, CardStep
    <2>5. placed' = placed /\ Len(placed) \in Nat
      BY DEF CreateCall, TypeInv, NamespaceTypeOK
    <2>6. \A k \in 1 .. Len(placed') : placed'[k] \in k .. k + Cardinality(Tasks) - 1
      BY <2>5 DEF CountInv, TypeInv
    <2>7. created' = Len(placed') + Cardinality(Counting')
      BY <1>3, <2>3, <2>5 DEF CountInv, TypeInv
    <2>8. Cardinality(Waiting') <= created'
      BY <1>3, <2>4 DEF CountInv, TypeInv
    <2>9. QED BY <2>6, <2>7, <2>8 DEF CountInv
  <1>7. QED BY <1>4, <1>5, <1>6 DEF TypeInv

LEMMA ReadCountType ==
  ASSUME TypeInv, NEW t \in Tasks, ReadCount(t)
  PROVE  TypeInv'
  <1> DEFINE next == IF created % Parts = 0 THEN "local" ELSE "path"
  <1>1. task[t] \in Call /\ task[t].pc = "count" /\ created \in 0 .. MaxCreates
        /\ task[t].file \in Files
    BY CallIs DEF ReadCount, TypeInv, NamespaceTypeOK
  <1>2. task'[t] = [task[t] EXCEPT !.n = created, !.pc = next]
        /\ task' = [task EXCEPT ![t] = task'[t]]
        /\ \A u \in Tasks : u # t => task'[u] = task[u]
    BY DEF ReadCount, TypeInv, NamespaceTypeOK
  <1>3. /\ task'[t] \in Call /\ task'[t].n = created /\ task'[t].file = task[t].file
        /\ task'[t].pc = next
    BY <1>1, <1>2 DEF Call
  <1>4. /\ next \in {"local", "path"}
        /\ next = "path" => created % Parts \in Roots
    BY <1>1, Facts DEF Roots
  <1> HIDE DEF next
  <1>5. /\ Counting \in SUBSET Tasks /\ Counting' \in SUBSET Tasks
        /\ Waiting \in SUBSET Tasks /\ Waiting' \in SUBSET Tasks
    BY DEF Counting, Waiting
  <1>6. /\ t \in Counting /\ t \notin Counting' /\ t \in Waiting /\ t \in Waiting'
        /\ \A u \in Tasks : u # t => /\ u \in Counting <=> u \in Counting'
                                     /\ u \in Waiting <=> u \in Waiting'
    BY <1>1, <1>2, <1>3, <1>4 DEF Counting, Waiting, Early
  <1>7. PICK c \in Nat : /\ Cardinality(Counting) = c /\ c >= 1
                         /\ Cardinality(Counting') = c - 1
    BY <1>5, <1>6, CardStep
  <1>8. Cardinality(Waiting') = Cardinality(Waiting)
    BY <1>5, <1>6, CardStep
  <1>9. created' = created /\ placed' = Append(placed, created)
        /\ placed \in Seq(1 .. MaxCreates)
    BY DEF ReadCount, TypeInv, NamespaceTypeOK
  <1>10. PICK l \in Nat : l = Len(placed)
    BY <1>9
  <1>11. created = l + c
    BY <1>7, <1>10 DEF TypeInv, CountInv
  <1>12. created \in 1 .. MaxCreates
    BY <1>1, <1>7, <1>10, <1>11, Facts
  <1>13. placed' \in Seq(1 .. MaxCreates) /\ Len(placed') = l + 1
         /\ placed'[l + 1] = created
         /\ \A k \in 1 .. l : placed'[k] = placed[k]
    BY <1>9, <1>10, <1>12
  <1>14. NamespaceTypeOK'
    <2>1. TaskType'
      BY <1>1, <1>2, <1>3, <1>9, <1>13 DEF TaskType, TypeInv, NamespaceTypeOK
    <2>2. StateType' /\ RestType'
      BY DEF ReadCount, dirVars, history, StateType, RestType, TypeInv, NamespaceTypeOK
    <2>3. QED BY <2>1, <2>2, TypeParts, PTL
  <1>15. CallInv'
    <2>1. \A u \in Tasks : \A d \in Dirs : In(u, d)' => In(u, d)
      BY <1>1, <1>2, <1>3 DEF In
    <2>2. \A u \in Tasks :
            /\ task'[u].pc # "idle" => task'[u].file \in Files
            /\ task'[u].pc \in RemotePoints => Remote(u)' \in Roots
            /\ task'[u].pc \in Numbered => task'[u].index \in 0 .. NotLoaded
      BY <1>1, <1>2, <1>3, <1>4 DEF CallInv, TypeInv, Remote, RemotePoints, Numbered
    <2>3. QED BY <2>1, <2>2 DEF CallInv, TypeInv
  <1>16. CountInv'
    <2>1. PICK n \in Nat : n = Cardinality(Tasks) /\ c <= n
      BY <1>5, <1>7, Facts, FS_CardinalityType, FS_Subset
    <2>2. \A k \in 1 .. l : placed[k] \in k .. k + n - 1
      BY <1>10, <2>1 DEF CountInv, TypeInv
    <2>3. \A k \in 1 .. l + 1 : placed'[k] \in k .. k + n - 1
      <3>1. TAKE k \in 1 .. l + 1
      <3>2. CASE k = l + 1
        <4>1. created \in l + 1 .. l + 1 + n - 1
          BY <1>7, <1>11, <2>1
        <4>2. QED BY <1>13, <3>2, <4>1
      <3>3. CASE k \in 1 .. l
        BY <1>13, <2>2, <3>3
      <3>4. QED BY <3>2, <3>3
    <2>4. created' = (l + 1) + (c - 1)
      BY <1>7, <1>9, <1>11
    <2>5. QED BY <1>7, <1>8, <1>9, <1>13, <2>1, <2>3, <2>4 DEF CountInv, TypeInv
  <1>17. QED BY <1>14, <1>15, <1>16 DEF TypeInv

(* A step that leaves the calls alone.                                     *)
Elsewhere ==
  created' = created /\ placed' = placed /\ task' = task

LEMMA ElsewhereType ==
  ASSUME TypeInv, Elsewhere
  PROVE  TaskType' /\ CallInv' /\ CountInv'
  <1>1. TaskType'
    BY DEF Elsewhere, TaskType, TypeInv, NamespaceTypeOK
  <1>2. CallInv'
    BY DEF Elsewhere, TypeInv, CallInv, In, Remote
  <1>3. Counting' = Counting /\ Waiting' = Waiting
    BY DEF Elsewhere, Counting, Waiting
  <1>4. CountInv'
    BY <1>3 DEF CountInv, Elsewhere, TypeInv
  <1>5. QED BY <1>1, <1>2, <1>4

LEMMA TypeFrom ==
  ASSUME TaskType', CallInv', CountInv', StateType', RestType'
  PROVE  TypeInv'
  BY TypeParts, PTL DEF TypeInv

LEMMA CreateLocalType ==
  ASSUME TypeInv, NEW t \in Tasks, CreateLocal(t)
  PROVE  TypeInv' /\ Onward(t)
  <1>1. Onward(t)
    BY ReturnIsOnward DEF CreateLocal
  <1>2. StateType' /\ events' \in 0 .. MaxEvents /\ tainted' \subseteq Indexed
    BY LinkOrFailType, CallIs DEF CreateLocal, TypeInv
  <1>3. RestType'
    BY <1>2 DEF CreateLocal, RestType, history, TypeInv, NamespaceTypeOK
  <1>4. QED BY <1>1, <1>2, <1>3, OnwardType, TypeFrom

LEMMA CreateShadowType ==
  ASSUME TypeInv, NEW t \in Tasks, CreateShadow(t)
  PROVE  TypeInv' /\ Onward(t)
  <1>1. Onward(t)
    BY GotoIsOnward DEF CreateShadow
  <1>2. StateType' /\ events' \in 0 .. MaxEvents /\ tainted' \subseteq Indexed
    BY LinkOrFailType, CallIs DEF CreateShadow, TypeInv
  <1>3. RestType'
    BY <1>2 DEF CreateShadow, RestType, history, TypeInv, NamespaceTypeOK
  <1>4. QED BY <1>1, <1>2, <1>3, OnwardType, TypeFrom

LEMMA PathCreateType ==
  ASSUME TypeInv, NEW t \in Tasks, PathCreate(t)
  PROVE  TypeInv' /\ Onward(t)
  <1>1. Onward(t)
    BY GotoIsOnward DEF PathCreate
  <1>2. StateType' /\ RestType'
    BY DEF PathCreate, RestType, StateType, dirVars, history, TypeInv, NamespaceTypeOK
  <1>3. QED BY <1>1, <1>2, OnwardType, TypeFrom

(* The number that the directory of the caller is counted up from, and the *)
(* number that a remote inode is given.                                    *)
OwnFor(t) ==
  LET d == DirOf(task[t].file) IN
  IF counter[d] = NotLoaded /\ node[d].cnt # 0 THEN node[d].cnt ELSE counter[d]

IndexFor(t) ==
  IF OwnFor(t) = NotLoaded THEN FirstFree(Remote(t)) ELSE counter[Remote(t)]

SetIndexAt(t, f, d, r, own, i) ==
  /\ f = task[t].file /\ d = DirOf(f) /\ r = Remote(t) /\ own = OwnFor(t) /\ i = IndexFor(t)
  /\ task[t].pc = "index" /\ aborted[r] = "no"
  /\ task' = [task EXCEPT ![t].pc = "count remote", ![t].index = i]
  /\ counter' = [counter EXCEPT ![d] = Plus1(own), ![r] = i]
  /\ file' = [file EXCEPT ![f].cached = IF file[f].linked THEN own ELSE file[f].cached]
  /\ tainted' = tainted \cup (IF own = NotLoaded \/ ReadBehind(d, own) THEN {d} ELSE {})
                        \cup (IF own = NotLoaded /\ \E item \in node[r].ins : item.index >= i
                              THEN {r} ELSE {})
  /\ created' = created /\ placed' = placed /\ items' = items /\ node' = node
  /\ names' = names /\ aborted' = aborted /\ events' = events /\ remounted' = remounted

LEMMA SetIndexIs ==
  ASSUME TypeInv, NEW t \in Tasks, SetIndex(t)
  PROVE  \E f \in Files, d \in Dirs, r \in Roots, own \in 0 .. NotLoaded,
            i \in 0 .. NotLoaded : SetIndexAt(t, f, d, r, own, i)
  <1>1. PICK f \in Files : f = task[t].file
    BY CallIs DEF SetIndex
  <1>2. PICK d \in Dirs : d = DirOf(f)
    BY Facts
  <1>3. task[t].pc = "index" /\ Remote(t) \in Roots
    BY CallIs DEF SetIndex, RemotePoints
  <1>4. PICK r \in Roots : r = Remote(t)
    BY <1>3
  <1>5. PICK own \in 0 .. NotLoaded : own = OwnFor(t)
    <2>1. d \in Indexed
      BY Facts
    <2>2. OwnFor(t) \in 0 .. NotLoaded
      BY <1>1, <1>2, <2>1 DEF OwnFor, TypeInv, NamespaceTypeOK, DelayedNode
    <2>3. QED BY <2>2
  <1>6. PICK i \in 0 .. NotLoaded : i = IndexFor(t)
    <2>1. IndexFor(t) \in 0 .. NotLoaded
      BY <1>4, FirstFreeIs, Facts DEF IndexFor, TypeInv, NamespaceTypeOK
    <2>2. QED BY <2>1
  <1>7. i = IF own = NotLoaded THEN FirstFree(r) ELSE counter[r]
    BY <1>4, <1>5, <1>6 DEF IndexFor
  <1>8. own = IF counter[d] = NotLoaded /\ node[d].cnt # 0 THEN node[d].cnt ELSE counter[d]
    BY <1>1, <1>2, <1>5 DEF OwnFor
  <1>9. /\ task' = [task EXCEPT ![t].pc = "count remote", ![t].index = i]
        /\ counter' = [counter EXCEPT ![d] = Plus1(own), ![r] = i]
    BY <1>1, <1>2, <1>4, <1>7, <1>8 DEF SetIndex, Remote, CountLocal
  <1>10. /\ file' = [file EXCEPT ![f].cached = IF file[f].linked THEN own ELSE file[f].cached]
         /\ aborted[r] = "no"
         /\ created' = created /\ placed' = placed /\ items' = items /\ node' = node
         /\ names' = names /\ aborted' = aborted /\ events' = events /\ remounted' = remounted
    BY <1>1, <1>2, <1>4, <1>8 DEF SetIndex, Remote
  <1>11. tainted' = tainted
           \cup (IF own = NotLoaded \/ ReadBehind(d, own) THEN {d} ELSE {})
           \cup (IF own = NotLoaded /\ \E item \in node[r].ins : item.index >= i
                 THEN {r} ELSE {})
    BY <1>1, <1>2, <1>4, <1>7, <1>8 DEF SetIndex, Remote
  <1>12. SetIndexAt(t, f, d, r, own, i)
    BY <1>1, <1>2, <1>3, <1>4, <1>5, <1>6, <1>9, <1>10, <1>11 DEF SetIndexAt
  <1>13. QED BY <1>12

LEMMA SetIndexType ==
  ASSUME TypeInv, NEW t \in Tasks, SetIndex(t)
  PROVE  TypeInv' /\ Onward(t)
  <1>1. PICK f \in Files, d \in Dirs, r \in Roots, own \in 0 .. NotLoaded,
             i \in 0 .. NotLoaded : SetIndexAt(t, f, d, r, own, i)
    BY SetIndexIs
  <1>2. i \in 0 .. Width /\ own \in 0 .. Width
    BY Facts
  <1>3. Onward(t)
    <2>1. task[t] \in Call
      BY CallIs
    <2>2. task'[t] = [task[t] EXCEPT !.pc = "count remote", !.index = i]
          /\ task' = [task EXCEPT ![t] = task'[t]]
      BY <1>1 DEF SetIndexAt, TypeInv, NamespaceTypeOK
    <2>3. task'[t] \in Call
      BY <2>1, <2>2, <1>2 DEF Call
    <2>4. task'[t].pc = "count remote" /\ task'[t].file = task[t].file
          /\ task'[t].n = task[t].n /\ task'[t].index = i
      BY <2>1, <2>2 DEF Call
    <2>5. QED BY <1>1, <2>2, <2>3, <2>4 DEF SetIndexAt, Onward, Numbered, RemotePoints
  <1>4. counter' \in [Indexed -> 0 .. NotLoaded]
    <2>1. PICK x \in 0 .. NotLoaded : x = Plus1(own)
      BY <1>2, PlusOne
    <2>2. QED BY <1>1, <2>1 DEF SetIndexAt, TypeInv, NamespaceTypeOK
  <1>5. file' \in [Files -> Entry]
    <2>1. PICK x \in 0 .. Width : x = IF file[f].linked THEN own ELSE file[f].cached
      BY <1>2 DEF TypeInv, NamespaceTypeOK, Entry
    <2>2. file' = [file EXCEPT ![f].cached = x]
      BY <1>1, <2>1 DEF SetIndexAt
    <2>3. QED BY <2>1, <2>2 DEF TypeInv, NamespaceTypeOK, Entry
  <1>6. tainted' \subseteq Indexed
    BY <1>1, Facts DEF SetIndexAt, TypeInv, NamespaceTypeOK
  <1>7. StateType' /\ RestType'
    BY <1>1, <1>4, <1>5, <1>6 DEF SetIndexAt, StateType, RestType, TypeInv, NamespaceTypeOK
  <1>8. QED BY <1>3, <1>7, OnwardType, TypeFrom

LEMMA CountRemoteType ==
  ASSUME TypeInv, NEW t \in Tasks, CountRemote(t)
  PROVE  TypeInv' /\ Onward(t)
  <1>1. task[t].pc = "count remote" /\ Remote(t) \in Indexed
    BY CallIs DEF CountRemote, RemotePoints
  <1>2. PICK r \in Indexed : r = Remote(t)
    BY <1>1
  <1>3. PICK old : /\ old \in {task[t].index, counter[r]}
                   /\ counter' = [counter EXCEPT ![r] = Plus1(old)]
    BY <1>2 DEF CountRemote, Remote
  <1>4. Plus1(old) \in 0 .. NotLoaded
    <2>1. counter[r] \in 0 .. NotLoaded
      BY DEF TypeInv, NamespaceTypeOK
    <2>2. task[t].index \in 0 .. NotLoaded
      BY <1>1 DEF TypeInv, CallInv, Numbered
    <2>3. old \in 0 .. Width
      BY <1>3, <2>1, <2>2, Facts
    <2>4. QED BY <2>3, PlusOne
  <1>5. counter' \in [Indexed -> 0 .. NotLoaded]
    BY <1>3, <1>4 DEF TypeInv, NamespaceTypeOK
  <1>6. StateType' /\ RestType'
    BY <1>5 DEF CountRemote, history, StateType, RestType, TypeInv, NamespaceTypeOK
  <1>7. Onward(t)
    BY GotoIsOnward DEF CountRemote
  <1>8. QED BY <1>6, <1>7, OnwardType, TypeFrom

LEMMA LinkRemoteType ==
  ASSUME TypeInv, NEW t \in Tasks, LinkRemote(t)
  PROVE  TypeInv' /\ Onward(t)
  <1>1. Onward(t)
    BY ReturnIsOnward DEF LinkRemote, Associate
  <1>2. PICK f \in Files : f = task[t].file
    BY CallIs DEF LinkRemote
  <1>3. PICK r \in Roots : r = Remote(t)
    BY CallIs DEF LinkRemote, RemotePoints
  <1>4. PICK i \in 0 .. NotLoaded : i = task[t].index
    BY DEF TypeInv, CallInv, LinkRemote, Numbered
  <1>5. PICK x, nm : x = [index |-> i, file |-> f] /\ nm = NameOf(f)
    OBVIOUS
  <1>6. /\ node' = node \/ node' = QueueItem(r, x)
        /\ names' = names \/ names' = [names EXCEPT ![r] = @ \cup {nm}]
        /\ \/ aborted' = aborted \/ aborted' = [aborted EXCEPT ![r] = "name"]
           \/ aborted' = [aborted EXCEPT ![r] = "index"]
    BY <1>2, <1>3, <1>4, <1>5 DEF LinkRemote, Remote
  <1>7. node' \in [Indexed -> DelayedNode]
    <2>1. x \in Item /\ x.index = i
      BY <1>5 DEF Item
    <2>2. Plus1(x.index) \in 0 .. NotLoaded
      BY <2>1, PlusOne, Facts
    <2>3. QED BY <1>6, <2>1, <2>2, QueueItemIs, Facts DEF TypeInv, NamespaceTypeOK
  <1>8. names' \in [Roots -> SUBSET Names]
    <2>1. nm \in Names
      BY <1>5, Facts
    <2>2. names \in [Roots -> SUBSET Names]
      BY DEF TypeInv, NamespaceTypeOK
    <2>3. CASE names' = names
      BY <2>2, <2>3
    <2>4. CASE names' = [names EXCEPT ![r] = names[r] \cup {nm}]
      BY <2>1, <2>2, <2>4
    <2>5. QED BY <1>6, <2>3, <2>4
  <1>9. aborted' \in [Indexed -> {"no", "name", "index"}]
    BY <1>6 DEF TypeInv, NamespaceTypeOK
  <1>10. file' \in [Files -> Entry]
    BY <1>2 DEF LinkRemote, Associate, TypeInv, NamespaceTypeOK, Entry
  <1>11. StateType' /\ RestType'
    BY <1>7, <1>8, <1>9, <1>10
       DEF LinkRemote, history, StateType, RestType, TypeInv, NamespaceTypeOK
  <1>12. QED BY <1>1, <1>11, OnwardType, TypeFrom

LEMMA RemoteFailsType ==
  ASSUME TypeInv, NEW t \in Tasks, RemoteFails(t)
  PROVE  TypeInv' /\ Onward(t)
  <1>1. Onward(t)
    BY ReturnIsOnward DEF RemoteFails, Associate
  <1>2. PICK r \in Roots : r = Remote(t)
    BY CallIs DEF RemoteFails, RemotePoints
  <1>3. counter' = counter \/ counter' = [counter EXCEPT ![r] = (@ + Width - 1) % Width]
    BY <1>2 DEF RemoteFails, Remote
  <1>4. (counter[r] + Width - 1) % Width \in 0 .. NotLoaded
    BY Facts DEF TypeInv, NamespaceTypeOK
  <1>5. counter' \in [Indexed -> 0 .. NotLoaded]
    <2>1. PICK x \in 0 .. NotLoaded : x = (counter[r] + Width - 1) % Width
      BY <1>4
    <2>2. counter' = counter \/ counter' = [counter EXCEPT ![r] = x]
      BY <1>3, <2>1
    <2>3. QED BY <2>1, <2>2 DEF TypeInv, NamespaceTypeOK
  <1>6. file' \in [Files -> Entry]
    <2>1. PICK f \in Files : f = task[t].file
      BY CallIs DEF RemoteFails
    <2>2. file' = [file EXCEPT ![f].dentry = "associated"]
      BY <2>1 DEF RemoteFails, Associate
    <2>3. QED BY <2>1, <2>2 DEF TypeInv, NamespaceTypeOK, Entry
  <1>7. events' \in 0 .. MaxEvents
    BY Facts DEF RemoteFails, Counted, TypeInv, NamespaceTypeOK
  <1>8. StateType' /\ RestType'
    BY <1>5, <1>6, <1>7
       DEF RemoteFails, history, StateType, RestType, TypeInv, NamespaceTypeOK
  <1>9. QED BY <1>1, <1>8, OnwardType, TypeFrom

(* Of a directory one part of the delayed node is changed.                 *)
LEMMA NodeStep ==
  ASSUME node \in [Indexed -> DelayedNode], NEW d \in Indexed,
         NEW I \in SUBSET Item, NEW D \in SUBSET (0 .. Width),
         node' = [node EXCEPT ![d].ins = I] \/ node' = [node EXCEPT ![d].del = D]
  PROVE  /\ node' \in [Indexed -> DelayedNode] /\ node'[d].cnt = node[d].cnt
         /\ \A e \in Indexed : e # d => node'[e] = node[e]
  <1>1. node[d] \in DelayedNode
    OBVIOUS
  <1>2. node'[d] = [node[d] EXCEPT !.ins = I] \/ node'[d] = [node[d] EXCEPT !.del = D]
    OBVIOUS
  <1>3. node'[d] \in DelayedNode /\ node'[d].cnt = node[d].cnt
    BY <1>1, <1>2 DEF DelayedNode
  <1>4. node' = [node EXCEPT ![d] = node'[d]]
    OBVIOUS
  <1>5. QED BY <1>3, <1>4

LEMMA UnlinkIs ==
  ASSUME TypeInv, NEW t \in Tasks, NEW f \in Files, Unlink(t, f)
  PROVE  \E d \in Dirs, j \in 0 .. Width :
           /\ d = DirOf(f) /\ j = IF file[f].cached # 0 THEN file[f].cached ELSE file[f].ref
           /\ node' \in [Indexed -> DelayedNode] /\ node'[d].cnt = node[d].cnt
           /\ \A e \in Indexed : e # d => node'[e] = node[e]
           /\ \/ /\ Pending(d, j) /\ node'[d].del = node[d].del
                 /\ node'[d].ins = {item \in node[d].ins : item.index # j}
                 /\ file' = [file EXCEPT ![f] = [Absent EXCEPT !.dentry = file[f].dentry]]
                 /\ aborted' = aborted
              \/ /\ ~Pending(d, j) /\ j \notin node[d].del /\ node'[d].ins = node[d].ins
                 /\ node'[d].del = node[d].del \cup {j}
                 /\ file' = [file EXCEPT ![f] = [Absent EXCEPT !.dentry = file[f].dentry]]
                 /\ aborted' = aborted
              \/ /\ j \in node[d].del /\ node' = node /\ file' = file
                 /\ aborted' = [aborted EXCEPT ![d] = "index"]
  <1>1. PICK d \in Dirs : d = DirOf(f)
    BY Facts
  <1>2. file[f].cached \in 0 .. Width /\ file[f].ref \in 0 .. Width
    BY DEF TypeInv, NamespaceTypeOK, Entry
  <1>3. PICK j \in 0 .. Width : j = IF file[f].cached # 0 THEN file[f].cached ELSE file[f].ref
    BY <1>2
  <1>4. d \in Indexed /\ node \in [Indexed -> DelayedNode] /\ node[d] \in DelayedNode
    BY Facts DEF TypeInv, NamespaceTypeOK
  <1>5. PICK I \in SUBSET Item : I = {item \in node[d].ins : item.index # j}
    BY <1>4 DEF DelayedNode
  <1>6. PICK D \in SUBSET (0 .. Width) : D = node[d].del \cup {j}
    BY <1>4 DEF DelayedNode
  <1>7. \/ /\ Pending(d, j) /\ node' = [node EXCEPT ![d].ins = I]
           /\ file' = [file EXCEPT ![f] = [Absent EXCEPT !.dentry = file[f].dentry]]
           /\ aborted' = aborted
        \/ /\ ~Pending(d, j) /\ j \notin node[d].del
           /\ node' = [node EXCEPT ![d].del = D]
           /\ file' = [file EXCEPT ![f] = [Absent EXCEPT !.dentry = file[f].dentry]]
           /\ aborted' = aborted
        \/ /\ j \in node[d].del /\ node' = node /\ file' = file
           /\ aborted' = [aborted EXCEPT ![d] = "index"]
    BY <1>1, <1>3, <1>5, <1>6 DEF Unlink
  <1>8. node' = node => node' \in [Indexed -> DelayedNode]
    BY <1>4
  <1>9. /\ node' \in [Indexed -> DelayedNode] /\ node'[d].cnt = node[d].cnt
        /\ \A e \in Indexed : e # d => node'[e] = node[e]
    BY <1>4, <1>7, NodeStep
  <1>10. /\ node' = [node EXCEPT ![d].ins = I] => node'[d].ins = I /\ node'[d].del = node[d].del
         /\ node' = [node EXCEPT ![d].del = D] => node'[d].del = D /\ node'[d].ins = node[d].ins
    BY <1>4 DEF DelayedNode
  <1>11. QED BY <1>1, <1>3, <1>5, <1>6, <1>7, <1>9, <1>10

LEMMA UnlinkType ==
  ASSUME TypeInv, NEW t \in Tasks, NEW f \in Files, Unlink(t, f)
  PROVE  TypeInv'
  <1>1. Elsewhere /\ names' = names /\ counter' = counter /\ items' = items
    BY DEF Unlink, Elsewhere
  <1>2. node' \in [Indexed -> DelayedNode] /\ aborted' \in [Indexed -> {"no", "name", "index"}]
    BY UnlinkIs DEF TypeInv, NamespaceTypeOK
  <1>3. file' \in [Files -> Entry]
    <2>1. Absent \in Entry
      BY Facts DEF Absent, Entry
    <2>2. PICK e \in Entry : e = Absent
      BY <2>1
    <2>3. [e EXCEPT !.dentry = file[f].dentry] \in Entry
      BY DEF Entry, TypeInv, NamespaceTypeOK
    <2>4. file' = file \/ file' = [file EXCEPT ![f] = [e EXCEPT !.dentry = file[f].dentry]]
      BY <2>2, UnlinkIs
    <2>5. QED BY <2>3, <2>4 DEF TypeInv, NamespaceTypeOK
  <1>4. events' \in 0 .. MaxEvents
    BY Facts DEF Unlink, Counted, TypeInv, NamespaceTypeOK
  <1>5. StateType' /\ RestType'
    BY <1>1, <1>2, <1>3, <1>4
       DEF Unlink, history, StateType, RestType, TypeInv, NamespaceTypeOK
  <1>6. QED BY <1>1, <1>5, ElsewhereType, TypeFrom

(* What a step of the flush of a delayed node does to its directory.       *)
LEMMA InsertIs ==
  ASSUME TypeInv, NEW d \in Indexed, InsertDelayed(d)
  PROVE  /\ Elsewhere /\ counter' = counter /\ names' = names /\ file' = file
         /\ events' = events /\ history' = history
         /\ items' \in [Indexed -> SUBSET Item] /\ node' \in [Indexed -> DelayedNode]
         /\ aborted' \in [Indexed -> {"no", "name", "index"}]
         /\ node'[d].cnt = node[d].cnt /\ node'[d].del = node[d].del
         /\ \A e \in Indexed : e # d => /\ node'[e] = node[e] /\ items'[e] = items[e]
                                        /\ aborted'[e] = aborted[e]
         /\ \E x \in node[d].ins :
              /\ x \in Item /\ \A y \in node[d].ins : x.index <= y.index
              /\ \/ InTree(d, x.index) /\ items' = items /\ node' = node
                 \/ /\ aborted' = aborted /\ items'[d] = items[d] \cup {x}
                    /\ node'[d].ins = node[d].ins \ {x}
  <1>1. /\ Elsewhere /\ counter' = counter /\ names' = names /\ file' = file
        /\ events' = events /\ history' = history
    BY DEF InsertDelayed, Elsewhere
  <1>2. /\ node \in [Indexed -> DelayedNode] /\ items \in [Indexed -> SUBSET Item]
        /\ aborted \in [Indexed -> {"no", "name", "index"}]
        /\ node[d].ins \in SUBSET Item
    BY DEF TypeInv, NamespaceTypeOK, DelayedNode
  <1>3. PICK x \in node[d].ins :
          /\ \A y \in node[d].ins : x.index <= y.index
          /\ IF InTree(d, x.index)
             THEN /\ aborted' = [aborted EXCEPT ![d] = "index"]
                  /\ UNCHANGED <<items, node>>
             ELSE /\ items' = [items EXCEPT ![d] = @ \cup {x}]
                  /\ node' = [node EXCEPT ![d].ins = @ \ {x}]
                  /\ UNCHANGED aborted
    BY DEF InsertDelayed
  <1>4. x \in Item
    BY <1>2
  <1>5. CASE InTree(d, x.index)
    <2>1. aborted' = [aborted EXCEPT ![d] = "index"] /\ items' = items /\ node' = node
      BY <1>3, <1>5
    <2>2. /\ aborted' \in [Indexed -> {"no", "name", "index"}]
          /\ \A e \in Indexed : e # d => aborted'[e] = aborted[e]
      BY <1>2, <2>1
    <2>3. QED BY <1>1, <1>2, <1>3, <1>4, <1>5, <2>1, <2>2
  <1>6. CASE ~InTree(d, x.index)
    <2>1. PICK I \in SUBSET Item : I = node[d].ins \ {x}
      BY <1>2
    <2>2. /\ aborted' = aborted /\ items' = [items EXCEPT ![d] = @ \cup {x}]
          /\ node' = [node EXCEPT ![d].ins = I]
      BY <1>2, <1>3, <1>6, <2>1
    <2>3. items'[d] = items[d] \cup {x} /\ items' \in [Indexed -> SUBSET Item]
          /\ \A e \in Indexed : e # d => items'[e] = items[e]
      BY <1>2, <1>4, <2>2
    <2>4. node' \in [Indexed -> DelayedNode] /\ node'[d].cnt = node[d].cnt
          /\ \A e \in Indexed : e # d => node'[e] = node[e]
      BY <1>2, <2>2, NodeStep
    <2>5. node'[d].ins = I /\ node'[d].del = node[d].del
      BY <1>2, <2>2 DEF DelayedNode
    <2>6. QED BY <1>1, <1>2, <1>3, <1>4, <2>1, <2>2, <2>3, <2>4, <2>5
  <1>7. QED BY <1>5, <1>6

LEMMA DeleteIs ==
  ASSUME TypeInv, NEW d \in Indexed, DeleteDelayed(d)
  PROVE  /\ Elsewhere /\ counter' = counter /\ names' = names /\ file' = file
         /\ events' = events /\ history' = history /\ aborted' = aborted
         /\ items' \in [Indexed -> SUBSET Item] /\ node' \in [Indexed -> DelayedNode]
         /\ node'[d].cnt = node[d].cnt /\ node'[d].ins = node[d].ins
         /\ \A e \in Indexed : e # d => node'[e] = node[e] /\ items'[e] = items[e]
         /\ \E k \in node[d].del :
              /\ node'[d].del = node[d].del \ {k}
              /\ items'[d] = {item \in items[d] : item.index # k}
  <1>1. /\ Elsewhere /\ counter' = counter /\ names' = names /\ file' = file
        /\ events' = events /\ history' = history /\ aborted' = aborted
    BY DEF DeleteDelayed, Elsewhere
  <1>2. /\ node \in [Indexed -> DelayedNode] /\ items \in [Indexed -> SUBSET Item]
        /\ node[d].del \in SUBSET (0 .. Width)
    BY DEF TypeInv, NamespaceTypeOK, DelayedNode
  <1>3. PICK k \in node[d].del :
          /\ items' = [items EXCEPT ![d] = {item \in @ : item.index # k}]
          /\ node' = [node EXCEPT ![d].del = @ \ {k}]
    BY DEF DeleteDelayed
  <1>4. PICK I \in SUBSET Item, D \in SUBSET (0 .. Width) :
          I = {item \in items[d] : item.index # k} /\ D = node[d].del \ {k}
    BY <1>2
  <1>5. items' = [items EXCEPT ![d] = I] /\ node' = [node EXCEPT ![d].del = D]
    BY <1>2, <1>3, <1>4
  <1>6. items'[d] = I /\ items' \in [Indexed -> SUBSET Item]
        /\ \A e \in Indexed : e # d => items'[e] = items[e]
    BY <1>2, <1>5
  <1>7. node' \in [Indexed -> DelayedNode] /\ node'[d].cnt = node[d].cnt
        /\ \A e \in Indexed : e # d => node'[e] = node[e]
    BY <1>2, <1>5, NodeStep
  <1>8. node'[d].ins = node[d].ins /\ node'[d].del = D
    BY <1>2, <1>5 DEF DelayedNode
  <1>9. QED BY <1>1, <1>4, <1>6, <1>7, <1>8

LEMMA FlushType ==
  ASSUME TypeInv, NEW d \in Indexed, InsertDelayed(d) \/ DeleteDelayed(d)
  PROVE  TypeInv'
  <1>1. /\ Elsewhere /\ counter' = counter /\ names' = names /\ file' = file
        /\ events' = events /\ history' = history
        /\ items' \in [Indexed -> SUBSET Item] /\ node' \in [Indexed -> DelayedNode]
        /\ aborted' \in [Indexed -> {"no", "name", "index"}]
    BY InsertIs, DeleteIs DEF TypeInv, NamespaceTypeOK
  <1>2. StateType' /\ RestType'
    BY <1>1 DEF history, StateType, RestType, TypeInv, NamespaceTypeOK
  <1>3. QED BY <1>1, <1>2, ElsewhereType, TypeFrom

LEMMA LookupType ==
  ASSUME TypeInv, NEW f \in Files, Lookup(f)
  PROVE  TypeInv'
  <1>1. file' \in [Files -> Entry]
    <2>1. PICK g : g = [file EXCEPT ![f].dentry = "plain"]
      OBVIOUS
    <2>2. g \in [Files -> Entry]
      BY <2>1 DEF TypeInv, NamespaceTypeOK, Entry
    <2>3. g[f].cached = file[f].cached
      BY <2>1 DEF TypeInv, NamespaceTypeOK, Entry
    <2>4. file' = [g EXCEPT ![f].cached = IF @ = NoIndex THEN file[f].ref ELSE @]
      BY <2>1, <2>3 DEF Lookup
    <2>5. file[f].ref \in 0 .. Width
      BY DEF TypeInv, NamespaceTypeOK, Entry
    <2>6. QED BY <2>2, <2>4, <2>5 DEF Entry
  <1>2. StateType' /\ RestType' /\ Elsewhere
    BY <1>1 DEF Lookup, dirVars, history, StateType, RestType, TypeInv, NamespaceTypeOK, Elsewhere
  <1>3. QED BY <1>2, ElsewhereType, TypeFrom

LEMMA DropDentryType ==
  ASSUME TypeInv, NEW f \in Files, DropDentry(f)
  PROVE  TypeInv'
  <1>1. file' \in [Files -> Entry]
    BY DEF DropDentry, TypeInv, NamespaceTypeOK, Entry
  <1>2. StateType' /\ RestType' /\ Elsewhere
    BY <1>1 DEF DropDentry, dirVars, history, StateType, RestType, TypeInv, NamespaceTypeOK, Elsewhere
  <1>3. QED BY <1>2, ElsewhereType, TypeFrom

LEMMA EvictInodeType ==
  ASSUME TypeInv, NEW f \in Files, EvictInode(f)
  PROVE  TypeInv'
  <1>1. file' \in [Files -> Entry]
    <2>1. NoIndex \in 0 .. Width
      BY Facts
    <2>2. QED BY <2>1 DEF EvictInode, TypeInv, NamespaceTypeOK, Entry
  <1>2. StateType' /\ RestType' /\ Elsewhere
    BY <1>1 DEF EvictInode, dirVars, history, StateType, RestType, TypeInv, NamespaceTypeOK, Elsewhere
  <1>3. QED BY <1>2, ElsewhereType, TypeFrom

LEMMA NoNodeType == NoNode \in DelayedNode
  BY Facts DEF NoNode, DelayedNode

LEMMA EvictDirType ==
  ASSUME TypeInv, NEW d \in Dirs, EvictDir(d)
  PROVE  TypeInv'
  <1>1. counter' \in [Indexed -> 0 .. NotLoaded]
    BY Facts DEF EvictDir, TypeInv, NamespaceTypeOK
  <1>2. node' \in [Indexed -> DelayedNode]
    BY NoNodeType DEF EvictDir, TypeInv, NamespaceTypeOK
  <1>3. events' \in 0 .. MaxEvents
    BY Facts DEF EvictDir, Counted, TypeInv, NamespaceTypeOK
  <1>4. StateType' /\ RestType' /\ Elsewhere
    BY <1>1, <1>2, <1>3
       DEF EvictDir, history, StateType, RestType, TypeInv, NamespaceTypeOK, Elsewhere
  <1>5. QED BY <1>4, ElsewhereType, TypeFrom

LEMMA RemountType ==
  ASSUME TypeInv, Remount
  PROVE  TypeInv'
  <1>1. counter' \in [Indexed -> 0 .. NotLoaded]
    <2>1. NotLoaded \in 0 .. NotLoaded
      BY Facts
    <2>2. QED BY <2>1 DEF Remount
  <1>2. file' \in [Files -> Entry]
    <2>1. NoIndex \in 0 .. Width
      BY Facts
    <2>2. \A f \in Files : [file[f] EXCEPT !.cached = NoIndex, !.dentry = "none"] \in Entry
      BY <2>1 DEF TypeInv, NamespaceTypeOK, Entry
    <2>3. QED BY <2>2 DEF Remount
  <1>3. node' \in [Indexed -> DelayedNode]
    BY NoNodeType DEF Remount
  <1>4. events' \in 0 .. MaxEvents
    <2>1. events < MaxEvents /\ events' = events + 1
      BY DEF Remount, Counted
    <2>2. events \in 0 .. MaxEvents
      BY DEF TypeInv, NamespaceTypeOK
    <2>3. QED BY <2>1, <2>2, Facts
  <1>5. StateType' /\ RestType' /\ Elsewhere
    BY <1>1, <1>2, <1>3, <1>4
       DEF Remount, StateType, RestType, TypeInv, NamespaceTypeOK, Elsewhere
  <1>6. QED BY <1>5, ElsewhereType, TypeFrom

LEMMA StutterType ==
  ASSUME TypeInv, vars' = vars
  PROVE  TypeInv'
  <1>1. StateType' /\ RestType' /\ Elsewhere
    BY DEF vars, dirVars, history, StateType, RestType, TypeInv, NamespaceTypeOK, Elsewhere
  <1>2. QED BY <1>1, ElsewhereType, TypeFrom

LEMMA TypeInit == Init => TypeInv
  <1> SUFFICES ASSUME Init PROVE TypeInv
    OBVIOUS
  <1>1. Idle \in Call
    BY Facts DEF Idle, Call
  <1>2. Absent \in Entry
    BY Facts DEF Absent, Entry
  <1>3. StateType
    <2>1. NotLoaded \in 0 .. NotLoaded
      BY Facts
    <2>2. counter \in [Indexed -> 0 .. NotLoaded]
      BY <2>1 DEF Init
    <2>3. items \in [Indexed -> SUBSET Item] /\ node \in [Indexed -> DelayedNode]
      BY NoNodeType DEF Init
    <2>4. names \in [Roots -> SUBSET Names] /\ aborted \in [Indexed -> {"no", "name", "index"}]
      BY DEF Init
    <2>5. file \in [Files -> Entry]
      BY <1>2 DEF Init
    <2>6. QED BY <2>2, <2>3, <2>4, <2>5 DEF StateType
  <1>4. TaskType /\ RestType
    <2>1. 0 \in 0 .. MaxCreates /\ 0 \in 0 .. MaxEvents
      BY Facts
    <2>2. placed \in Seq(1 .. MaxCreates)
      BY DEF Init
    <2>3. QED BY <1>1, <2>1, <2>2 DEF Init, TaskType, RestType
  <1>5. \A t \in Tasks : task[t].pc = "idle"
    BY DEF Init, Idle
  <1>6. CallInv
    BY <1>5 DEF CallInv, In, RemotePoints, Numbered
  <1>7. Counting = {} /\ Waiting = {}
    BY <1>5 DEF Counting, Waiting, Early
  <1>8. CountInv
    BY <1>7, FS_EmptySet, Facts DEF CountInv, Init
  <1>9. QED BY <1>3, <1>4, <1>6, <1>8, TypeParts DEF TypeInv

LEMMA TypeStep ==
  ASSUME TypeInv, [Next]_vars
  PROVE  TypeInv'
  <1>1. ASSUME NEW t \in Tasks, Work(t) PROVE TypeInv'
    BY <1>1, ReadCountType, CreateLocalType, CreateShadowType, SetIndexType,
       CountRemoteType, LinkRemoteType, RemoteFailsType DEF Work
  <1>2. ASSUME NEW t \in Tasks, PathCreate(t) PROVE TypeInv'
    BY <1>2, PathCreateType
  <1>3. ASSUME NEW t \in Tasks, NEW f \in Files, CreateCall(t, f) PROVE TypeInv'
    BY <1>3, CreateCallType
  <1>4. ASSUME NEW t \in Tasks, NEW f \in Files, Unlink(t, f) PROVE TypeInv'
    BY <1>4, UnlinkType
  <1>5. ASSUME NEW f \in Files, Lookup(f) \/ DropDentry(f) \/ EvictInode(f) PROVE TypeInv'
    BY <1>5, LookupType, DropDentryType, EvictInodeType
  <1>6. ASSUME NEW d \in Dirs, EvictDir(d) PROVE TypeInv'
    BY <1>6, EvictDirType
  <1>7. ASSUME NEW d \in Indexed, InsertDelayed(d) \/ DeleteDelayed(d) PROVE TypeInv'
    BY <1>7, FlushType
  <1>8. CASE Remount
    BY <1>8, RemountType
  <1>9. CASE vars' = vars
    BY <1>9, StutterType
  <1>10. QED BY <1>1, <1>2, <1>3, <1>4, <1>5, <1>6, <1>7, <1>8, <1>9 DEF Next

(* The variables have their types; the counters do not leave 64 bits and   *)
(* the number of a create fits the table of creates.                       *)
THEOREM NamespaceTypeCorrect == Spec => []NamespaceTypeOK
  <1>1. Init => TypeInv
    BY TypeInit
  <1>2. TypeInv /\ [Next]_vars => TypeInv'
    BY TypeStep
  <1>3. TypeInv => NamespaceTypeOK
    BY DEF TypeInv
  <1>4. QED BY <1>1, <1>2, <1>3, PTL DEF Spec

-----------------------------------------------------------------------------
(***************************************************************************)
(* The caches of the VFS                                                   *)
(***************************************************************************)
CacheOK(e) ==
  e.linked => e.ref # NoIndex /\ (e.dentry # "none" => e.cached # NoIndex)

LEMMA LinkCaches ==
  ASSUME TypeInv, NEW f \in Files, LinkOrFail(f), NEW g \in Files, CacheOK(file[g])
  PROVE  CacheOK(file'[g]) /\ file'[g].dentry = file[g].dentry
  <1>1. CASE file' = file
    BY <1>1
  <1>2. CASE LinkLocal(f) /\ file' # file
    <2>1. PICK i : i = Loaded(DirOf(f))
      OBVIOUS
    <2>2. i # NoIndex
      BY <2>1, LoadedIs, Facts DEF TypeInv
    <2>3. file' = [file EXCEPT ![f] = [@ EXCEPT !.linked = TRUE, !.ref = i, !.cached = i]]
      BY <1>2, <2>1 DEF LinkLocal
    <2>4. g = f => /\ file'[g].ref = i /\ file'[g].cached = i
                   /\ file'[g].dentry = file[g].dentry
      BY <2>3 DEF TypeInv, NamespaceTypeOK, Entry
    <2>5. g # f => file'[g] = file[g]
      BY <2>3 DEF TypeInv, NamespaceTypeOK
    <2>6. QED BY <2>2, <2>4, <2>5 DEF CacheOK
  <1>3. QED BY <1>1, <1>2 DEF LinkOrFail

LEMMA CacheParts ==
  CacheInv <=> /\ \A f \in Files : CacheOK(file[f])
               /\ \A t \in Tasks : task[t].pc # "idle" => file[task[t].file].dentry # "none"
  BY DEF CacheInv, CacheOK

(* A step of a call, or of the caches of no file that is in a call.        *)
LEMMA CacheOnward ==
  ASSUME TypeInv, CacheInv, NEW t \in Tasks, Onward(t),
         \A f \in Files : CacheOK(file'[f]) /\ (file[f].dentry # "none" => file'[f].dentry # "none")
  PROVE  CacheInv'
  <1>1. ASSUME NEW u \in Tasks, task'[u].pc # "idle"
        PROVE  file'[task'[u].file].dentry # "none"
    <2>1. task[u].pc # "idle" /\ task'[u].file = task[u].file
      BY <1>1 DEF Onward, TypeInv, NamespaceTypeOK
    <2>2. task[u].file \in Files
      BY <2>1, CallIs
    <2>3. QED BY <2>1, <2>2 DEF CacheInv
  <1>2. QED BY <1>1 DEF CacheInv, CacheOK

LEMMA CacheElsewhere ==
  ASSUME TypeInv, CacheInv, Elsewhere,
         \A f \in Files : /\ CacheOK(file'[f])
                          /\ \/ file[f].dentry # "none" => file'[f].dentry # "none"
                             \/ DirFree(DirOf(f))
  PROVE  CacheInv'
  <1>1. ASSUME NEW u \in Tasks, task'[u].pc # "idle"
        PROVE  file'[task'[u].file].dentry # "none"
    <2>1. task[u].pc # "idle" /\ task'[u].file = task[u].file
      BY <1>1 DEF Elsewhere
    <2>2. task[u].file \in Files /\ ~DirFree(DirOf(task[u].file))
      BY <2>1, CallIs DEF DirFree
    <2>3. QED BY <2>1, <2>2 DEF CacheInv
  <1>2. QED BY <1>1 DEF CacheInv, CacheOK

LEMMA CacheWork ==
  ASSUME TypeInv, CacheInv, NEW t \in Tasks, Work(t) \/ PathCreate(t)
  PROVE  CacheInv'
  <1>1. \A f \in Files : CacheOK(file[f]) /\ file[f] \in Entry
    BY CacheParts DEF TypeInv, NamespaceTypeOK
  <1>2. CASE ReadCount(t)
    <2>1. file' = file
      BY <1>2 DEF ReadCount
    <2>2. \A u \in Tasks : /\ task'[u].pc # "idle" => task[u].pc # "idle"
                           /\ task'[u].file = task[u].file
      BY <1>2 DEF ReadCount, TypeInv, NamespaceTypeOK, Call
    <2>3. QED BY <2>1, <2>2 DEF CacheInv
  <1>3. CASE CreateLocal(t) \/ CreateShadow(t)
    <2>1. task[t].file \in Files /\ LinkOrFail(task[t].file)
      BY <1>3, CallIs DEF CreateLocal, CreateShadow
    <2>2. \A f \in Files : CacheOK(file'[f]) /\ file'[f].dentry = file[f].dentry
      BY <1>1, <2>1, LinkCaches
    <2>3. QED BY <1>3, <2>2, CreateLocalType, CreateShadowType, CacheOnward
  <1>4. CASE SetIndex(t)
    <2>1. PICK f \in Files, d \in Dirs, r \in Roots, own \in 0 .. NotLoaded,
               i \in 0 .. NotLoaded : SetIndexAt(t, f, d, r, own, i)
      BY <1>4, SetIndexIs
    <2>2. own # NoIndex
      BY Facts
    <2>3. \A g \in Files : g # f => file'[g] = file[g]
      BY <2>1 DEF SetIndexAt, TypeInv, NamespaceTypeOK
    <2>4. /\ file'[f].linked = file[f].linked /\ file'[f].ref = file[f].ref
          /\ file'[f].dentry = file[f].dentry
          /\ file'[f].cached = IF file[f].linked THEN own ELSE file[f].cached
      BY <2>1 DEF SetIndexAt, TypeInv, NamespaceTypeOK, Entry
    <2>5. \A g \in Files : CacheOK(file'[g]) /\ file'[g].dentry = file[g].dentry
      BY <1>1, <2>2, <2>3, <2>4 DEF CacheOK
    <2>6. QED BY <1>4, <2>5, SetIndexType, CacheOnward
  <1>5. CASE CountRemote(t) \/ PathCreate(t)
    <2>1. file' = file
      BY <1>5 DEF CountRemote, PathCreate, dirVars
    <2>2. QED BY <1>1, <1>5, <2>1, CountRemoteType, PathCreateType, CacheOnward
  <1>6. CASE LinkRemote(t) \/ RemoteFails(t)
    <2>1. PICK f \in Files : f = task[t].file
      BY <1>6, CallIs DEF LinkRemote, RemoteFails
    <2>2. file' = [file EXCEPT ![f].dentry = "associated"] /\ task[t].pc # "idle"
      BY <1>6, <2>1 DEF LinkRemote, RemoteFails, Associate
    <2>3. file[f].dentry # "none"
      BY <2>1, <2>2 DEF CacheInv
    <2>4. /\ \A g \in Files : g # f => file'[g] = file[g]
          /\ file'[f].linked = file[f].linked /\ file'[f].ref = file[f].ref
          /\ file'[f].cached = file[f].cached /\ file'[f].dentry = "associated"
      BY <2>2 DEF TypeInv, NamespaceTypeOK, Entry
    <2>5. \A g \in Files : CacheOK(file'[g]) /\ (file[g].dentry # "none" => file'[g].dentry # "none")
      BY <1>1, <2>3, <2>4 DEF CacheOK
    <2>6. QED BY <1>6, <2>5, LinkRemoteType, RemoteFailsType, CacheOnward
  <1>7. QED BY <1>2, <1>3, <1>4, <1>5, <1>6 DEF Work

LEMMA LookupIs ==
  ASSUME TypeInv, NEW f \in Files, Lookup(f)
  PROVE  /\ \A g \in Files : g # f => file'[g] = file[g]
         /\ file'[f].linked = file[f].linked /\ file'[f].ref = file[f].ref
         /\ file'[f].dentry = "plain"
         /\ file'[f].cached = IF file[f].cached = NoIndex THEN file[f].ref ELSE file[f].cached
  <1>1. PICK g : g = [file EXCEPT ![f].dentry = "plain"]
    OBVIOUS
  <1>2. g \in [Files -> Entry] /\ (\A h \in Files : h # f => g[h] = file[h])
        /\ g[f].cached = file[f].cached /\ g[f].dentry = "plain"
        /\ g[f].linked = file[f].linked /\ g[f].ref = file[f].ref
    BY <1>1 DEF TypeInv, NamespaceTypeOK, Entry
  <1>3. file' = [g EXCEPT ![f].cached = IF @ = NoIndex THEN file[f].ref ELSE @]
    BY <1>1, <1>2 DEF Lookup
  <1>4. QED BY <1>2, <1>3 DEF Entry

LEMMA UnlinkedIs ==
  ASSUME TypeInv, NEW f \in Files,
         file' = [file EXCEPT ![f] = [Absent EXCEPT !.dentry = file[f].dentry]]
  PROVE  /\ \A g \in Files : g # f => file'[g] = file[g]
         /\ ~file'[f].linked /\ file'[f].cached = NoIndex
         /\ file'[f].dentry = file[f].dentry
  <1>1. ~Absent.linked /\ Absent.cached = NoIndex /\ Absent \in Entry
    BY Facts DEF Absent, Entry
  <1>2. PICK e \in Entry : e = Absent /\ ~e.linked /\ e.cached = NoIndex
    BY <1>1
  <1>3. file'[f] = [e EXCEPT !.dentry = file[f].dentry]
    BY <1>2 DEF TypeInv, NamespaceTypeOK
  <1>4. QED BY <1>2, <1>3 DEF Entry, TypeInv, NamespaceTypeOK

LEMMA CacheStep ==
  ASSUME TypeInv, CacheInv, [Next]_vars
  PROVE  CacheInv'
  <1>1. \A f \in Files : CacheOK(file[f]) /\ file[f] \in Entry
    BY CacheParts DEF TypeInv, NamespaceTypeOK
  <1>2. ASSUME NEW t \in Tasks, NEW f \in Files, CreateCall(t, f) PROVE CacheInv'
    <2>1. /\ \A g \in Files : g # f => file'[g] = file[g]
          /\ ~file'[f].linked /\ file'[f].dentry = "plain"
      BY <1>2 DEF CreateCall, TypeInv, NamespaceTypeOK, Entry
    <2>2. \A g \in Files : CacheOK(file'[g]) /\ (file[g].dentry # "none" => file'[g].dentry # "none")
      BY <1>1, <2>1 DEF CacheOK
    <2>3. Idle \in Call
      BY Facts DEF Idle, Call
    <2>4. PICK e \in Call : e = Idle
      BY <2>3
    <2>5. task'[t] = [e EXCEPT !.pc = "count", !.file = f]
          /\ \A u \in Tasks : u # t => task'[u] = task[u]
      BY <1>2, <2>4 DEF CreateCall, TypeInv, NamespaceTypeOK
    <2>6. task'[t].file = f
      BY <2>5 DEF Call
    <2>7. ASSUME NEW u \in Tasks, task'[u].pc # "idle" PROVE file'[task'[u].file].dentry # "none"
      <3>1. CASE u = t
        BY <2>1, <2>6, <3>1
      <3>2. CASE u # t
        BY <2>2, <2>5, <2>7, <3>2, CallIs DEF CacheInv
      <3>3. QED BY <3>1, <3>2
    <2>8. QED BY <2>2, <2>7 DEF CacheInv, CacheOK
  <1>3. ASSUME NEW t \in Tasks, NEW f \in Files, Unlink(t, f) PROVE CacheInv'
    <2>1. file' = file \/ file' = [file EXCEPT ![f] = [Absent EXCEPT !.dentry = file[f].dentry]]
      BY <1>3, UnlinkIs
    <2>2. \A g \in Files : CacheOK(file'[g]) /\ file'[g].dentry = file[g].dentry
      BY <1>1, <2>1, UnlinkedIs DEF CacheOK
    <2>3. QED BY <1>3, <2>2, CacheElsewhere DEF Unlink, Elsewhere
  <1>4. ASSUME NEW f \in Files, Lookup(f) PROVE CacheInv'
    <2>1. \A g \in Files : CacheOK(file'[g]) /\ (file[g].dentry # "none" => file'[g].dentry # "none")
      BY <1>1, <1>4, LookupIs DEF CacheOK
    <2>2. QED BY <1>4, <2>1, CacheElsewhere DEF Lookup, Elsewhere
  <1>5. ASSUME NEW f \in Files, DropDentry(f) \/ EvictInode(f) PROVE CacheInv'
    <2>1. \A g \in Files : g # f => file'[g] = file[g]
      BY <1>5 DEF DropDentry, EvictInode, TypeInv, NamespaceTypeOK
    <2>2. file'[f].ref = file[f].ref /\ file'[f].linked = file[f].linked
          /\ file'[f].dentry = "none" /\ (DirFree(DirOf(f)) \/ file[f].dentry = "none")
      BY <1>5 DEF DropDentry, EvictInode, TypeInv, NamespaceTypeOK, Entry
    <2>3. \A g \in Files : /\ CacheOK(file'[g])
                           /\ \/ file[g].dentry # "none" => file'[g].dentry # "none"
                              \/ DirFree(DirOf(g))
      BY <1>1, <2>1, <2>2 DEF CacheOK
    <2>4. QED BY <1>5, <2>3, CacheElsewhere DEF DropDentry, EvictInode, Elsewhere
  <1>6. ASSUME NEW d \in Indexed, InsertDelayed(d) \/ DeleteDelayed(d) PROVE CacheInv'
    BY <1>1, <1>6, CacheElsewhere DEF InsertDelayed, DeleteDelayed, Elsewhere
  <1>7. ASSUME NEW d \in Dirs, EvictDir(d) PROVE CacheInv'
    BY <1>1, <1>7, CacheElsewhere DEF EvictDir, Elsewhere
  <1>8. CASE Remount
    <2>1. \A f \in Files : /\ file'[f].ref = file[f].ref /\ file'[f].linked = file[f].linked
                           /\ file'[f].dentry = "none"
      BY <1>1, <1>8 DEF Remount, TypeInv, NamespaceTypeOK, Entry
    <2>2. \A f \in Files : DirFree(DirOf(f))
      BY <1>8 DEF DirFree, Remount
    <2>3. \A f \in Files : CacheOK(file'[f])
      BY <1>1, <2>1 DEF CacheOK
    <2>4. QED BY <1>8, <2>2, <2>3, CacheElsewhere DEF Remount, Elsewhere
  <1>9. CASE vars' = vars
    BY <1>9 DEF vars, CacheInv
  <1>10. QED BY <1>2, <1>3, <1>4, <1>5, <1>6, <1>7, <1>8, <1>9, CacheWork DEF Next

-----------------------------------------------------------------------------
(***************************************************************************)
(* The directories of partition 0                                          *)
(***************************************************************************)
BelowKept(d) == \A x \in Nat : Below(d, x) => Below(d, x)'

LEMMA DirType ==
  ASSUME TypeInv, NEW d \in Dirs
  PROVE  /\ d \in Indexed /\ counter[d] \in Nat /\ counter[d] \in 0 .. NotLoaded
         /\ created \in Nat /\ created <= MaxCreates
         /\ node[d] \in DelayedNode /\ node[d].cnt \in Nat
         /\ \A x \in All(d) : x.index \in Nat /\ x.index <= NotLoaded
         /\ \A k \in node[d].del : k \in Nat
         /\ \A k \in Phantoms(d) : k \in Nat
         /\ \A f \in Files : file[f] \in Entry /\ file[f].ref \in 0 .. Width
                             /\ file[f].cached \in 0 .. Width
                             /\ file[f].ref \in Nat /\ file[f].cached \in Nat
  <1>1. d \in Indexed
    BY Facts
  <1>2. counter[d] \in 0 .. NotLoaded /\ created \in 0 .. MaxCreates
        /\ items[d] \in SUBSET Item /\ node[d] \in DelayedNode
    BY <1>1 DEF TypeInv, NamespaceTypeOK
  <1>3. /\ node[d].ins \in SUBSET Item /\ node[d].del \in SUBSET (0 .. Width)
        /\ node[d].cnt \in 0 .. NotLoaded
    BY <1>2 DEF DelayedNode
  <1>4. \A x \in All(d) : x.index \in 0 .. NotLoaded
    BY <1>2, <1>3 DEF All, Item
  <1>5. \A f \in Files : /\ file[f] \in Entry /\ file[f].ref \in 0 .. Width
                         /\ file[f].cached \in 0 .. Width
    BY DEF TypeInv, NamespaceTypeOK, Entry
  <1>6. \A k \in Phantoms(d) : k \in 0 .. Width
    BY <1>3, <1>5 DEF Phantoms
  <1>7. QED BY <1>1, <1>2, <1>3, <1>4, <1>5, <1>6, Facts

(* The numbers in use, if there are only fewer of them.                    *)
LEMMA UseKept ==
  ASSUME TypeInv, NEW d \in Dirs, InUse(d), BelowKept(d),
         All(d)' \subseteq All(d), Ordered(d)',
         counter'[d] \in {counter[d], NotLoaded}, node'[d].cnt \in {node[d].cnt, 0},
         node'[d].ins # {} => node'[d].cnt # 0
  PROVE  InUse(d)'
  <1>1. \A x \in All(d)' : 2 <= x.index /\ Below(d, x.index + 1)'
    BY DirType DEF InUse, BelowKept
  <1>2. \A x, y \in All(d)' : x.index = y.index => x = y
    BY DEF InUse
  <1>3. ASSUME NEW c \in Nat, Past(d, c) PROVE Past(d, c)'
    BY <1>3 DEF Past, BelowKept
  <1>4. counter'[d] # NotLoaded => Past(d, counter[d])' /\ counter'[d] = counter[d]
    BY <1>3, DirType DEF InUse, Past, Below
  <1>5. node'[d].cnt # 0 => Past(d, node[d].cnt)' /\ node'[d].cnt = node[d].cnt
    <2>1. PICK c \in Nat : c = node[d].cnt
      BY DirType
    <2>2. CASE node'[d].cnt # 0
      <3>1. node'[d].cnt = c /\ Past(d, c)
        BY <2>1, <2>2 DEF InUse
      <3>2. QED BY <1>3, <2>1, <3>1 DEF Past, Below
    <2>3. QED BY <2>2
  <1>6. QED BY <1>1, <1>2, <1>4, <1>5 DEF InUse

LEMMA PassedKept ==
  ASSUME TypeInv, NEW d \in Dirs, Passed(d), counter'[d] \in {counter[d], NotLoaded},
         Phantoms(d)' \subseteq Phantoms(d)
  PROVE  Passed(d)'
  BY DEF Passed

LEMMA PhantomsKept ==
  ASSUME TypeInv, NEW d \in Dirs,
         \A k \in node'[d].del : InTree(d, k)' \/ k \in Phantoms(d),
         \A f \in Files : DirOf(f) = d =>
           \/ file'[f].cached \in {NoIndex, file'[f].ref}
           \/ file'[f].cached = file[f].cached /\ file'[f].ref = file[f].ref
  PROVE  Phantoms(d)' \subseteq Phantoms(d)
  BY DEF Phantoms

(* A step that flushes the delayed node, or that takes numbers into memory *)
(* or forgets them, or does nothing of it.                                 *)
Recaches(d) ==
  \A f \in Files : DirOf(f) = d =>
    /\ file'[f].linked = file[f].linked /\ file'[f].ref = file[f].ref
    /\ file'[f].cached # file[f].cached => file'[f].cached \in {NoIndex, file[f].ref}

LEMMA RefsDiffer ==
  ASSUME TypeInv, NEW d \in Dirs, LocalInv(d), NEW f \in Files, NEW g \in Files,
         DirOf(f) = d, DirOf(g) = d, file[f].linked, file[g].linked, f # g
  PROVE  file[f].ref # file[g].ref /\ file[f].ref # NoIndex
  <1>1. PICK x, y : x = [index |-> file[f].ref, file |-> f] /\ y = [index |-> file[g].ref, file |-> g]
    OBVIOUS
  <1>2. /\ x \in All(d) /\ x.index = file[f].ref /\ x.file = f
        /\ y \in All(d) /\ y.index = file[g].ref /\ y.file = g
    BY <1>1 DEF LocalInv, Known
  <1>3. QED BY <1>2, DirType, Facts DEF LocalInv, InUse

LEMMA RecacheLocal ==
  ASSUME TypeInv, NEW d \in Dirs, LocalInv(d), BelowKept(d), Recaches(d),
         aborted'[d] = aborted[d],
         All(d)' \subseteq All(d), Ordered(d)',
         counter'[d] \in {counter[d], NotLoaded}, node'[d].cnt \in {node[d].cnt, 0},
         node'[d].ins # {} => node'[d].cnt # 0,
         node'[d].del \subseteq node[d].del,
         \A k \in node'[d].del : InTree(d, k) => InTree(d, k)',
         \A x \in All(d) : x.index \notin node[d].del => x \in All(d)'
  PROVE  LocalInv(d)'
  <1>1. InUse(d)'
    BY UseKept DEF LocalInv
  <1>2. Passed(d)'
    <2>1. \A k \in node'[d].del : InTree(d, k)' \/ k \in Phantoms(d)
      BY DEF Phantoms
    <2>2. Phantoms(d)' \subseteq Phantoms(d)
      BY <2>1, PhantomsKept DEF Recaches
    <2>3. QED BY <2>2, PassedKept DEF LocalInv
  <1>3. ASSUME NEW f \in Files, DirOf(f) = d, file'[f].linked
        PROVE  /\ [index |-> file'[f].ref, file |-> f] \in All(d)'
               /\ file'[f].ref \notin node'[d].del
               /\ file'[f].cached = NoIndex \/ file'[f].cached \notin node'[d].del
               /\ \A g \in Files : DirOf(g) = d /\ file'[g].linked /\ g # f =>
                    \/ file'[g].cached = NoIndex
                    \/ file'[g].cached \notin {file'[f].ref, file'[f].cached}
    <2>1. /\ file[f].linked /\ file'[f].ref = file[f].ref /\ Known(f)
          /\ file'[f].cached \in {file[f].cached, NoIndex, file[f].ref}
      BY <1>3 DEF Recaches, LocalInv
    <2>2. file[f].ref \notin node[d].del
      BY <1>3, <2>1 DEF Known
    <2>3. [index |-> file'[f].ref, file |-> f] \in All(d)'
      <3>1. PICK x : x = [index |-> file[f].ref, file |-> f]
        OBVIOUS
      <3>2. x \in All(d) /\ x.index = file[f].ref
        BY <1>3, <2>1, <3>1 DEF Known
      <3>3. QED BY <2>1, <2>2, <3>1, <3>2
    <2>4. file'[f].cached = NoIndex \/ file'[f].cached \notin node'[d].del
      BY <1>3, <2>1, <2>2 DEF Known
    <2>5. ASSUME NEW g \in Files, DirOf(g) = d, file'[g].linked, g # f
          PROVE  \/ file'[g].cached = NoIndex
                 \/ file'[g].cached \notin {file'[f].ref, file'[f].cached}
      <3>1. /\ file[g].linked /\ Known(g)
            /\ file'[g].cached \in {file[g].cached, NoIndex, file[g].ref}
        BY <2>5 DEF Recaches, LocalInv
      <3>2. file[f].ref # file[g].ref /\ file[g].ref # NoIndex
        BY <1>3, <2>1, <2>5, <3>1, RefsDiffer
      <3>3. file[g].cached = NoIndex \/ file[g].cached \notin {file[f].ref, file[f].cached}
        BY <1>3, <2>1, <2>5, <3>1 DEF Known
      <3>4. file[f].cached = NoIndex \/ file[f].cached \notin {file[g].ref, file[g].cached}
        BY <1>3, <2>1, <2>5, <3>1 DEF Known
      <3>5. QED BY <2>1, <3>1, <3>2, <3>3, <3>4
    <2>6. QED BY <2>1, <2>2, <2>3, <2>4, <2>5
  <1>4. \A f \in Files : DirOf(f) = d => Known(f)'
    BY <1>3 DEF Known
  <1>5. QED BY <1>1, <1>2, <1>4 DEF LocalInv

DirFrame(d) ==
  /\ aborted'[d] = aborted[d] /\ items'[d] = items[d] /\ node'[d] = node[d]
  /\ counter'[d] \in {counter[d], NotLoaded} /\ Recaches(d)

LEMMA LocalFrame ==
  ASSUME TypeInv, NEW d \in Dirs, LocalInv(d), DirFrame(d), BelowKept(d)
  PROVE  LocalInv(d)'
  <1>1. All(d)' = All(d) /\ \A k : InTree(d, k) <=> InTree(d, k)'
    BY DEF All, InTree, DirFrame
  <1>2. /\ Ordered(d)' /\ node'[d].cnt = node[d].cnt
        /\ node'[d].ins # {} => node'[d].cnt # 0
        /\ node'[d].del = node[d].del
    BY DEF DirFrame, LocalInv, InUse, Ordered
  <1>3. /\ Recaches(d) /\ aborted'[d] = aborted[d]
        /\ counter'[d] \in {counter[d], NotLoaded}
    BY DEF DirFrame
  <1>4. QED BY <1>1, <1>2, <1>3, RecacheLocal

LEMMA BelowOnward ==
  ASSUME TypeInv, NEW t \in Tasks, Onward(t), NEW d \in Dirs
  PROVE  BelowKept(d)
  <1> SUFFICES ASSUME NEW x \in Nat, Below(d, x) PROVE Below(d, x)'
    BY DEF BelowKept
  <1>1. created' = created /\ created \in Nat
    BY DirType DEF Onward
  <1>2. ASSUME NEW u \in Tasks, In(u, d)'
        PROVE  /\ task'[u].pc \in Early => x + 2 <= 2 + 2 * created'
               /\ task'[u].pc = "index" => x + 1 <= 2 + 2 * created'
    <2>1. In(u, d) /\ (task[u].pc \in Early => x + 2 <= 2 + 2 * created)
                   /\ (task[u].pc = "index" => x + 1 <= 2 + 2 * created)
      BY <1>2 DEF In, Onward, TypeInv, NamespaceTypeOK, Below
    <2>2. CASE u = t
      <3>1. /\ task'[t].pc \in Early => task[t].pc \in Early
            /\ task'[t].pc = "index" => task[t].pc \in Early
        BY <1>2, <2>2 DEF Onward, Numbered, Early, In
      <3>2. QED BY <1>1, <2>1, <2>2, <3>1
    <2>3. CASE u # t
      <3>1. task'[u] = task[u]
        BY <2>3 DEF Onward, TypeInv, NamespaceTypeOK
      <3>2. QED BY <1>1, <2>1, <3>1
    <2>4. QED BY <2>2, <2>3
  <1>3. x <= 2 + 2 * created'
    BY <1>1 DEF Below
  <1>4. QED BY <1>2, <1>3 DEF Below

(* The call that is in the directory counts it up once.                    *)
LEMMA BelowRaised ==
  ASSUME TypeInv, NEW t \in Tasks, Onward(t), NEW d \in Dirs, In(t, d),
         NEW x \in Nat, Below(d, x),
         \/ task[t].pc \in Early /\ task'[t].pc \in {"idle", "index"}
         \/ task[t].pc = "index" /\ task'[t].pc \in Numbered
  PROVE  Below(d, x + 1)'
  <1>1. created' = created /\ created \in Nat
    BY DirType DEF Onward
  <1>2. x + 1 <= 2 + 2 * created
    BY <1>1 DEF Below
  <1>3. ASSUME NEW u \in Tasks, In(u, d)'
        PROVE  /\ task'[u].pc \in Early => x + 1 + 2 <= 2 + 2 * created'
               /\ task'[u].pc = "index" => x + 1 + 1 <= 2 + 2 * created'
    <2>1. In(u, d)
      BY <1>3 DEF In, Onward, TypeInv, NamespaceTypeOK
    <2>2. u = t
      BY <2>1 DEF TypeInv, CallInv
    <2>3. task'[t].pc \notin Early /\ (task'[t].pc = "index" => task[t].pc \in Early)
      BY <1>3, <2>2 DEF In, Early, Numbered
    <2>4. task[t].pc \in Early => x + 2 <= 2 + 2 * created
      BY DEF Below
    <2>5. QED BY <1>1, <2>2, <2>3, <2>4
  <1>4. QED BY <1>1, <1>2, <1>3 DEF Below

(* The number that a call in the directory finds is above all in use.      *)
LEMMA LoadedAbove ==
  ASSUME TypeInv, NEW t \in Tasks, NEW d \in Dirs, In(t, d), InUse(d), Passed(d),
         task[t].pc \in Early
  PROVE  /\ Loaded(d) \in Nat /\ Past(d, Loaded(d))
         /\ Loaded(d) < NotLoaded /\ Plus1(Loaded(d)) = Loaded(d) + 1
         /\ ~ReadBehind(d, Loaded(d)) => \A k \in Phantoms(d) : k < Loaded(d)
  <1>1. created >= 1 /\ created \in Nat /\ created <= MaxCreates
    <2>1. t \in Waiting /\ Waiting \in SUBSET Tasks
      BY DEF Waiting
    <2>2. Cardinality(Waiting) >= 1 /\ Cardinality(Waiting) \in Nat
      <3>1. {} \in SUBSET Tasks
        OBVIOUS
      <3>2. IsFiniteSet(Waiting)
        BY <2>1, Facts, FS_Subset, Zenon
      <3>3. Cardinality(Waiting) # 0 /\ Cardinality(Waiting) \in Nat
        BY <2>1, <3>2, FS_EmptySet, FS_CardinalityType
      <3>4. QED BY <3>3
    <2>3. QED BY <2>2, DirType DEF TypeInv, CountInv
  <1>2. \A x \in Nat : Below(d, x) => x + 2 <= 2 + 2 * created
    BY DEF Below
  <1>3. Loaded(d) \in Nat /\ Past(d, Loaded(d))
    <2>1. CASE counter[d] # NotLoaded
      BY <2>1, DirType DEF InUse, Loaded
    <2>2. CASE counter[d] = NotLoaded /\ node[d].cnt # 0
      BY <2>2, DirType DEF InUse, Loaded
    <2>3. CASE counter[d] = NotLoaded /\ node[d].cnt = 0 /\ items[d] = {}
      <3>1. Loaded(d) = 2 /\ All(d) = {}
        BY <2>3, FirstFreeIs, Facts DEF Loaded, TypeInv, InUse, All
      <3>2. Below(d, 2)
        BY <1>1 DEF Below
      <3>3. QED BY <3>1, <3>2 DEF Past
    <2>4. CASE counter[d] = NotLoaded /\ node[d].cnt = 0 /\ items[d] # {}
      <3>1. All(d) = items[d] /\ Loaded(d) = FirstFree(d)
        BY <2>4 DEF InUse, All, Loaded
      <3>2. ASSUME NEW k \in items[d]
            PROVE  /\ k.index \in Nat /\ 2 <= k.index /\ Below(d, k.index + 1)
                   /\ k.index < NotLoaded
        <4>1. k.index \in Nat /\ 2 <= k.index /\ Below(d, k.index + 1)
          BY <3>1, DirType DEF InUse
        <4>2. k.index + 1 + 2 <= 2 + 2 * created
          BY <4>1, <1>2
        <4>3. QED BY <4>1, <4>2, <1>1, Facts
      <3>3. ~InTree(d, NotLoaded)
        BY <3>2, Facts DEF InTree
      <3>4. PICK k \in items[d] : /\ Loaded(d) = Plus1(k.index)
                                  /\ \A y \in items[d] : y.index <= k.index
        BY <2>4, <3>1, <3>3, FirstFreeIs, Facts DEF TypeInv
      <3>5. Loaded(d) = k.index + 1
        BY <3>2, <3>4, PlusOne
      <3>6. \A y \in All(d) : y.index < k.index + 1
        <4>1. TAKE y \in All(d)
        <4>2. y \in items[d]
          BY <3>1
        <4>3. QED BY <3>2, <3>4, <4>2
      <3>7. k.index \in Nat /\ 2 <= k.index + 1 /\ Below(d, k.index + 1)
        BY <3>2
      <3>8. QED BY <3>5, <3>6, <3>7 DEF Past
    <2>5. QED BY <2>1, <2>2, <2>3, <2>4
  <1>4. Loaded(d) < NotLoaded
    <2>1. Loaded(d) + 2 <= 2 + 2 * created
      BY <1>2, <1>3 DEF Past
    <2>2. QED BY <1>1, <1>3, <2>1, Facts
  <1>5. ASSUME ~ReadBehind(d, Loaded(d)), NEW k \in Phantoms(d) PROVE k < Loaded(d)
    <2>1. CASE counter[d] # NotLoaded
      BY <1>5, <2>1 DEF Passed, Loaded
    <2>2. CASE counter[d] = NotLoaded
      BY <1>3, <1>5, <2>2, DirType DEF ReadBehind
    <2>3. QED BY <2>1, <2>2
  <1>6. QED BY <1>3, <1>4, <1>5, PlusOne

(* A number that is past all others is new in every respect.               *)
LEMMA PastIsNew ==
  ASSUME TypeInv, NEW d \in Dirs, LocalInv(d), NEW i \in Nat, Past(d, i), i < NotLoaded,
         \A k \in Phantoms(d) : k < i
  PROVE  /\ i \notin node[d].del /\ i # NoIndex
         /\ \A y \in All(d) : y.index \in Nat /\ y.index < i
         /\ \A g \in Files : DirOf(g) = d /\ file[g].linked =>
              /\ file[g].ref # i
              /\ file[g].cached = NoIndex \/ file[g].cached < i
  <1>1. \A y \in All(d) : y.index \in Nat /\ y.index < i
    BY DirType DEF Past
  <1>2. i \notin node[d].del
    <2>1. SUFFICES ASSUME i \in node[d].del PROVE FALSE
      OBVIOUS
    <2>2. CASE InTree(d, i)
      BY <1>1, <2>2 DEF InTree, All
    <2>3. CASE ~InTree(d, i)
      <3>1. i \in Phantoms(d)
        BY <2>1, <2>3 DEF Phantoms
      <3>2. QED BY <3>1
    <2>4. QED BY <2>2, <2>3
  <1>3. ASSUME NEW g \in Files, DirOf(g) = d, file[g].linked
        PROVE  file[g].ref < i /\ (file[g].cached = NoIndex \/ file[g].cached < i)
    <2>1. PICK y : y = [index |-> file[g].ref, file |-> g]
      OBVIOUS
    <2>2. y \in All(d) /\ y.index = file[g].ref
      BY <1>3, <2>1 DEF LocalInv, Known
    <2>3. CASE file[g].cached \in {NoIndex, file[g].ref}
      BY <1>1, <2>2, <2>3
    <2>4. CASE file[g].cached \notin {NoIndex, file[g].ref}
      <3>1. file[g].cached \in Phantoms(d)
        BY <1>3, <2>4 DEF Phantoms
      <3>2. QED BY <1>1, <2>2, <3>1
    <2>5. QED BY <2>3, <2>4
  <1>4. \A g \in Files : file[g].ref \in Nat
    BY DirType
  <1>5. QED BY <1>1, <1>2, <1>3, <1>4, Facts

LEMMA LinkKeepsLocal ==
  ASSUME TypeInv, NEW t \in Tasks, NEW f \in Files, NEW d \in Dirs, d = DirOf(f),
         In(t, d), task[t].pc \in Early, task'[t].pc \in {"idle", "index"}, Onward(t),
         LocalInv(d), d \notin tainted', LinkLocal(f)
  PROVE  LocalInv(d)'
  <1>1. InUse(d) /\ Passed(d) /\ d \in Indexed
    BY Facts DEF LocalInv
  <1>2. PICK i \in Nat : i = Loaded(d)
    BY <1>1, LoadedAbove
  <1>3. ~ReadBehind(d, i)
    BY <1>2 DEF LinkLocal
  <1>4. /\ Past(d, i) /\ i < NotLoaded /\ Plus1(i) = i + 1
        /\ \A k \in Phantoms(d) : k < i
    BY <1>1, <1>2, <1>3, LoadedAbove
  <1>5. /\ i \notin node[d].del /\ i # NoIndex
        /\ \A y \in All(d) : y.index \in Nat /\ y.index < i
        /\ \A g \in Files : DirOf(g) = d /\ file[g].linked =>
             /\ file[g].ref # i
             /\ file[g].cached = NoIndex \/ file[g].cached < i
    BY <1>4, PastIsNew
  <1>6. PICK y : y = [index |-> i, file |-> f]
    OBVIOUS
  <1>7. y.index = i /\ y \in Item /\ ~Pending(d, i)
    BY <1>4, <1>5, <1>6, Facts DEF Pending, All, Item
  <1>8. /\ counter' = [counter EXCEPT ![d] = i + 1] /\ aborted' = aborted /\ items' = items
        /\ node' = QueueItem(d, y)
        /\ file' = [file EXCEPT ![f] = [@ EXCEPT !.linked = TRUE, !.ref = i, !.cached = i]]
    BY <1>2, <1>4, <1>6, <1>7 DEF LinkLocal
  <1>9. /\ counter'[d] = i + 1 /\ aborted'[d] = "no" /\ items'[d] = items[d]
        /\ i + 1 \in 0 .. NotLoaded
    BY <1>1, <1>4, <1>8, Facts DEF TypeInv, NamespaceTypeOK, LocalInv
  <1>10. /\ node'[d].ins = node[d].ins \cup {y} /\ node'[d].del = node[d].del
         /\ node'[d].cnt = IF i >= node[d].cnt THEN i + 1 ELSE node[d].cnt
    BY <1>1, <1>4, <1>7, <1>8, <1>9, QueueItemIs DEF TypeInv, NamespaceTypeOK
  <1>11. Below(d, i + 1)' /\ BelowKept(d)
    BY <1>4, BelowRaised, BelowOnward DEF Past
  <1>12. All(d)' = All(d) \cup {y}
    BY <1>9, <1>10 DEF All
  <1>13. Past(d, i + 1)'
    <2>1. \A x \in All(d)' : x.index < i + 1
      BY <1>5, <1>7, <1>12
    <2>2. 2 <= i + 1
      BY <1>4 DEF Past
    <2>3. QED BY <1>11, <2>1, <2>2 DEF Past
  <1>14. InUse(d)'
    <2>1. \A x \in All(d)' : 2 <= x.index /\ Below(d, x.index + 1)'
      <3>1. ASSUME NEW x \in All(d) PROVE 2 <= x.index /\ Below(d, x.index + 1)'
        BY <1>1, <1>5, <1>11 DEF InUse, BelowKept
      <3>2. 2 <= y.index /\ Below(d, y.index + 1)'
        BY <1>4, <1>7, <1>11 DEF Past
      <3>3. QED BY <3>1, <3>2, <1>12
    <2>2. \A x, z \in All(d)' : x.index = z.index => x = z
      BY <1>1, <1>5, <1>7, <1>12 DEF InUse
    <2>3. Ordered(d)'
      <3>1. \A x \in items[d] : x.index < y.index
        BY <1>5, <1>7 DEF All
      <3>2. QED BY <1>1, <1>9, <1>10, <3>1 DEF InUse, Ordered
    <2>4. counter'[d] # NotLoaded => Past(d, counter[d])'
      BY <1>9, <1>13 DEF Past, Below
    <2>5. node'[d].cnt # 0 /\ Past(d, node[d].cnt)'
      <3>1. PICK c \in Nat : c = node[d].cnt
        BY DirType
      <3>2. CASE i >= c
        BY <1>10, <1>13, <3>1, <3>2 DEF Past, Below
      <3>3. CASE i < c
        <4>1. c # 0 /\ Past(d, c)
          BY <1>1, <3>1, <3>3 DEF InUse
        <4>2. Below(d, c)' /\ 2 <= c
          BY <1>11, <4>1 DEF Past, BelowKept
        <4>3. \A x \in All(d)' : x.index < c
          BY <1>7, <1>12, <3>3, <4>1 DEF Past
        <4>4. node'[d].cnt = c
          BY <1>10, <3>1, <3>3
        <4>5. QED BY <4>1, <4>2, <4>3, <4>4 DEF Past, Below
      <3>4. QED BY <3>2, <3>3
    <2>6. QED BY <2>1, <2>2, <2>3, <2>4, <2>5 DEF InUse
  <1>15. /\ file'[f].linked /\ file'[f].ref = i /\ file'[f].cached = i
         /\ \A g \in Files : g # f => file'[g] = file[g]
    BY <1>8 DEF TypeInv, NamespaceTypeOK, Entry
  <1>16. Passed(d)'
    <2>1. \A k \in node'[d].del : InTree(d, k)' \/ k \in Phantoms(d)
      BY <1>9, <1>10 DEF InTree, Phantoms
    <2>2. Phantoms(d)' \subseteq Phantoms(d)
      BY <1>15, <2>1, PhantomsKept
    <2>3. \A k \in Phantoms(d) : k < i + 1
      BY <1>4, DirType
    <2>4. QED BY <1>9, <2>2, <2>3 DEF Passed
  <1>17. ASSUME NEW g \in Files, DirOf(g) = d, file'[g].linked
         PROVE  /\ [index |-> file'[g].ref, file |-> g] \in All(d)'
                /\ file'[g].ref \notin node'[d].del
                /\ file'[g].cached = NoIndex \/ file'[g].cached \notin node'[d].del
                /\ \A h \in Files : DirOf(h) = d /\ file'[h].linked /\ h # g =>
                     \/ file'[h].cached = NoIndex
                     \/ file'[h].cached \notin {file'[g].ref, file'[g].cached}
    <2>1. CASE g = f
      <3>1. [index |-> file'[g].ref, file |-> g] \in All(d)'
        BY <1>6, <1>12, <1>15, <2>1
      <3>2. ASSUME NEW h \in Files, DirOf(h) = d, file'[h].linked, h # g
            PROVE  \/ file'[h].cached = NoIndex
                   \/ file'[h].cached \notin {file'[g].ref, file'[g].cached}
        <4>1. file'[h] = file[h] /\ file[h].linked
          BY <1>15, <2>1, <3>2
        <4>2. file[h].cached = NoIndex \/ file[h].cached < i
          BY <1>5, <3>2, <4>1
        <4>3. QED BY <1>15, <2>1, <4>1, <4>2, DirType
      <3>3. QED BY <1>5, <1>10, <1>15, <2>1, <3>1, <3>2
    <2>2. CASE g # f
      <3>1. Known(g) /\ file[g].linked /\ file'[g] = file[g]
        BY <1>15, <1>17, <2>2 DEF LocalInv
      <3>2. ASSUME NEW h \in Files, DirOf(h) = d, file'[h].linked, h # g
            PROVE  \/ file'[h].cached = NoIndex
                   \/ file'[h].cached \notin {file'[g].ref, file'[g].cached}
        <4>1. CASE h = f
          <5>1. file[g].ref # i /\ (file[g].cached = NoIndex \/ file[g].cached < i)
            BY <1>5, <1>17, <3>1
          <5>2. file[g].cached # i
            BY <1>5, <5>1, DirType
          <5>3. QED BY <1>15, <3>1, <4>1, <5>1, <5>2
        <4>2. CASE h # f
          BY <1>15, <1>17, <3>1, <3>2, <4>2 DEF Known
        <4>3. QED BY <4>1, <4>2
      <3>3. /\ [index |-> file[g].ref, file |-> g] \in All(d)
            /\ file[g].ref \notin node[d].del
            /\ file[g].cached = NoIndex \/ file[g].cached \notin node[d].del
        BY <1>17, <3>1 DEF Known
      <3>4. QED BY <1>10, <1>12, <3>1, <3>2, <3>3
    <2>3. QED BY <2>1, <2>2
  <1>18. \A g \in Files : DirOf(g) = d => Known(g)'
    BY <1>17 DEF Known
  <1>19. QED BY <1>9, <1>14, <1>16, <1>18 DEF LocalInv

LEMMA LinkOrFailKeepsLocal ==
  ASSUME TypeInv, NEW t \in Tasks, NEW d \in Dirs, LocalInv(d), d \notin tainted', Onward(t),
         task[t].pc \in Early, task'[t].pc \in {"idle", "index"},
         LinkOrFail(task[t].file)
  PROVE  LocalInv(d)'
  <1>1. PICK f \in Files : f = task[t].file
    BY CallIs DEF Onward
  <1>2. LinkOrFail(f) /\ BelowKept(d)
    BY <1>1, BelowOnward
  <1>3. CASE LinkLocal(f) /\ DirOf(f) = d
    <2>1. In(t, d)
      BY <1>1, <1>3 DEF In, Onward
    <2>2. QED BY <1>3, <2>1, LinkKeepsLocal
  <1>4. CASE LinkLocal(f) /\ DirOf(f) # d
    <2>1. aborted'[d] = aborted[d] /\ items'[d] = items[d] /\ counter'[d] = counter[d]
      BY <1>4, Facts DEF LinkLocal, TypeInv, NamespaceTypeOK
    <2>2. node'[d] = node[d]
      BY <1>4, Facts DEF LinkLocal, QueueItem, TypeInv, NamespaceTypeOK
    <2>3. \A g \in Files : DirOf(g) = d => file'[g] = file[g]
      <3>1. \A g \in Files : g # f => file'[g] = file[g]
        BY <1>4 DEF LinkLocal, TypeInv, NamespaceTypeOK
      <3>2. QED BY <3>1, <1>4
    <2>4. DirFrame(d)
      BY <2>1, <2>2, <2>3 DEF DirFrame, Recaches
    <2>5. QED BY <1>2, <2>4, LocalFrame
  <1>5. CASE dirVars' = dirVars /\ file' = file
    <2>1. DirFrame(d)
      BY <1>5 DEF DirFrame, Recaches, dirVars
    <2>2. QED BY <1>2, <2>1, LocalFrame
  <1>6. QED BY <1>2, <1>3, <1>4, <1>5 DEF LinkOrFail

LEMMA ReturnIsIdle ==
  ASSUME TypeInv, NEW t \in Tasks, Return(t)
  PROVE  task'[t].pc = "idle"
  BY DEF Return, Idle, TypeInv, NamespaceTypeOK

LEMMA GotoIsAt ==
  ASSUME TypeInv, NEW t \in Tasks, NEW pc, Goto(t, pc)
  PROVE  task'[t].pc = pc
  BY DEF Goto, Call, TypeInv, NamespaceTypeOK

LEMMA CreateLocalLocal ==
  ASSUME TypeInv, NEW t \in Tasks, CreateLocal(t), NEW d \in Dirs, d \notin tainted',
         LocalInv(d)
  PROVE  LocalInv(d)'
  BY CreateLocalType, ReturnIsIdle, LinkOrFailKeepsLocal DEF CreateLocal, Early

LEMMA CreateShadowLocal ==
  ASSUME TypeInv, NEW t \in Tasks, CreateShadow(t), NEW d \in Dirs, d \notin tainted',
         LocalInv(d)
  PROVE  LocalInv(d)'
  BY CreateShadowType, GotoIsAt, LinkOrFailKeepsLocal DEF CreateShadow, Early

LEMMA CreateCallLocal ==
  ASSUME TypeInv, NEW t \in Tasks, NEW f \in Files, CreateCall(t, f),
         NEW d \in Dirs, LocalInv(d)
  PROVE  LocalInv(d)'
  <1>1. created' = created + 1 /\ created \in Nat
    BY DirType DEF CreateCall
  <1>2. BelowKept(d)
    <2> SUFFICES ASSUME NEW x \in Nat, Below(d, x) PROVE Below(d, x)'
      BY DEF BelowKept
    <2>1. x <= 2 + 2 * created
      BY DEF Below
    <2>2. x + 2 <= 2 + 2 * created'
      BY <1>1, <2>1
    <2>3. QED BY <1>1, <2>2 DEF Below
  <1>3. \A g \in Files : file'[g] = file[g] \/ file'[g] = [file[g] EXCEPT !.dentry = "plain"]
    BY DEF CreateCall, TypeInv, NamespaceTypeOK
  <1>4. DirFrame(d)
    BY <1>3, DirType DEF CreateCall, dirVars, DirFrame, Recaches, Entry
  <1>5. QED BY <1>2, <1>4, LocalFrame

LEMMA ReadCountLocal ==
  ASSUME TypeInv, NEW t \in Tasks, ReadCount(t), NEW d \in Dirs, LocalInv(d)
  PROVE  LocalInv(d)'
  <1>1. DirFrame(d)
    BY DEF ReadCount, dirVars, DirFrame, Recaches
  <1>2. \A u \in Tasks : /\ In(u, d)' => In(u, d)
                         /\ In(u, d)' /\ task'[u].pc = "index" => task[u].pc = "index"
                         /\ In(u, d)' /\ task'[u].pc \in Early => task[u].pc \in Early
    BY DEF ReadCount, In, Early, TypeInv, NamespaceTypeOK, Call
  <1>3. BelowKept(d)
    BY <1>2 DEF BelowKept, Below, ReadCount
  <1>4. QED BY <1>1, <1>3, LocalFrame

LEMMA PathCreateLocal ==
  ASSUME TypeInv, NEW t \in Tasks, PathCreate(t), NEW d \in Dirs, LocalInv(d)
  PROVE  LocalInv(d)'
  <1>1. DirFrame(d)
    BY DEF PathCreate, dirVars, DirFrame, Recaches
  <1>2. QED BY <1>1, PathCreateType, BelowOnward, LocalFrame

LEMMA SetIndexLocal ==
  ASSUME TypeInv, NEW t \in Tasks, SetIndex(t), NEW d \in Dirs, d \notin tainted', LocalInv(d)
  PROVE  LocalInv(d)'
  <1>1. PICK f \in Files, h \in Dirs, r \in Roots, own \in 0 .. NotLoaded,
             i \in 0 .. NotLoaded : SetIndexAt(t, f, h, r, own, i)
    BY SetIndexIs
  <1>2. Onward(t) /\ BelowKept(d) /\ d # r /\ d \in Indexed /\ h # r
    BY SetIndexType, BelowOnward, Facts
  <1>3. /\ counter'[d] = IF d = h THEN Plus1(own) ELSE counter[d]
        /\ items'[d] = items[d] /\ aborted'[d] = aborted[d] /\ node'[d] = node[d]
        /\ \A g \in Files : g # f => file'[g] = file[g]
        /\ DirOf(f) = h
    BY <1>1, <1>2 DEF SetIndexAt, TypeInv, NamespaceTypeOK
  <1>4. CASE d # h
    <2>1. \A g \in Files : DirOf(g) = d => file'[g] = file[g]
      BY <1>3, <1>4
    <2>2. DirFrame(d)
      BY <1>3, <1>4, <2>1 DEF DirFrame, Recaches
    <2>3. QED BY <1>2, <2>2, LocalFrame
  <1>5. CASE d = h
    <2>1. own # NotLoaded /\ ~ReadBehind(d, own) /\ task[t].pc = "index" /\ In(t, d)
      BY <1>1, <1>3, <1>5 DEF SetIndexAt, In
    <2>2. own = IF counter[d] = NotLoaded /\ node[d].cnt # 0 THEN node[d].cnt ELSE counter[d]
      BY <1>1, <1>5 DEF SetIndexAt, OwnFor
    <2>3. PICK c \in Nat : c = own
      OBVIOUS
    <2>4. Past(d, c)
      BY <2>1, <2>2, <2>3 DEF LocalInv, InUse
    <2>5. \A k \in Phantoms(d) : k < c
      <3>1. CASE counter[d] # NotLoaded
        BY <2>2, <2>3, <3>1 DEF LocalInv, Passed
      <3>2. CASE counter[d] = NotLoaded
        BY <2>1, <2>3, <3>2, DirType DEF ReadBehind
      <3>3. QED BY <3>1, <3>2
    <2>6. c + 1 <= 2 + 2 * created
      BY <2>1, <2>4 DEF Below, Past
    <2>7. c + 1 < NotLoaded /\ c < NotLoaded
      BY <2>6, DirType, Facts
    <2>8. counter'[d] = c + 1 /\ c + 1 # NotLoaded
      BY <1>3, <1>5, <2>3, <2>7, PlusOne, Facts
    <2>9. /\ c \notin node[d].del /\ c # NoIndex
          /\ \A y \in All(d) : y.index \in Nat /\ y.index < c
          /\ \A g \in Files : DirOf(g) = d /\ file[g].linked =>
               /\ file[g].ref # c
               /\ file[g].cached = NoIndex \/ file[g].cached < c
      BY <2>4, <2>5, <2>7, PastIsNew
    <2>10. Below(d, c + 1)'
      <3>1. task'[t].pc \in Numbered
        BY <1>1 DEF SetIndexAt, Numbered, TypeInv, NamespaceTypeOK, Call
      <3>2. QED BY <1>2, <2>1, <2>4, <3>1, BelowRaised DEF Past
    <2>11. All(d)' = All(d) /\ \A k : InTree(d, k)' <=> InTree(d, k)
      BY <1>3 DEF All, InTree
    <2>12. InUse(d)'
      <3>1. \A x \in All(d)' : 2 <= x.index /\ Below(d, x.index + 1)'
        BY <1>2, <2>9, <2>11 DEF LocalInv, InUse, BelowKept
      <3>2. \A x, z \in All(d)' : x.index = z.index => x = z
        BY <2>11 DEF LocalInv, InUse
      <3>3. Ordered(d)' /\ (node'[d].ins # {} => node'[d].cnt # 0)
        BY <1>3 DEF LocalInv, InUse, Ordered
      <3>4. Past(d, counter[d])'
        <4>1. \A x \in All(d)' : x.index < c + 1
          BY <2>9, <2>11
        <4>2. 2 <= c + 1
          BY <2>4 DEF Past
        <4>3. QED BY <2>8, <2>10, <4>1, <4>2 DEF Past, Below
      <3>5. node'[d].cnt # 0 => Past(d, node[d].cnt)'
        <4>1. PICK n \in Nat : n = node[d].cnt
          BY DirType
        <4>2. n # 0 => Past(d, n)
          BY <4>1 DEF LocalInv, InUse
        <4>3. QED BY <1>2, <1>3, <2>11, <4>1, <4>2 DEF Past, Below, BelowKept
      <3>6. QED BY <3>1, <3>2, <3>3, <3>4, <3>5 DEF InUse
    <2>13. /\ file'[f].linked = file[f].linked /\ file'[f].ref = file[f].ref
           /\ file'[f].cached = IF file[f].linked THEN c ELSE file[f].cached
      BY <1>1, <2>3 DEF SetIndexAt, TypeInv, NamespaceTypeOK, Entry
    <2>14. Passed(d)'
      <3>1. ASSUME NEW k \in Phantoms(d)' PROVE k \in Phantoms(d) \/ k = c
        <4>1. CASE k \in {j \in node'[d].del : ~InTree(d, j)'}
          BY <1>3, <2>11, <4>1 DEF Phantoms
        <4>2. CASE k \notin {j \in node'[d].del : ~InTree(d, j)'}
          <5>1. PICK g \in Files : /\ DirOf(g) = d /\ k = file'[g].cached
                                   /\ file'[g].cached \notin {NoIndex, file'[g].ref}
            BY <3>1, <4>2 DEF Phantoms
          <5>2. QED BY <1>3, <2>13, <5>1 DEF Phantoms
        <4>3. QED BY <4>1, <4>2
      <3>2. \A k \in Phantoms(d) : k < c + 1
        BY <2>5, DirType
      <3>3. QED BY <2>8, <3>1, <3>2 DEF Passed
    <2>15. ASSUME NEW g \in Files, DirOf(g) = d, file'[g].linked
           PROVE  /\ [index |-> file'[g].ref, file |-> g] \in All(d)'
                  /\ file'[g].ref \notin node'[d].del
                  /\ file'[g].cached = NoIndex \/ file'[g].cached \notin node'[d].del
                  /\ \A k \in Files : DirOf(k) = d /\ file'[k].linked /\ k # g =>
                       \/ file'[k].cached = NoIndex
                       \/ file'[k].cached \notin {file'[g].ref, file'[g].cached}
      <3>1. /\ file[g].linked /\ file'[g].ref = file[g].ref /\ Known(g)
            /\ file'[g].cached = IF g = f THEN c ELSE file[g].cached
        BY <1>3, <2>13, <2>15 DEF LocalInv
      <3>2. /\ [index |-> file[g].ref, file |-> g] \in All(d)
            /\ file[g].ref \notin node[d].del
            /\ file[g].cached = NoIndex \/ file[g].cached \notin node[d].del
            /\ \A k \in Files : DirOf(k) = d /\ file[k].linked /\ k # g =>
                 file[k].cached = NoIndex \/ file[k].cached \notin {file[g].ref, file[g].cached}
        BY <2>15, <3>1 DEF Known
      <3>3. ASSUME NEW k \in Files, DirOf(k) = d, file'[k].linked, k # g
            PROVE  \/ file'[k].cached = NoIndex
                   \/ file'[k].cached \notin {file'[g].ref, file'[g].cached}
        <4>1. file[k].linked /\ file'[k].cached = IF k = f THEN c ELSE file[k].cached
          BY <1>3, <2>13, <3>3
        <4>2. /\ file[k].ref # c /\ (file[k].cached = NoIndex \/ file[k].cached < c)
              /\ file[g].ref # c /\ (file[g].cached = NoIndex \/ file[g].cached < c)
          BY <2>9, <2>15, <3>1, <3>3, <4>1
        <4>3. file[k].cached # c /\ file[g].cached # c
          BY <2>9, <4>2, DirType
        <4>4. QED BY <3>1, <3>2, <3>3, <4>1, <4>2, <4>3
      <3>4. QED BY <1>3, <2>9, <2>11, <3>1, <3>2, <3>3
    <2>16. \A g \in Files : DirOf(g) = d => Known(g)'
      BY <2>15 DEF Known
    <2>17. QED BY <1>3, <2>12, <2>14, <2>16 DEF LocalInv
  <1>6. QED BY <1>4, <1>5

LEMMA RemoteStepLocal ==
  ASSUME TypeInv, NEW t \in Tasks, CountRemote(t) \/ LinkRemote(t) \/ RemoteFails(t),
         NEW d \in Dirs, LocalInv(d)
  PROVE  LocalInv(d)'
  <1>1. Onward(t)
    BY CountRemoteType, LinkRemoteType, RemoteFailsType
  <1>2. PICK r \in Roots : r = Remote(t)
    BY CallIs DEF CountRemote, LinkRemote, RemoteFails, RemotePoints
  <1>3. r # d /\ d \in Indexed
    BY Facts
  <1>4. /\ aborted'[d] = aborted[d] /\ items'[d] = items[d] /\ counter'[d] = counter[d]
        /\ node'[d] = node[d]
    <2>1. CASE CountRemote(t)
      BY <1>2, <1>3, <2>1 DEF CountRemote, Remote, TypeInv, NamespaceTypeOK
    <2>2. CASE LinkRemote(t)
      BY <1>2, <1>3, <2>2 DEF LinkRemote, QueueItem, Remote, TypeInv, NamespaceTypeOK
    <2>3. CASE RemoteFails(t)
      BY <1>2, <1>3, <2>3 DEF RemoteFails, Remote, TypeInv, NamespaceTypeOK
    <2>4. QED BY <2>1, <2>2, <2>3
  <1>5. \A g \in Files : file'[g] = file[g] \/ file'[g] = [file[g] EXCEPT !.dentry = "associated"]
    BY DEF CountRemote, LinkRemote, RemoteFails, Associate, TypeInv, NamespaceTypeOK
  <1>6. DirFrame(d)
    BY <1>4, <1>5, DirType DEF DirFrame, Recaches, Entry
  <1>7. QED BY <1>1, <1>6, BelowOnward, LocalFrame

LEMMA BelowElsewhere ==
  ASSUME Elsewhere, NEW d \in Dirs
  PROVE  BelowKept(d)
  BY DEF Elsewhere, BelowKept, Below, In

LEMMA UnlinkLocal ==
  ASSUME TypeInv, CacheInv, NEW t \in Tasks, NEW f \in Files, Unlink(t, f),
         NEW d \in Dirs, LocalInv(d)
  PROVE  LocalInv(d)'
  <1>1. Elsewhere /\ BelowKept(d) /\ d \in Indexed
    BY BelowElsewhere, Facts DEF Unlink, Elsewhere
  <1>2. counter' = counter /\ items' = items /\ file[f].linked /\ file[f].cached # NoIndex
    BY DEF Unlink, CacheInv
  <1>3. PICK h \in Dirs, j \in 0 .. Width :
           /\ h = DirOf(f) /\ j = IF file[f].cached # 0 THEN file[f].cached ELSE file[f].ref
           /\ node' \in [Indexed -> DelayedNode] /\ node'[h].cnt = node[h].cnt
           /\ \A e \in Indexed : e # h => node'[e] = node[e]
           /\ \/ /\ Pending(h, j) /\ node'[h].del = node[h].del
                 /\ node'[h].ins = {item \in node[h].ins : item.index # j}
                 /\ file' = [file EXCEPT ![f] = [Absent EXCEPT !.dentry = file[f].dentry]]
                 /\ aborted' = aborted
              \/ /\ ~Pending(h, j) /\ j \notin node[h].del /\ node'[h].ins = node[h].ins
                 /\ node'[h].del = node[h].del \cup {j}
                 /\ file' = [file EXCEPT ![f] = [Absent EXCEPT !.dentry = file[f].dentry]]
                 /\ aborted' = aborted
              \/ /\ j \in node[h].del /\ node' = node /\ file' = file
                 /\ aborted' = [aborted EXCEPT ![h] = "index"]
    BY UnlinkIs
  <1>4. CASE h # d
    <2>1. node'[d] = node[d] /\ aborted'[d] = aborted[d]
      BY <1>1, <1>3, <1>4 DEF TypeInv, NamespaceTypeOK
    <2>2. \A g \in Files : DirOf(g) = d => file'[g] = file[g]
      BY <1>3, <1>4, UnlinkedIs
    <2>3. DirFrame(d)
      BY <1>2, <2>1, <2>2 DEF DirFrame, Recaches
    <2>4. QED BY <1>1, <2>3, LocalFrame
  <1>5. CASE h = d
    <2>1. /\ Known(f) /\ DirOf(f) = d /\ j \in {file[f].cached, file[f].ref}
          /\ j = file[f].ref \/ j \notin {NoIndex, file[f].ref}
      BY <1>2, <1>3, <1>5 DEF LocalInv
    <2>2. j \notin node[d].del
      BY <1>2, <2>1 DEF Known
    <2>3. PICK y : y = [index |-> file[f].ref, file |-> f]
      OBVIOUS
    <2>4. y \in All(d) /\ y.index = file[f].ref /\ y.file = f
      BY <1>2, <2>1, <2>3 DEF Known
    <2>5. /\ \A g \in Files : g # f => file'[g] = file[g]
          /\ ~file'[f].linked /\ file'[f].cached = NoIndex
          /\ aborted'[d] = "no" /\ node'[d].cnt = node[d].cnt
          /\ node'[d].ins = {item \in node[d].ins : item.index # j}
      <3>1. file' = [file EXCEPT ![f] = [Absent EXCEPT !.dentry = file[f].dentry]]
            /\ aborted' = aborted
        BY <1>3, <1>5, <2>2
      <3>2. node'[d].ins = {item \in node[d].ins : item.index # j}
        BY <1>3, <1>5, <2>2 DEF Pending
      <3>3. QED BY <1>3, <1>5, <3>1, <3>2, UnlinkedIs DEF LocalInv
    <2>6. /\ node'[d].del \subseteq node[d].del \cup {j}
          /\ j \in node'[d].del => ~Pending(d, j)
      BY <1>3, <1>5, <2>2
    <2>7. All(d)' \subseteq All(d) /\ \A x \in All(d) : x.index # j => x \in All(d)'
      BY <1>2, <2>5 DEF All
    <2>8. InUse(d)'
      <3>1. Ordered(d)' /\ (node'[d].ins # {} => node'[d].cnt # 0)
        BY <1>2, <2>5 DEF LocalInv, InUse, Ordered
      <3>2. InUse(d) /\ counter'[d] = counter[d]
        BY <1>2 DEF LocalInv
      <3>3. QED BY <1>1, <2>5, <2>7, <3>1, <3>2, UseKept
    <2>9. Passed(d)'
      <3>1. \A k : InTree(d, k)' <=> InTree(d, k)
        BY <1>2 DEF InTree
      <3>2. ASSUME j \in node'[d].del PROVE InTree(d, j) \/ j \in Phantoms(d)
        <4>1. CASE j = file[f].ref
          BY <2>4, <2>6, <3>2, <4>1 DEF All, InTree, Pending
        <4>2. CASE j # file[f].ref
          BY <2>1, <4>2 DEF Phantoms
        <4>3. QED BY <4>1, <4>2
      <3>3. \A k \in node'[d].del : InTree(d, k)' \/ k \in Phantoms(d)
        BY <2>6, <3>1, <3>2 DEF Phantoms
      <3>4. Phantoms(d)' \subseteq Phantoms(d)
        BY <2>5, <3>3, PhantomsKept
      <3>5. QED BY <1>2, <3>4, PassedKept DEF LocalInv
    <2>10. ASSUME NEW g \in Files, DirOf(g) = d, file'[g].linked
           PROVE  /\ [index |-> file'[g].ref, file |-> g] \in All(d)'
                  /\ file'[g].ref \notin node'[d].del
                  /\ file'[g].cached = NoIndex \/ file'[g].cached \notin node'[d].del
                  /\ \A k \in Files : DirOf(k) = d /\ file'[k].linked /\ k # g =>
                       \/ file'[k].cached = NoIndex
                       \/ file'[k].cached \notin {file'[g].ref, file'[g].cached}
      <3>1. g # f /\ file'[g] = file[g] /\ file[g].linked /\ Known(g)
        BY <2>5, <2>10 DEF LocalInv
      <3>2. /\ [index |-> file[g].ref, file |-> g] \in All(d)
            /\ file[g].ref \notin node[d].del
            /\ file[g].cached = NoIndex \/ file[g].cached \notin node[d].del
            /\ \A k \in Files : DirOf(k) = d /\ file[k].linked /\ k # g =>
                 file[k].cached = NoIndex \/ file[k].cached \notin {file[g].ref, file[g].cached}
        BY <2>10, <3>1 DEF Known
      <3>3. file[f].cached \notin {file[g].ref, file[g].cached} /\ file[g].ref # file[f].ref
        BY <1>2, <2>1, <2>10, <3>1, <3>2, RefsDiffer
      <3>4. file[g].cached = NoIndex \/ file[g].cached # file[f].ref
        BY <1>2, <2>1, <2>10, <3>1 DEF Known
      <3>5. file[g].ref # j /\ (file[g].cached = NoIndex \/ file[g].cached # j)
        BY <2>1, <3>3, <3>4
      <3>6. PICK z : z = [index |-> file[g].ref, file |-> g]
        OBVIOUS
      <3>7. z \in All(d)'
        BY <2>7, <3>2, <3>5, <3>6
      <3>8. \A k \in Files : DirOf(k) = d /\ file'[k].linked /\ k # g =>
                       \/ file'[k].cached = NoIndex
                       \/ file'[k].cached \notin {file'[g].ref, file'[g].cached}
        BY <2>5, <3>1, <3>2
      <3>9. QED BY <2>6, <3>1, <3>2, <3>5, <3>6, <3>7, <3>8
    <2>11. \A g \in Files : DirOf(g) = d => Known(g)'
      BY <2>10 DEF Known
    <2>12. QED BY <2>5, <2>8, <2>9, <2>11 DEF LocalInv
  <1>6. QED BY <1>4, <1>5

LEMMA FlushLocal ==
  ASSUME TypeInv, NEW e \in Indexed, InsertDelayed(e) \/ DeleteDelayed(e),
         NEW d \in Dirs, LocalInv(d)
  PROVE  LocalInv(d)'
  <1>1. /\ Elsewhere /\ counter' = counter /\ file' = file
        /\ d # e => /\ node'[d] = node[d] /\ items'[d] = items[d]
                    /\ aborted'[d] = aborted[d]
    BY DirType, InsertIs, DeleteIs
  <1>2. BelowKept(d) /\ Recaches(d)
    BY <1>1, BelowElsewhere DEF Recaches
  <1>3. CASE d # e
    BY <1>1, <1>2, <1>3, LocalFrame DEF DirFrame
  <1>4. CASE d = e /\ InsertDelayed(e)
    <2>1. \A x \in items[d], y \in node[d].ins : x.index < y.index
      BY DEF LocalInv, InUse, Ordered
    <2>2. \A y \in node[d].ins : ~InTree(d, y.index)
      BY <2>1, DirType DEF InTree, All
    <2>3. PICK x \in node[d].ins :
            /\ \A y \in node[d].ins : x.index <= y.index
            /\ aborted' = aborted /\ items'[d] = items[d] \cup {x}
            /\ node'[d].ins = node[d].ins \ {x}
      BY <1>4, <2>2, InsertIs
    <2>4. node'[d].cnt = node[d].cnt /\ node'[d].del = node[d].del
      BY <1>4, InsertIs
    <2>5. All(d)' = All(d) /\ \A k : InTree(d, k) => InTree(d, k)'
      BY <2>3 DEF All, InTree
    <2>6. Ordered(d)'
      <3>1. \A y \in node[d].ins : y # x => x.index < y.index
        <4>1. \A y \in node[d].ins : y.index = x.index => y = x
          BY DEF LocalInv, InUse, All
        <4>2. QED BY <2>3, <4>1, DirType DEF All
      <3>2. QED BY <2>1, <2>3, <3>1 DEF Ordered
    <2>7. node'[d].ins # {} => node'[d].cnt # 0
      BY <2>3, <2>4 DEF LocalInv, InUse
    <2>8. QED BY <1>1, <1>2, <2>3, <2>4, <2>5, <2>6, <2>7, RecacheLocal
  <1>5. CASE d = e /\ DeleteDelayed(e)
    <2>1. PICK k \in node[d].del :
            /\ node'[d].del = node[d].del \ {k}
            /\ items'[d] = {item \in items[d] : item.index # k}
      BY <1>5, DeleteIs
    <2>2. aborted' = aborted /\ node'[d].ins = node[d].ins /\ node'[d].cnt = node[d].cnt
      BY <1>5, DeleteIs
    <2>3. /\ All(d)' \subseteq All(d)
          /\ \A x \in All(d) : x.index \notin node[d].del => x \in All(d)'
          /\ \A j \in node'[d].del : InTree(d, j) => InTree(d, j)'
      BY <2>1, <2>2 DEF All, InTree
    <2>4. Ordered(d)' /\ (node'[d].ins # {} => node'[d].cnt # 0)
      BY <2>1, <2>2 DEF LocalInv, InUse, Ordered
    <2>5. node'[d].del \subseteq node[d].del
      BY <2>1
    <2>6. QED BY <1>1, <1>2, <2>2, <2>3, <2>4, <2>5, RecacheLocal
  <1>6. QED BY <1>3, <1>4, <1>5

LEMMA LookupLocal ==
  ASSUME TypeInv, NEW f \in Files, Lookup(f), NEW d \in Dirs, LocalInv(d)
  PROVE  LocalInv(d)'
  <1>1. BelowKept(d) /\ dirVars' = dirVars
    BY BelowElsewhere DEF Lookup, Elsewhere
  <1>2. DirFrame(d)
    BY <1>1, LookupIs DEF dirVars, DirFrame, Recaches
  <1>3. QED BY <1>1, <1>2, LocalFrame

LEMMA DropDentryLocal ==
  ASSUME TypeInv, NEW f \in Files, DropDentry(f), NEW d \in Dirs, LocalInv(d)
  PROVE  LocalInv(d)'
  <1>1. BelowKept(d)
    BY BelowElsewhere DEF DropDentry, Elsewhere
  <1>2. DirFrame(d)
    BY DEF DropDentry, dirVars, DirFrame, Recaches, TypeInv, NamespaceTypeOK, Entry
  <1>3. QED BY <1>1, <1>2, LocalFrame

LEMMA EvictInodeLocal ==
  ASSUME TypeInv, NEW f \in Files, EvictInode(f), NEW d \in Dirs, LocalInv(d)
  PROVE  LocalInv(d)'
  <1>1. BelowKept(d)
    BY BelowElsewhere DEF EvictInode, Elsewhere
  <1>2. DirFrame(d)
    BY DEF EvictInode, dirVars, DirFrame, Recaches, TypeInv, NamespaceTypeOK, Entry
  <1>3. QED BY <1>1, <1>2, LocalFrame

LEMMA EvictDirLocal ==
  ASSUME TypeInv, NEW h \in Dirs, EvictDir(h), NEW d \in Dirs, LocalInv(d)
  PROVE  LocalInv(d)'
  <1>1. Elsewhere /\ BelowKept(d) /\ d \in Indexed
    BY BelowElsewhere, Facts DEF EvictDir, Elsewhere
  <1>2. /\ aborted' = aborted /\ items' = items /\ Recaches(d)
        /\ counter'[d] \in {counter[d], NotLoaded}
    BY <1>1 DEF EvictDir, Recaches, TypeInv, NamespaceTypeOK
  <1>3. CASE node'[d] = node[d]
    BY <1>1, <1>2, <1>3, LocalFrame DEF DirFrame
  <1>4. CASE node'[d] # node[d]
    <2>1. node[d].ins = {} /\ node'[d] = NoNode
      BY <1>1, <1>4 DEF EvictDir, TypeInv, NamespaceTypeOK
    <2>2. node'[d].ins = {} /\ node'[d].del = {} /\ node'[d].cnt = 0 /\ Ordered(d)'
      BY <2>1 DEF NoNode, Ordered
    <2>3. All(d)' = All(d)
      BY <1>2, <2>1, <2>2 DEF All
    <2>4. QED BY <1>1, <1>2, <2>2, <2>3, RecacheLocal
  <1>5. QED BY <1>3, <1>4

LEMMA RemountLocal ==
  ASSUME TypeInv, Remount, NEW d \in Dirs, LocalInv(d)
  PROVE  LocalInv(d)'
  <1>1. Elsewhere /\ BelowKept(d) /\ d \in Indexed /\ counter'[d] = NotLoaded
    BY BelowElsewhere, Facts DEF Remount, Elsewhere
  <1>2. \A f \in Files : /\ file'[f].cached = NoIndex /\ file'[f].ref = file[f].ref
                         /\ file'[f].linked = file[f].linked
    <2> SUFFICES ASSUME NEW f \in Files
                 PROVE  /\ file'[f].cached = NoIndex /\ file'[f].ref = file[f].ref
                        /\ file'[f].linked = file[f].linked
      OBVIOUS
    <2>1. file[f] \in Entry
      BY DEF TypeInv, NamespaceTypeOK
    <2>2. file'[f] = [file[f] EXCEPT !.cached = NoIndex, !.dentry = "none"]
      BY DEF Remount
    <2>3. QED BY <2>1, <2>2 DEF Entry
  <1>3. node'[d].ins = {} /\ node'[d].del = {} /\ node'[d].cnt = 0 /\ Ordered(d)'
    BY <1>1 DEF Remount, NoNode, Ordered
  <1>4. node[d].ins = {}
    <2>1. node[d] = [NoNode EXCEPT !.cnt = node[d].cnt]
      BY <1>1 DEF Remount
    <2>2. QED BY <2>1 DEF NoNode
  <1>5. All(d)' = All(d) /\ aborted' = aborted
    BY <1>3, <1>4 DEF Remount, All
  <1>6. QED BY <1>1, <1>2, <1>3, <1>5, RecacheLocal DEF Recaches

LEMMA StutterLocal ==
  ASSUME TypeInv, vars' = vars, NEW d \in Dirs, LocalInv(d)
  PROVE  LocalInv(d)'
  <1>1. DirFrame(d) /\ Elsewhere
    BY DEF vars, dirVars, DirFrame, Recaches, Elsewhere
  <1>2. QED BY <1>1, BelowElsewhere, LocalFrame

LocalsInv == \A d \in Dirs \ tainted : LocalInv(d)

LEMMA LocalsInit == Init => LocalsInv /\ CacheInv
  <1> SUFFICES ASSUME Init PROVE LocalsInv /\ CacheInv
    OBVIOUS
  <1>1. (\A f \in Files : ~file[f].linked) /\ \A t \in Tasks : task[t].pc = "idle"
    BY DEF Init, Absent, Idle
  <1>2. ASSUME NEW d \in Dirs PROVE LocalInv(d)
    <2>1. /\ aborted[d] = "no" /\ items[d] = {} /\ counter[d] = NotLoaded
          /\ node[d].ins = {} /\ node[d].cnt = 0
      BY Facts DEF Init, NoNode
    <2>2. All(d) = {}
      BY <2>1 DEF All
    <2>3. QED BY <1>1, <2>1, <2>2 DEF LocalInv, InUse, Ordered, Passed, Known
  <1>3. QED BY <1>1, <1>2 DEF LocalsInv, CacheInv

LEMMA TaintStays == [Next]_vars => tainted \subseteq tainted'
  <1>1. \A f : LinkLocal(f) => tainted \subseteq tainted'
    BY DEF LinkLocal
  <1>2. \A t \in Tasks : CreateLocal(t) \/ CreateShadow(t) => tainted \subseteq tainted'
    BY <1>1 DEF CreateLocal, CreateShadow, LinkOrFail
  <1>3. \A t \in Tasks : SetIndex(t) => tainted \subseteq tainted'
    BY DEF SetIndex
  <1>4. QED
    BY <1>2, <1>3 DEF Next, Work, ReadCount, CountRemote, LinkRemote, RemoteFails, PathCreate,
       CreateCall, Unlink, Lookup, DropDentry, EvictInode, InsertDelayed, DeleteDelayed,
       EvictDir, Remount, history, vars

LEMMA LocalsStep ==
  ASSUME TypeInv, CacheInv, LocalsInv, [Next]_vars
  PROVE  LocalsInv'
  <1>1. SUFFICES ASSUME NEW d \in Dirs, d \notin tainted', LocalInv(d) PROVE LocalInv(d)'
    BY TaintStays DEF LocalsInv
  <1>2. ASSUME NEW t \in Tasks, Work(t) PROVE LocalInv(d)'
    BY <1>1, <1>2, ReadCountLocal, CreateLocalLocal, CreateShadowLocal, SetIndexLocal,
       RemoteStepLocal DEF Work
  <1>3. ASSUME NEW t \in Tasks, PathCreate(t) PROVE LocalInv(d)'
    BY <1>1, <1>3, PathCreateLocal
  <1>4. ASSUME NEW t \in Tasks, NEW f \in Files, CreateCall(t, f) PROVE LocalInv(d)'
    BY <1>1, <1>4, CreateCallLocal
  <1>5. ASSUME NEW t \in Tasks, NEW f \in Files, Unlink(t, f) PROVE LocalInv(d)'
    BY <1>1, <1>5, UnlinkLocal
  <1>6. ASSUME NEW f \in Files, Lookup(f) \/ DropDentry(f) \/ EvictInode(f) PROVE LocalInv(d)'
    BY <1>1, <1>6, LookupLocal, DropDentryLocal, EvictInodeLocal
  <1>7. ASSUME NEW e \in Indexed, InsertDelayed(e) \/ DeleteDelayed(e) PROVE LocalInv(d)'
    BY <1>1, <1>7, FlushLocal
  <1>8. ASSUME NEW h \in Dirs, EvictDir(h) PROVE LocalInv(d)'
    BY <1>1, <1>8, EvictDirLocal
  <1>9. CASE Remount
    BY <1>1, <1>9, RemountLocal
  <1>10. CASE vars' = vars
    BY <1>1, <1>10, StutterLocal
  <1>11. QED BY <1>2, <1>3, <1>4, <1>5, <1>6, <1>7, <1>8, <1>9, <1>10 DEF Next

-----------------------------------------------------------------------------
(***************************************************************************)
(* The root directories of the remote partitions                           *)
(***************************************************************************)
LEMMA RootType ==
  ASSUME TypeInv, NEW r \in Roots
  PROVE  /\ r \in Indexed /\ counter[r] \in Nat /\ counter[r] \in 0 .. NotLoaded
         /\ \A y \in All(r) : y.index \in Nat /\ y.index \in 0 .. NotLoaded
         /\ created \in Nat /\ created <= MaxCreates
         /\ Waiting \in SUBSET Tasks /\ Cardinality(Waiting) \in Nat
         /\ Cardinality(Waiting) <= created
  <1>1. r \in Indexed
    BY Facts
  <1>2. counter[r] \in 0 .. NotLoaded /\ created \in 0 .. MaxCreates
        /\ items[r] \in SUBSET Item /\ node[r] \in DelayedNode
    BY <1>1 DEF TypeInv, NamespaceTypeOK
  <1>3. \A y \in All(r) : y.index \in 0 .. NotLoaded
    BY <1>2 DEF All, DelayedNode, Item
  <1>4. Waiting \in SUBSET Tasks
    BY DEF Waiting
  <1>5. Cardinality(Waiting) \in Nat
    BY <1>4, Facts, FS_Subset, FS_CardinalityType, Zenon
  <1>6. Cardinality(Waiting) <= created
    BY DEF TypeInv, CountInv
  <1>7. counter[r] \in Nat /\ \A y \in All(r) : y.index \in Nat
    BY <1>2, <1>3, Facts
  <1>8. QED BY <1>1, <1>2, <1>3, <1>4, <1>5, <1>6, <1>7

SmallKept == \A x \in Nat : Small(x) => Small(x)'

(* A step after which fewer creates are to take a number.                  *)

LEMMA WaitingOnward ==
  ASSUME TypeInv, NEW t \in Tasks, Onward(t), NEW r \in Roots
  PROVE  /\ SmallKept
         /\ task[t].pc \in Early \cup {"index"} /\ task'[t].pc \notin Early \cup {"index"}
              => \A x \in Nat : Small(x) => Small(x + 1)'
  <1>1. Waiting \in SUBSET Tasks /\ Waiting' \in SUBSET Tasks
    BY DEF Waiting
  <1>2. \A u \in Tasks : u # t => (u \in Waiting <=> u \in Waiting')
    BY DEF Waiting, Onward, TypeInv, NamespaceTypeOK
  <1>3. t \in Waiting' => t \in Waiting
    BY DEF Waiting, Onward, Numbered, Early
  <1>4. PICK p, q : p = Cardinality(Waiting) /\ q = Cardinality(Waiting')
    OBVIOUS
  <1>5. p \in Nat /\ q \in Nat /\ (q = p \/ q = p - 1)
    BY <1>1, <1>2, <1>3, <1>4, CardStep
  <1>6. ASSUME task[t].pc \in Early \cup {"index"}, task'[t].pc \notin Early \cup {"index"}
        PROVE  q = p - 1
    <2>1. t \in Waiting /\ t \notin Waiting'
      BY <1>6 DEF Waiting
    <2>2. QED BY <1>1, <1>2, <1>4, <2>1, CardStep
  <1>7. created' = created /\ created \in Nat
    BY RootType DEF Onward
  <1>8. \A x \in Nat : Small(x) <=> x + p <= 2 + created
    BY <1>4 DEF Small
  <1>9. \A x \in Nat : Small(x)' <=> x + q <= 2 + created
    BY <1>4, <1>7 DEF Small
  <1>10. \A x \in Nat : Small(x + 1)' <=> x + 1 + q <= 2 + created
    BY <1>4, <1>7 DEF Small
  <1>11. SmallKept
    BY <1>5, <1>7, <1>8, <1>9 DEF SmallKept
  <1>12. QED BY <1>5, <1>6, <1>7, <1>8, <1>10, <1>11

(* The calls that have a number in the root s had it before the step.      *)
NumberedKept(s) ==
  \A u \in Tasks : task'[u].pc \in Numbered /\ Remote(u)' = s => task'[u] = task[u]

RemoteFrame(r) ==
  /\ aborted'[r] = aborted[r] /\ items'[r] = items[r] /\ node'[r] = node[r]
  /\ counter'[r] = counter[r]

LEMMA RemoteFrom ==
  ASSUME NEW s \in Roots, NEW c \in 0 .. NotLoaded, counter'[s] = c,
         aborted'[s] # "index", node'[s].del = {},
         Apart(s)',
         Fresh(s, c)', c # NotLoaded => Small(c)',
         \A y \in All(s)' : y.index # NotLoaded => Small(y.index + 1)',
         \A u \in Tasks : task'[u].pc \in Numbered /\ Remote(u)' = s =>
           /\ task'[u].index \in 0 .. NotLoaded
           /\ \A i \in 0 .. NotLoaded : i = task'[u].index =>
                /\ Fresh(s, i)'
                /\ i # NotLoaded => Small(i + 1)'
                /\ c = IF task'[u].pc = "link" THEN Plus1(i) ELSE i
  PROVE  RemoteInv(s)'
  <1>1. Fresh(s, counter[s])' /\ (counter'[s] # NotLoaded => Small(counter[s])')
    BY DEF Fresh, Small
  <1>2. ASSUME NEW u \in Tasks, task'[u].pc \in Numbered, Remote(u)' = s
        PROVE  /\ Fresh(s, task[u].index)'
               /\ task'[u].index # NotLoaded => Small(task[u].index + 1)'
               /\ counter'[s] = IF task'[u].pc = "link" THEN Plus1(task'[u].index)
                                ELSE task'[u].index
    <2>1. PICK i \in 0 .. NotLoaded : i = task'[u].index
      BY <1>2
    <2>2. /\ Fresh(s, i)' /\ (i # NotLoaded => Small(i + 1)')
          /\ c = IF task'[u].pc = "link" THEN Plus1(i) ELSE i
      BY <1>2, <2>1
    <2>3. QED BY <2>1, <2>2 DEF Fresh, Small
  <1>3. \A y \in All(s)' : y.index # NotLoaded => Small(y.index + 1)'
    OBVIOUS
  <1>4. QED BY <1>1, <1>2, <1>3 DEF RemoteInv

LEMMA RemoteKept ==
  ASSUME TypeInv, NEW r \in Roots, RemoteInv(r), SmallKept, NumberedKept(r),
         aborted'[r] # "index", counter'[r] = counter[r], All(r)' = All(r),
         node'[r].del = {}, Apart(r)'
  PROVE  RemoteInv(r)'
  <1>1. PICK c \in 0 .. NotLoaded : c = counter[r] /\ c = counter'[r]
    BY RootType
  <1>2. Fresh(r, c)' /\ (c # NotLoaded => Small(c)')
    BY <1>1, RootType DEF RemoteInv, Fresh, SmallKept
  <1>3. \A y \in All(r)' : y.index # NotLoaded => Small(y.index + 1)'
    BY RootType DEF RemoteInv, SmallKept
  <1>4. ASSUME NEW u \in Tasks, task'[u].pc \in Numbered, Remote(u)' = r
        PROVE  /\ task'[u].index \in 0 .. NotLoaded
               /\ \A i \in 0 .. NotLoaded : i = task'[u].index =>
                    /\ Fresh(r, i)'
                    /\ i # NotLoaded => Small(i + 1)'
                    /\ c = IF task'[u].pc = "link" THEN Plus1(i) ELSE i
    <2>1. task'[u] = task[u] /\ task[u].pc \in Numbered
      BY <1>4 DEF NumberedKept
    <2>2. Remote(u) = r
      BY <1>4, <2>1 DEF Remote
    <2>3. task[u].index \in 0 .. NotLoaded
      BY <2>1 DEF TypeInv, CallInv
    <2>4. PICK i \in 0 .. NotLoaded : i = task[u].index
      BY <2>3
    <2>5. /\ Fresh(r, i) /\ (i # NotLoaded => Small(i + 1))
          /\ c = IF task[u].pc = "link" THEN Plus1(i) ELSE i
      BY <1>1, <2>1, <2>2, <2>4 DEF RemoteInv
    <2>6. Fresh(r, i)'
      BY <2>5 DEF Fresh
    <2>7. i # NotLoaded => Small(i + 1)'
      BY <2>5 DEF SmallKept
    <2>8. QED BY <2>1, <2>3, <2>4, <2>5, <2>6, <2>7
  <1>5. QED BY <1>1, <1>2, <1>3, <1>4, RemoteFrom

LEMMA FrameKept ==
  ASSUME TypeInv, NEW r \in Roots, RemoteInv(r), RemoteFrame(r), SmallKept, NumberedKept(r)
  PROVE  RemoteInv(r)'
  <1>1. All(r)' = All(r)
    BY DEF All, RemoteFrame
  <1>2. /\ aborted'[r] # "index" /\ counter'[r] = counter[r] /\ node'[r].del = {}
        /\ Apart(r)'
    BY DEF RemoteFrame, RemoteInv, Apart
  <1>3. QED BY <1>1, <1>2, RemoteKept

(* A call in another remote directory.                                     *)
LEMMA OtherRoot ==
  ASSUME TypeInv, NEW t \in Tasks, Onward(t), NEW s \in Roots, RemoteInv(s), RemoteFrame(s),
         Remote(t) # s
  PROVE  RemoteInv(s)'
  <1>1. SmallKept
    BY WaitingOnward
  <1>2. ASSUME NEW u \in Tasks, task'[u].pc \in Numbered, Remote(u)' = s
        PROVE  task'[u] = task[u]
    <2>1. CASE u = t
      <3>1. task'[t].n = task[t].n
        BY <1>2, <2>1 DEF Onward, Numbered
      <3>2. QED BY <1>2, <2>1, <3>1 DEF Remote
    <2>2. CASE u # t
      BY <2>2 DEF Onward, TypeInv, NamespaceTypeOK
    <2>3. QED BY <2>1, <2>2
  <1>3. QED BY <1>1, <1>2, FrameKept DEF NumberedKept

(* The current directory lets one call at a time into the remote root.     *)

LEMMA CwdOnward ==
  ASSUME TypeInv, CwdInv, NEW t \in Tasks, Onward(t),
         task'[t].pc \in CwdPoints => task[t].pc \in CwdPoints
  PROVE  CwdInv'
  <1>1. \A u \in Tasks : u # t => task'[u] = task[u]
    BY DEF Onward, TypeInv, NamespaceTypeOK
  <1>2. QED BY <1>1 DEF CwdInv

LEMMA CwdStep ==
  ASSUME TypeInv, OneCwd, CwdInv, [Next]_vars
  PROVE  CwdInv'
  <1>1. ASSUME NEW t \in Tasks, ReadCount(t) PROVE CwdInv'
    <2>1. task'[t].pc \in {"local", "path"} /\ \A u \in Tasks : u # t => task'[u] = task[u]
      BY <1>1 DEF ReadCount, TypeInv, NamespaceTypeOK, Call
    <2>2. QED BY <2>1 DEF CwdInv, CwdPoints
  <1>2. ASSUME NEW t \in Tasks, CreateLocal(t) \/ LinkRemote(t) \/ RemoteFails(t) PROVE CwdInv'
    <2>1. Onward(t) /\ task'[t].pc = "idle"
      BY <1>2, CreateLocalType, LinkRemoteType, RemoteFailsType, ReturnIsIdle
         DEF CreateLocal, LinkRemote, RemoteFails, Associate
    <2>2. QED BY <2>1, CwdOnward DEF CwdPoints
  <1>3. ASSUME NEW t \in Tasks, CreateShadow(t) \/ SetIndex(t) \/ CountRemote(t) PROVE CwdInv'
    <2>1. Onward(t)
      BY <1>3, CreateShadowType, SetIndexType, CountRemoteType
    <2>2. task[t].pc \in CwdPoints
      BY <1>3 DEF CreateShadow, SetIndex, CountRemote, CwdPoints
    <2>3. QED BY <2>1, <2>2, CwdOnward
  <1>4. ASSUME NEW t \in Tasks, PathCreate(t) PROVE CwdInv'
    <2>1. \A u \in Tasks : task[u].pc \notin CwdPoints
      BY <1>4 DEF PathCreate, CwdFree, OneCwd, CwdPoints
    <2>2. \A u \in Tasks : u # t => task'[u] = task[u]
      BY <1>4 DEF PathCreate, Goto, TypeInv, NamespaceTypeOK
    <2>3. QED BY <2>1, <2>2 DEF CwdInv
  <1>5. ASSUME NEW t \in Tasks, NEW f \in Files, CreateCall(t, f) PROVE CwdInv'
    <2>1. task'[t] = [Idle EXCEPT !.pc = "count", !.file = f]
          /\ \A u \in Tasks : u # t => task'[u] = task[u]
      BY <1>5 DEF CreateCall, TypeInv, NamespaceTypeOK
    <2>2. Idle \in Call
      BY Facts DEF Idle, Call
    <2>3. PICK e \in Call : e = Idle
      BY <2>2
    <2>4. task'[t].pc = "count"
      BY <2>1, <2>3 DEF Call
    <2>5. QED BY <2>1, <2>4 DEF CwdInv, CwdPoints
  <1>6. CASE task' = task
    BY <1>6 DEF CwdInv
  <1>7. QED
    BY <1>1, <1>2, <1>3, <1>4, <1>5, <1>6
       DEF Next, Work, Unlink, Lookup, DropDentry, EvictInode, EvictDir, InsertDelayed,
           DeleteDelayed, Remount, vars

LEMMA NumberedOnward ==
  ASSUME TypeInv, NEW t \in Tasks, Onward(t), task'[t].pc \notin Numbered
  PROVE  \A s : NumberedKept(s)
  BY DEF NumberedKept, Onward, TypeInv, NamespaceTypeOK

LEMMA CreateCallRemote ==
  ASSUME TypeInv, NEW t \in Tasks, NEW f \in Files, CreateCall(t, f),
         NEW r \in Roots, RemoteInv(r)
  PROVE  RemoteInv(r)'
  <1>1. task'[t] = [Idle EXCEPT !.pc = "count", !.file = f]
        /\ \A u \in Tasks : u # t => task'[u] = task[u]
    BY DEF CreateCall, TypeInv, NamespaceTypeOK
  <1>2. task'[t].pc = "count"
    <2>1. Idle \in Call
      BY Facts DEF Idle, Call
    <2>2. PICK e \in Call : e = Idle
      BY <2>1
    <2>3. QED BY <1>1, <2>2 DEF Call
  <1>3. NumberedKept(r)
    BY <1>1, <1>2 DEF NumberedKept, Numbered
  <1>4. SmallKept
    <2>1. Waiting \in SUBSET Tasks /\ Waiting' \in SUBSET Tasks
      BY DEF Waiting
    <2>2. t \notin Waiting /\ t \in Waiting'
          /\ \A u \in Tasks : u # t => (u \in Waiting <=> u \in Waiting')
      BY <1>1, <1>2 DEF Waiting, CreateCall, Early
    <2>3. PICK p, q : p = Cardinality(Waiting) /\ q = Cardinality(Waiting')
      OBVIOUS
    <2>4. p \in Nat /\ q = p + 1
      BY <2>1, <2>2, <2>3, CardStep
    <2>5. created' = created + 1 /\ created \in Nat
      BY RootType DEF CreateCall
    <2>6. \A x \in Nat : /\ Small(x) <=> x + p <= 2 + created
                         /\ Small(x)' <=> x + q <= 2 + (created + 1)
      BY <2>3, <2>5 DEF Small
    <2>7. QED BY <2>4, <2>5, <2>6 DEF SmallKept
  <1>5. RemoteFrame(r)
    BY DEF CreateCall, dirVars, RemoteFrame
  <1>6. QED BY <1>3, <1>4, <1>5, FrameKept

LEMMA ReadCountRemote ==
  ASSUME TypeInv, NEW t \in Tasks, ReadCount(t), NEW r \in Roots, RemoteInv(r)
  PROVE  RemoteInv(r)'
  <1>1. task'[t].pc \in {"local", "path"} /\ \A u \in Tasks : u # t => task'[u] = task[u]
    BY DEF ReadCount, TypeInv, NamespaceTypeOK, Call
  <1>2. NumberedKept(r)
    BY <1>1 DEF NumberedKept, Numbered
  <1>3. Waiting' = Waiting /\ created' = created
    BY <1>1 DEF Waiting, ReadCount, Early
  <1>4. SmallKept /\ RemoteFrame(r)
    BY <1>3 DEF SmallKept, Small, RemoteFrame, ReadCount, dirVars
  <1>5. QED BY <1>2, <1>4, FrameKept

LEMMA LocalStepRemote ==
  ASSUME TypeInv, NEW t \in Tasks, CreateLocal(t) \/ CreateShadow(t) \/ PathCreate(t),
         NEW r \in Roots, RemoteInv(r)
  PROVE  RemoteInv(r)'
  <1>1. Onward(t) /\ task'[t].pc \notin Numbered
    BY CreateLocalType, CreateShadowType, PathCreateType, ReturnIsIdle, GotoIsAt
       DEF CreateLocal, CreateShadow, PathCreate, Numbered
  <1>2. SmallKept /\ NumberedKept(r)
    BY <1>1, WaitingOnward, NumberedOnward
  <1>3. PICK f \in Files : f = task[t].file
    BY <1>1, CallIs DEF Onward
  <1>4. DirOf(f) # r /\ r \in Indexed
    BY Facts
  <1>5. RemoteFrame(r)
    <2>1. CASE LinkLocal(f)
      <3>1. /\ counter'[r] = counter[r] /\ items'[r] = items[r]
            /\ aborted'[r] = aborted[r]
        BY <1>4, <2>1 DEF LinkLocal, TypeInv, NamespaceTypeOK
      <3>2. node' = node \/ node' = QueueItem(DirOf(f), [index |-> Loaded(DirOf(f)), file |-> f])
        BY <2>1 DEF LinkLocal
      <3>3. node'[r] = node[r]
        BY <1>4, <3>2 DEF QueueItem, TypeInv, NamespaceTypeOK
      <3>4. QED BY <3>1, <3>3 DEF RemoteFrame
    <2>2. CASE dirVars' = dirVars
      BY <2>2 DEF dirVars, RemoteFrame
    <2>3. QED BY <1>3, <2>1, <2>2 DEF CreateLocal, CreateShadow, PathCreate, LinkOrFail
  <1>6. QED BY <1>2, <1>5, FrameKept

LEMMA ElsewhereKept ==
  ASSUME Elsewhere, NEW r \in Roots
  PROVE  SmallKept /\ NumberedKept(r)
  <1>1. Waiting' = Waiting
    BY DEF Elsewhere, Waiting
  <1>2. QED BY <1>1 DEF SmallKept, Small, Elsewhere, NumberedKept

LEMMA ElsewhereRemote ==
  ASSUME TypeInv, Elsewhere, NEW r \in Roots, RemoteInv(r), RemoteFrame(r)
  PROVE  RemoteInv(r)'
  BY ElsewhereKept, FrameKept

(* The flush of a delayed node finds none of its numbers in the tree.      *)
LEMMA FlushRemote ==
  ASSUME TypeInv, NEW e \in Indexed, InsertDelayed(e) \/ DeleteDelayed(e),
         NEW r \in Roots, RemoteInv(r)
  PROVE  RemoteInv(r)'
  <1>1. Elsewhere /\ counter' = counter
    BY InsertIs, DeleteIs
  <1>2. SmallKept /\ NumberedKept(r) /\ r \in Indexed
    BY <1>1, ElsewhereKept, Facts
  <1>3. CASE e # r
    <2>1. RemoteFrame(r)
      BY <1>1, <1>2, <1>3, InsertIs, DeleteIs DEF RemoteFrame
    <2>2. QED BY <1>1, <2>1, ElsewhereRemote
  <1>4. CASE e = r /\ InsertDelayed(r)
    <2>1. Apart(r) /\ \A y \in node[r].ins : ~InTree(r, y.index)
      BY DEF RemoteInv, Apart, InTree
    <2>2. PICK x \in node[r].ins :
            /\ aborted' = aborted /\ items'[r] = items[r] \cup {x}
            /\ node'[r].ins = node[r].ins \ {x}
      BY <1>2, <1>4, <2>1, InsertIs
    <2>3. node'[r].del = {}
      BY <1>2, <1>4, InsertIs DEF RemoteInv
    <2>4. All(r)' = All(r) /\ Apart(r)'
      BY <2>1, <2>2 DEF All, Apart
    <2>5. aborted'[r] # "index"
      BY <2>2 DEF RemoteInv
    <2>6. QED BY <1>1, <1>2, <2>3, <2>4, <2>5, RemoteKept
  <1>5. CASE e = r /\ DeleteDelayed(r)
    <2>1. \E k \in node[r].del : TRUE
      BY <1>2, <1>5, DeleteIs
    <2>2. QED BY <2>1 DEF RemoteInv
  <1>6. QED BY <1>3, <1>4, <1>5

LEMMA CachesRemote ==
  ASSUME TypeInv, NEW r \in Roots, RemoteInv(r),
         \/ \E t \in Tasks, f \in Files : Unlink(t, f)
         \/ \E f \in Files : Lookup(f) \/ DropDentry(f) \/ EvictInode(f)
         \/ \E d \in Dirs : EvictDir(d)
         \/ vars' = vars
  PROVE  RemoteInv(r)'
  <1>1. r \in Indexed /\ (\A d \in Dirs : d # r) /\ \A f \in Files : DirOf(f) # r
    BY Facts
  <1>2. Elsewhere
    BY DEF Unlink, Lookup, DropDentry, EvictInode, EvictDir, vars, Elsewhere
  <1>3. RemoteFrame(r)
    <2>1. ASSUME NEW t \in Tasks, NEW f \in Files, Unlink(t, f) PROVE RemoteFrame(r)
      <3>1. DirOf(f) # r
        BY <1>1
      <3>2. /\ counter'[r] = counter[r] /\ items'[r] = items[r]
            /\ aborted'[r] = aborted[r]
        BY <1>1, <2>1, <3>1 DEF Unlink, TypeInv, NamespaceTypeOK
      <3>3. node'[r] = node[r]
        BY <1>1, <2>1, <3>1 DEF Unlink, TypeInv, NamespaceTypeOK
      <3>4. QED BY <3>2, <3>3 DEF RemoteFrame
    <2>2. ASSUME NEW f \in Files, Lookup(f) \/ DropDentry(f) \/ EvictInode(f)
          PROVE  RemoteFrame(r)
      BY <2>2 DEF Lookup, DropDentry, EvictInode, dirVars, RemoteFrame
    <2>3. ASSUME NEW d \in Dirs, EvictDir(d) PROVE RemoteFrame(r)
      BY <1>1, <2>3 DEF EvictDir, RemoteFrame, TypeInv, NamespaceTypeOK
    <2>4. CASE vars' = vars
      BY <2>4 DEF vars, dirVars, RemoteFrame
    <2>5. QED BY <2>1, <2>2, <2>3, <2>4
  <1>4. QED BY <1>2, <1>3, ElsewhereRemote

(* The call that is in the remote root has it to itself.                   *)

LEMMA AloneAtRoot ==
  ASSUME TypeInv, CwdInv, NEW t \in Tasks, task[t].pc \in CwdPoints, Onward(t)
  PROVE  \A u \in Tasks : u # t => task'[u].pc \notin Numbered
  <1>1. \A u \in Tasks : u # t => task[u].pc \notin Numbered /\ task'[u] = task[u]
    BY DEF CwdInv, CwdPoints, Numbered, Onward, TypeInv, NamespaceTypeOK
  <1>2. QED BY <1>1

LEMMA SmallFits ==
  ASSUME TypeInv, NEW r \in Roots, NEW x \in Nat, Small(x)
  PROVE  x < NotLoaded /\ x + 1 < NotLoaded /\ Plus1(x) = x + 1
  <1>1. x <= 2 + created
    BY RootType DEF Small
  <1>2. x + 1 < NotLoaded
    BY <1>1, RootType, Facts
  <1>3. QED BY <1>2, PlusOne, Facts

LEMMA SetIndexNumber ==
  ASSUME TypeInv, NEW r \in Roots, RemoteInv(r), NEW i \in 0 .. NotLoaded,
         \/ i = FirstFree(r) /\ \A y \in node[r].ins : y.index < i
         \/ i = counter[r]
  PROVE  Fresh(r, i) /\ (i # NotLoaded => Small(i))
  <1>1. CASE i = counter[r]
    BY <1>1 DEF RemoteInv
  <1>2. CASE i = FirstFree(r) /\ InTree(r, NotLoaded)
    BY <1>1, <1>2, RootType, FirstFreeIs DEF TypeInv
  <1>3. CASE i = FirstFree(r) /\ items[r] = {} /\ \A y \in node[r].ins : y.index < i
    <2>1. i = 2 /\ i # NotLoaded
      BY <1>3, RootType, FirstFreeIs, Facts DEF TypeInv
    <2>2. Small(2)
      BY RootType DEF Small
    <2>3. QED BY <1>3, <2>1, <2>2 DEF Fresh, All
  <1>4. CASE /\ i = FirstFree(r) /\ ~InTree(r, NotLoaded) /\ items[r] # {}
             /\ \A y \in node[r].ins : y.index < i
    <2>1. PICK k \in items[r] : /\ i = Plus1(k.index)
                                /\ \A y \in items[r] : y.index <= k.index
      BY <1>4, RootType, FirstFreeIs DEF TypeInv
    <2>2. k \in All(r) /\ k.index # NotLoaded
      BY <1>4 DEF InTree, All
    <2>3. k.index \in Nat /\ k.index < NotLoaded
      BY <2>2, RootType, Facts
    <2>4. i = k.index + 1 /\ Small(k.index + 1)
      BY <2>1, <2>2, <2>3, PlusOne DEF RemoteInv
    <2>5. \A y \in items[r] : y.index < i
      <3>1. TAKE y \in items[r]
      <3>2. y.index <= k.index /\ y.index \in Nat
        BY <2>1, RootType DEF All
      <3>3. QED BY <2>3, <2>4, <3>2
    <2>6. i # NotLoaded
      <3>1. i \in Nat
        BY <2>3, <2>4
      <3>2. i < NotLoaded
        BY <2>4, <3>1, SmallFits
      <3>3. QED BY <3>1, <3>2, Facts
    <2>7. QED BY <1>4, <2>4, <2>5, <2>6 DEF Fresh, All
  <1>5. QED BY <1>1, <1>2, <1>3, <1>4

LEMMA SetIndexRemote ==
  ASSUME TypeInv, CwdInv, NEW t \in Tasks, SetIndex(t), NEW s \in Roots, s \notin tainted',
         RemoteInv(s)
  PROVE  RemoteInv(s)'
  <1>1. PICK f \in Files, d \in Dirs, r \in Roots, own \in 0 .. NotLoaded,
             i \in 0 .. NotLoaded : SetIndexAt(t, f, d, r, own, i)
    BY SetIndexIs
  <1>2. Onward(t) /\ d # r /\ d # s /\ s \in Indexed /\ r \in Indexed
    BY SetIndexType, Facts
  <1>3. /\ task'[t].pc = "count remote" /\ task'[t].index = i
        /\ Remote(t)' = r /\ task[t].pc = "index"
    <2>1. task[t] \in Call
      BY CallIs
    <2>2. task'[t] = [task[t] EXCEPT !.pc = "count remote", !.index = i]
      BY <1>1 DEF SetIndexAt, TypeInv, NamespaceTypeOK
    <2>3. task'[t].n = task[t].n
      BY <2>1, <2>2 DEF Call
    <2>4. Remote(t)' = Remote(t)
      BY <2>3 DEF Remote
    <2>5. QED BY <1>1, <2>1, <2>2, <2>4 DEF SetIndexAt, Call
  <1>4. /\ counter'[s] = IF s = r THEN i ELSE counter[s]
        /\ items'[s] = items[s] /\ aborted'[s] = aborted[s] /\ node'[s] = node[s]
    BY <1>1, <1>2 DEF SetIndexAt, TypeInv, NamespaceTypeOK
  <1>5. CASE s # r
    <2>1. Remote(t) # s
      BY <1>1, <1>5 DEF SetIndexAt
    <2>2. RemoteFrame(s)
      BY <1>4, <1>5 DEF RemoteFrame
    <2>3. QED BY <1>2, <2>1, <2>2, OtherRoot
  <1>6. CASE s = r
    <2>1. \A u \in Tasks : u # t => task'[u].pc \notin Numbered
      BY <1>2, <1>3, AloneAtRoot DEF CwdPoints
    <2>2. SmallKept /\ \A x \in Nat : Small(x) => Small(x + 1)'
      BY <1>2, <1>3, WaitingOnward DEF Early
    <2>3. All(s)' = All(s)
      BY <1>4 DEF All
    <2>4. \A y \in All(s)' : y.index # NotLoaded => Small(y.index + 1)'
      BY <2>2, <2>3, RootType DEF RemoteInv, SmallKept
    <2>5. Fresh(s, i) /\ (i # NotLoaded => Small(i))
      <3>1. CASE own = NotLoaded
        <4>1. i = FirstFree(s)
          BY <1>1, <1>6, <3>1 DEF SetIndexAt, IndexFor
        <4>2. s \in tainted' <=> s \in tainted \/ \E y \in node[s].ins : y.index >= i
          BY <1>1, <1>2, <1>6, <3>1 DEF SetIndexAt
        <4>3. \A y \in node[s].ins : ~(y.index >= i)
          BY <4>2
        <4>4. \A y \in node[s].ins : y.index \in Nat
          BY RootType DEF All
        <4>5. i \in Nat
          BY Facts
        <4>6. \A y \in node[s].ins : y.index < i
          BY <4>3, <4>4, <4>5
        <4>7. QED BY <4>1, <4>6, SetIndexNumber
      <3>2. CASE own # NotLoaded
        <4>1. i = counter[s]
          BY <1>1, <1>6, <3>2 DEF SetIndexAt, IndexFor
        <4>2. QED BY <4>1, SetIndexNumber
      <3>3. QED BY <3>1, <3>2
    <2>6. Fresh(s, i)' /\ (i # NotLoaded => Small(i)' /\ Small(i + 1)')
      BY <2>2, <2>3, <2>5, Facts DEF Fresh, SmallKept
    <2>7. ASSUME NEW u \in Tasks, task'[u].pc \in Numbered
          PROVE  task'[u].index = i /\ task'[u].pc # "link"
      BY <1>3, <2>1, <2>7
    <2>8. /\ aborted'[s] # "index" /\ counter'[s] = i /\ node'[s].del = {}
          /\ Apart(s)'
      BY <1>4, <1>6 DEF RemoteInv, Apart
    <2>9. QED BY <2>4, <2>6, <2>7, <2>8, RemoteFrom
  <1>7. QED BY <1>5, <1>6

(* What RemoteInv says of the call that has taken a number.                *)

LEMMA NumberIs ==
  ASSUME TypeInv, NEW t \in Tasks, task[t].pc \in Numbered, RemoteInv(Remote(t))
  PROVE  \E r \in Roots, i \in 0 .. NotLoaded :
           /\ r = Remote(t) /\ i = task[t].index /\ Fresh(r, i) /\ RemoteInv(r)
           /\ i # NotLoaded => Small(i + 1)
           /\ counter[r] = IF task[t].pc = "link" THEN Plus1(i) ELSE i
  <1>1. PICK r \in Roots : r = Remote(t)
    BY CallIs DEF Numbered, RemotePoints
  <1>2. PICK i \in 0 .. NotLoaded : i = task[t].index
    BY DEF TypeInv, CallInv
  <1>3. RemoteInv(r)
    BY <1>1
  <1>4. /\ Fresh(r, i) /\ (i # NotLoaded => Small(i + 1))
        /\ counter[r] = IF task[t].pc = "link" THEN Plus1(i) ELSE i
    BY <1>1, <1>2, <1>3 DEF RemoteInv
  <1>5. QED BY <1>1, <1>2, <1>3, <1>4

LEMMA CountRemoteRemote ==
  ASSUME TypeInv, CwdInv, NEW t \in Tasks, CountRemote(t), NEW s \in Roots, RemoteInv(s)
  PROVE  RemoteInv(s)'
  <1>1. Onward(t) /\ task[t].pc = "count remote" /\ task'[t].pc = "link"
    BY CountRemoteType, GotoIsAt DEF CountRemote
  <1>2. PICK r \in Roots : r = Remote(t)
    BY <1>1, CallIs DEF RemotePoints
  <1>3. /\ \E old : counter' = [counter EXCEPT ![r] = Plus1(old)]
        /\ items' = items /\ aborted' = aborted /\ node' = node
    BY <1>2 DEF CountRemote, Remote
  <1>4. CASE s # r
    <2>1. RemoteFrame(s)
      BY <1>3, <1>4, RootType DEF RemoteFrame, TypeInv, NamespaceTypeOK
    <2>2. QED BY <1>1, <1>2, <1>4, <2>1, OtherRoot
  <1>5. CASE s = r
    <2>1. PICK i \in 0 .. NotLoaded : /\ i = task[t].index /\ Fresh(s, i)
                                      /\ i # NotLoaded => Small(i + 1)
                                      /\ counter[s] = i
      BY <1>1, <1>2, <1>5, NumberIs DEF Numbered
    <2>2. PICK c \in 0 .. NotLoaded : c = Plus1(i)
      BY PlusOne, Facts
    <2>3. counter'[s] = c
      <3>1. counter' = [counter EXCEPT ![s] = Plus1(i)]
        BY <1>2, <1>5, <2>1 DEF CountRemote, Remote
      <3>2. QED BY <2>2, <3>1, RootType DEF TypeInv, NamespaceTypeOK
    <2>4. SmallKept /\ All(s)' = All(s)
      BY <1>1, <1>3, WaitingOnward DEF All
    <2>5. Fresh(s, c) /\ Small(c)
      <3>1. CASE i = NotLoaded
        <4>1. c = 0 /\ All(s) = {}
          BY <2>1, <2>2, <3>1, PlusOne DEF Fresh
        <4>2. Small(0)
          BY RootType DEF Small
        <4>3. QED BY <4>1, <4>2 DEF Fresh
      <3>2. CASE i # NotLoaded
        <4>1. c = i + 1 /\ Small(c)
          BY <2>1, <2>2, <3>2, PlusOne, Facts
        <4>2. c < NotLoaded
          BY <4>1, SmallFits
        <4>3. \A y \in All(s) : y.index = NotLoaded \/ y.index < c
          <5>1. \A y \in All(s) : y.index = NotLoaded \/ y.index < i
            BY <2>1, <3>2 DEF Fresh
          <5>2. QED BY <4>1, <5>1, RootType
        <4>4. c # NotLoaded
          BY <4>2, Facts
        <4>5. QED BY <4>1, <4>3, <4>4 DEF Fresh
      <3>3. QED BY <3>1, <3>2
    <2>6. \A y \in All(s)' : y.index # NotLoaded => Small(y.index + 1)'
      BY <2>4, RootType DEF RemoteInv, SmallKept
    <2>7. Small(c)' /\ Fresh(s, c)' /\ Fresh(s, i)' /\ (i # NotLoaded => Small(i + 1)')
      BY <2>1, <2>4, <2>5, Facts DEF SmallKept, Fresh
    <2>8. task'[t].index = i
      BY <2>1 DEF CountRemote, Goto, TypeInv, NamespaceTypeOK, Call
    <2>9. ASSUME NEW u \in Tasks, task'[u].pc \in Numbered
          PROVE  task'[u].index = i /\ task'[u].pc = "link"
      BY <1>1, <2>8, <2>9, AloneAtRoot DEF CwdPoints
    <2>10. /\ aborted'[s] # "index" /\ node'[s].del = {}
           /\ Apart(s)'
      BY <1>3 DEF RemoteInv, Apart
    <2>11. QED BY <2>2, <2>3, <2>6, <2>7, <2>9, <2>10, RemoteFrom
  <1>6. QED BY <1>4, <1>5

LEMMA LinkRemoteRemote ==
  ASSUME TypeInv, CwdInv, NEW t \in Tasks, LinkRemote(t), NEW s \in Roots, RemoteInv(s)
  PROVE  RemoteInv(s)'
  <1>1. Onward(t) /\ task[t].pc = "link" /\ task'[t].pc = "idle"
    BY LinkRemoteType, ReturnIsIdle DEF LinkRemote, Associate
  <1>2. PICK r \in Roots : r = Remote(t)
    BY <1>1, CallIs DEF RemotePoints
  <1>3. PICK f \in Files : f = task[t].file
    BY <1>1, CallIs
  <1>4. PICK i \in 0 .. NotLoaded : i = task[t].index
    BY <1>1 DEF TypeInv, CallInv, Numbered
  <1>5. PICK x \in Item : x = [index |-> i, file |-> f] /\ x.index = i
    <2>1. [index |-> i, file |-> f] \in Item
      BY DEF Item
    <2>2. QED BY <2>1
  <1>6. /\ counter' = counter /\ items' = items
        /\ \/ node' = node /\ aborted' = [aborted EXCEPT ![r] = "name"]
           \/ Pending(r, i) /\ node' = node /\ aborted' = [aborted EXCEPT ![r] = "index"]
           \/ node' = QueueItem(r, x) /\ aborted' = aborted
    BY <1>2, <1>3, <1>4, <1>5 DEF LinkRemote, Remote
  <1>7. /\ r \in Indexed /\ s \in Indexed
        /\ node \in [Indexed -> DelayedNode] /\ Plus1(x.index) \in 0 .. NotLoaded
    BY <1>5, PlusOne, Facts DEF TypeInv, NamespaceTypeOK
  <1>8. CASE s # r
    <2>1. node'[s] = node[s]
      BY <1>6, <1>7, <1>8, QueueItemIs
    <2>2. aborted'[s] = aborted[s]
      BY <1>6, <1>7, <1>8 DEF TypeInv, NamespaceTypeOK
    <2>3. RemoteFrame(s)
      BY <1>6, <2>1, <2>2 DEF RemoteFrame
    <2>4. QED BY <1>1, <1>2, <1>8, <2>3, OtherRoot
  <1>9. CASE s = r
    <2>1. /\ Fresh(s, i) /\ (i # NotLoaded => Small(i + 1)) /\ counter[s] = Plus1(i)
      <3>1. Remote(t) \in Roots /\ RemoteInv(Remote(t))
        BY <1>2, <1>9
      <3>2. QED BY <1>1, <1>2, <1>4, <1>9, <3>1, NumberIs DEF Numbered
    <2>2. \A y \in All(s) : y.index # i
      BY <2>1, RootType, Facts DEF Fresh
    <2>3. ~Pending(r, i)
      BY <1>9, <2>2 DEF Pending, All
    <2>4. \A u \in Tasks : task'[u].pc \notin Numbered
      BY <1>1, AloneAtRoot DEF CwdPoints, Numbered
    <2>5. SmallKept /\ NumberedKept(s)
      BY <1>1, <2>4, WaitingOnward DEF NumberedKept
    <2>6. CASE node' = node /\ aborted' = [aborted EXCEPT ![r] = "name"]
      <3>1. aborted'[s] = "name"
        BY <1>7, <1>9, <2>6 DEF TypeInv, NamespaceTypeOK
      <3>2. All(s)' = All(s)
        BY <1>6, <2>6 DEF All
      <3>3. /\ node'[s].del = {}
            /\ Apart(s)'
        BY <1>6, <2>6 DEF RemoteInv, Apart
      <3>4. QED BY <1>6, <2>5, <3>1, <3>2, <3>3, RemoteKept
    <2>7. CASE node' = QueueItem(r, x) /\ aborted' = aborted
      <3>1. node'[s].ins = node[s].ins \cup {x} /\ node'[s].del = node[s].del
        BY <1>7, <1>9, <2>7, QueueItemIs
      <3>2. All(s)' = All(s) \cup {x}
        BY <1>6, <3>1 DEF All
      <3>3. /\ aborted'[s] # "index" /\ node'[s].del = {}
            /\ Apart(s)'
        BY <1>5, <1>6, <2>2, <2>7, <3>1 DEF RemoteInv, All, Apart
      <3>4. PICK c \in 0 .. NotLoaded : c = counter[s] /\ c = Plus1(i) /\ c = counter'[s]
        BY <1>6, <2>1, RootType
      <3>5. c # NotLoaded /\ \A y \in All(s)' : y.index = NotLoaded \/ y.index < c
        <4>1. CASE i = NotLoaded
          <5>1. c = 0 /\ All(s) = {}
            BY <2>1, <3>4, <4>1, PlusOne DEF Fresh
          <5>2. QED BY <1>5, <3>2, <4>1, <5>1, Facts
        <4>2. CASE i # NotLoaded
          <5>1. c = i + 1 /\ Small(c)
            <6>1. i \in Nat /\ i < NotLoaded
              BY <4>2, Facts
            <6>2. c = i + 1
              BY <3>4, <6>1, PlusOne
            <6>3. Small(i + 1)
              BY <2>1, <4>2
            <6>4. QED BY <6>2, <6>3
          <5>2. c # NotLoaded
            <6>1. c < NotLoaded
              BY <5>1, SmallFits
            <6>2. QED BY <6>1, Facts
          <5>3. \A y \in All(s) : y.index = NotLoaded \/ y.index < c
            <6>1. \A y \in All(s) : y.index = NotLoaded \/ y.index < i
              BY <2>1, <4>2 DEF Fresh
            <6>2. QED BY <5>1, <6>1, RootType
          <5>4. QED BY <1>5, <3>2, <5>1, <5>2, <5>3
        <4>3. QED BY <4>1, <4>2
      <3>6. Fresh(s, c)' /\ Small(c)'
        <4>1. Small(c)
          BY <3>4, <3>5 DEF RemoteInv
        <4>2. QED BY <2>5, <3>5, <4>1, Facts DEF Fresh, SmallKept
      <3>7. \A y \in All(s)' : y.index # NotLoaded => Small(y.index + 1)'
        <4>1. \A y \in All(s) : y.index # NotLoaded => Small(y.index + 1)'
          BY <2>5, RootType DEF RemoteInv, SmallKept
        <4>2. i # NotLoaded => Small(i + 1)'
          BY <2>1, <2>5, Facts DEF SmallKept
        <4>3. QED BY <1>5, <3>2, <4>1, <4>2
      <3>8. QED BY <2>4, <3>3, <3>4, <3>6, <3>7, RemoteFrom
    <2>8. QED BY <1>6, <2>3, <2>6, <2>7
  <1>10. QED BY <1>8, <1>9

LEMMA RemoteFailsRemote ==
  ASSUME TypeInv, CwdInv, NEW t \in Tasks, RemoteFails(t), NEW s \in Roots, RemoteInv(s)
  PROVE  RemoteInv(s)'
  <1>1. Onward(t) /\ task[t].pc \in {"index", "link"} /\ task'[t].pc = "idle"
    BY RemoteFailsType, ReturnIsIdle DEF RemoteFails, Associate
  <1>2. \A u \in Tasks : task'[u].pc \notin Numbered
    BY <1>1, AloneAtRoot DEF CwdPoints, Numbered
  <1>3. SmallKept /\ NumberedKept(s)
    BY <1>1, <1>2, WaitingOnward DEF NumberedKept
  <1>4. PICK r \in Roots : r = Remote(t)
    BY <1>1, CallIs DEF RemotePoints
  <1>5. items' = items /\ aborted' = aborted /\ node' = node
        /\ \/ counter' = counter
           \/ /\ task[t].pc = "link"
              /\ counter' = [counter EXCEPT ![r] = (@ + Width - 1) % Width]
    BY <1>4 DEF RemoteFails, Remote
  <1>6. CASE RemoteFrame(s)
    BY <1>3, <1>6, FrameKept
  <1>7. CASE s = r /\ task[t].pc = "link"
             /\ counter' = [counter EXCEPT ![r] = (@ + Width - 1) % Width]
    <2>1. PICK i \in 0 .. NotLoaded : /\ Fresh(s, i)
                                      /\ i # NotLoaded => Small(i + 1)
                                      /\ counter[s] = Plus1(i)
      BY <1>4, <1>7, NumberIs DEF Numbered
    <2>2. counter'[s] = i
      <3>1. counter'[s] = (Plus1(i) + Width - 1) % Width
        BY <1>7, <2>1, RootType DEF TypeInv, NamespaceTypeOK
      <3>2. QED BY <3>1, MinusOne
    <2>3. i # NotLoaded => Small(i)
      <3>1. PICK p \in Nat : p = Cardinality(Waiting)
        BY RootType
      <3>2. i # NotLoaded => i + 1 + p <= 2 + created
        BY <2>1, <3>1 DEF Small
      <3>3. i # NotLoaded => i + p <= 2 + created
        BY <3>2, RootType, Facts
      <3>4. QED BY <3>1, <3>3 DEF Small
    <2>4. All(s)' = All(s)
      BY <1>5 DEF All
    <2>5. Fresh(s, i)' /\ (i # NotLoaded => Small(i)')
      BY <1>3, <2>1, <2>3, <2>4, Facts DEF Fresh, SmallKept
    <2>6. \A y \in All(s)' : y.index # NotLoaded => Small(y.index + 1)'
      BY <1>3, <2>4, RootType DEF RemoteInv, SmallKept
    <2>7. /\ aborted'[s] # "index" /\ node'[s].del = {}
          /\ Apart(s)'
      BY <1>5 DEF RemoteInv, Apart
    <2>8. QED BY <1>2, <2>2, <2>5, <2>6, <2>7, RemoteFrom
  <1>8. QED
    <2>1. RemoteFrame(s) \/ (s = r /\ task[t].pc = "link"
             /\ counter' = [counter EXCEPT ![r] = (@ + Width - 1) % Width])
      BY <1>5, RootType DEF RemoteFrame, TypeInv, NamespaceTypeOK
    <2>2. QED BY <1>6, <1>7, <2>1

RootsInv == \A r \in Roots \ tainted : RemoteInv(r)

LEMMA RemotesInit == Init => RemotesInv
  <1> SUFFICES ASSUME Init PROVE CwdInv /\ RootsInv
    BY DEF RemotesInv, RootsInv
  <1>1. \A t \in Tasks : task[t].pc = "idle"
    BY DEF Init, Idle
  <1>2. CwdInv
    BY <1>1 DEF CwdInv, CwdPoints
  <1>3. ASSUME NEW r \in Roots PROVE RemoteInv(r)
    <2>1. /\ aborted[r] = "no" /\ items[r] = {} /\ counter[r] = NotLoaded
          /\ node[r].ins = {} /\ node[r].del = {}
      BY Facts DEF Init, NoNode
    <2>2. QED BY <1>1, <2>1 DEF RemoteInv, Fresh, Numbered, All, Apart
  <1>4. QED BY <1>2, <1>3 DEF RootsInv

LEMMA RemotesStep ==
  ASSUME TypeInv, RemotesInv, [Next]_vars
  PROVE  RemotesInv'
  <1>1. remounted => remounted'
    BY DEF Next, Work, ReadCount, CreateLocal, CreateShadow, SetIndex, CountRemote, LinkRemote,
           RemoteFails, PathCreate, CreateCall, Unlink, Lookup, DropDentry, EvictInode,
           InsertDelayed, DeleteDelayed, EvictDir, Remount, history, vars
  <1>2. SUFFICES ASSUME ~remounted', OneCwd, CwdInv, \A r \in Roots \ tainted : RemoteInv(r)
                 PROVE  CwdInv' /\ \A r \in Roots \ tainted' : RemoteInv(r)'
    BY <1>1 DEF RemotesInv, OneCwd
  <1>3. CwdInv'
    BY <1>2, CwdStep
  <1>4. ASSUME NEW s \in Roots, s \notin tainted' PROVE RemoteInv(s)'
    <2>1. RemoteInv(s) /\ CwdInv
      BY <1>2, <1>4, TaintStays
    <2>2. ASSUME NEW t \in Tasks, Work(t) PROVE RemoteInv(s)'
      BY <1>4, <2>1, <2>2, ReadCountRemote, LocalStepRemote, SetIndexRemote, CountRemoteRemote,
         LinkRemoteRemote, RemoteFailsRemote DEF Work
    <2>3. ASSUME NEW t \in Tasks, PathCreate(t) PROVE RemoteInv(s)'
      BY <2>1, <2>3, LocalStepRemote
    <2>4. ASSUME NEW t \in Tasks, NEW f \in Files, CreateCall(t, f) PROVE RemoteInv(s)'
      BY <2>1, <2>4, CreateCallRemote
    <2>5. ASSUME NEW t \in Tasks, NEW f \in Files, Unlink(t, f) PROVE RemoteInv(s)'
      BY <2>1, <2>5, CachesRemote
    <2>6. ASSUME NEW f \in Files, Lookup(f) \/ DropDentry(f) \/ EvictInode(f)
          PROVE  RemoteInv(s)'
      BY <2>1, <2>6, CachesRemote
    <2>7. ASSUME NEW e \in Indexed, InsertDelayed(e) \/ DeleteDelayed(e) PROVE RemoteInv(s)'
      BY <2>1, <2>7, FlushRemote
    <2>8. ASSUME NEW d \in Dirs, EvictDir(d) PROVE RemoteInv(s)'
      BY <2>1, <2>8, CachesRemote
    <2>9. CASE Remount
      BY <1>2, <2>9 DEF Remount
    <2>10. CASE vars' = vars
      BY <2>1, <2>10, CachesRemote
    <2>11. QED BY <2>2, <2>3, <2>4, <2>5, <2>6, <2>7, <2>8, <2>9, <2>10 DEF Next
  <1>5. QED BY <1>3, <1>4

(* The inductive invariant holds.                                          *)
THEOREM NamespaceInvariant == Spec => []IInv
  <1>1. Init => IInv
    BY TypeInit, LocalsInit, RemotesInit DEF IInv, LocalsInv
  <1>2. IInv /\ [Next]_vars => IInv'
    BY TypeStep, CacheStep, LocalsStep, RemotesStep DEF IInv, LocalsInv
  <1>3. QED BY <1>1, <1>2, PTL DEF Spec

LEMMA SharedCwd ==
  ASSUME Cardinality({Cwd[t] : t \in Tasks}) = 1
  PROVE  OneCwd
  <1> DEFINE S == {Cwd[t] : t \in Tasks}
             F == [t \in Tasks |-> Cwd[t]]
  <1>1. F \in Surjection(Tasks, S)
    BY DEF Surjection
  <1>2. IsFiniteSet(S)
    <2> HIDE DEF S, F
    <2> QED BY <1>1, Facts, FS_Surjection
  <1>3. PICK x : S = {x}
    <2> HIDE DEF S
    <2>1. Cardinality(S) = 1
      BY DEF S
    <2> QED BY <1>2, <2>1, FS_Singleton
  <1>4. QED BY <1>3 DEF OneCwd

(* No index number is handed out twice in a directory of partition 0 that  *)
(* was given no counter but its own, and what is queued there is above all *)
(* that is in the tree; nor, within one mount, in the root directory of a  *)
(* remote partition if all tasks share a current directory.                *)
THEOREM IndicesAreFree == Spec => []IndexFree
  <1>1. IInv => IndexFree
    BY SharedCwd DEF IInv, LocalInv, InUse, Ordered, RemotesInv, RemoteInv, IndexFree
  <1>2. QED BY <1>1, NamespaceInvariant, PTL

(* The item of a linked file is in its directory under the file's number,  *)
(* and is still there when all that is queued has been done.               *)
THEOREM LinkedFilesAreListed == Spec => []LinkedIsListed
  <1>1. IInv => LinkedIsListed
    <2> SUFFICES ASSUME IInv, NEW f \in Files, file[f].linked, DirOf(f) \notin tainted
                 PROVE  [index |-> file[f].ref, file |-> f] \in Listed(DirOf(f))
      BY DEF LinkedIsListed
    <2>1. PICK d \in Dirs : d = DirOf(f)
      BY Facts
    <2>2. PICK x : x = [index |-> file[f].ref, file |-> f]
      OBVIOUS
    <2>3. x \in All(d) /\ x.index \notin node[d].del
      BY <2>1, <2>2 DEF IInv, LocalInv, Known
    <2>4. QED BY <2>1, <2>2, <2>3 DEF All, Listed
  <1>2. QED BY <1>1, NamespaceInvariant, PTL

(* The rotation over the partitions is never ahead of the creates, and     *)
(* behind them by no more than the creates of the other tasks.             *)
THEOREM SpreadIsEven == Spec => []SpreadIsBounded
  <1>1. TypeInv => SpreadIsBounded
    <2> SUFFICES ASSUME TypeInv, NEW v \in 0 .. created - 1
                 PROVE  v - Cardinality({k \in 1 .. Len(placed) : placed[k] \in 1 .. v})
                          \in 0 .. Cardinality(Tasks) - 1
      BY DEF SpreadIsBounded
    <2>1. PICK n, l, c \in Nat : /\ n = Cardinality(Tasks) /\ l = Len(placed)
                                 /\ c = Cardinality(Counting) /\ c <= n
      <3>1. Counting \in SUBSET Tasks
        BY DEF Counting
      <3>2. Cardinality(Tasks) \in Nat /\ Cardinality(Counting) \in Nat
            /\ Cardinality(Counting) <= Cardinality(Tasks)
        BY <3>1, Facts, FS_CardinalityType, FS_Subset
      <3>3. Len(placed) \in Nat
        BY DEF TypeInv, NamespaceTypeOK
      <3>4. QED BY <3>2, <3>3
    <2>2. created = l + c /\ \A k \in 1 .. l : placed[k] \in k .. k + n - 1
      BY <2>1 DEF TypeInv, CountInv
    <2>3. v \in Nat /\ v < l + c
      BY <2>1, <2>2
    <2>4. PICK R : R = {k \in 1 .. l : placed[k] \in 1 .. v}
      OBVIOUS
    <2>5. R \subseteq 1 .. v
      BY <2>1, <2>2, <2>3, <2>4
    <2>6. 1 .. (v - n + 1) \subseteq R
      <3>1. ASSUME NEW k \in 1 .. (v - n + 1) PROVE k \in R
        <4>1. k \in 1 .. l
          BY <2>1, <2>3
        <4>2. placed[k] \in k .. k + n - 1
          BY <2>2, <4>1
        <4>3. placed[k] \in 1 .. v
          BY <2>1, <2>3, <4>1, <4>2
        <4>4. QED BY <2>4, <4>1, <4>3
      <3>2. QED BY <3>1
    <2>7. IsFiniteSet(1 .. v) /\ Cardinality(1 .. v) = v
      BY <2>3, FS_Interval
    <2>8. IsFiniteSet(R) /\ Cardinality(R) <= v /\ Cardinality(R) \in Nat
      BY <2>5, <2>7, FS_Subset, FS_CardinalityType
    <2>9. Cardinality(R) >= v - n + 1
      <3>1. CASE v - n + 1 <= 0
        BY <2>1, <2>3, <2>8, <3>1
      <3>2. CASE v - n + 1 > 0
        <4>1. Cardinality(1 .. (v - n + 1)) = v - n + 1
          <5>1. 1 \in Int /\ v - n + 1 \in Int /\ v - n + 1 >= 1
            BY <2>1, <2>3, <3>2
          <5>2. Cardinality(1 .. (v - n + 1)) = (v - n + 1) - 1 + 1
            BY <5>1, FS_Interval
          <5>3. QED BY <5>1, <5>2
        <4>2. Cardinality(1 .. (v - n + 1)) <= Cardinality(R)
          BY <2>6, <2>8, FS_Subset
        <4>3. QED BY <4>1, <4>2, <2>1, <2>3, <2>8
      <3>3. QED BY <2>1, <2>3, <3>1, <3>2
    <2>10. v - Cardinality(R) \in 0 .. n - 1
      BY <2>1, <2>3, <2>8, <2>9
    <2>11. QED BY <2>1, <2>4, <2>10
  <1>2. IInv => TypeInv
    BY DEF IInv
  <1>3. QED BY <1>1, <1>2, NamespaceInvariant, PTL
=============================================================================
