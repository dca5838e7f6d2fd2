------------------------- MODULE SpaceTicketsProofs -------------------------
(***************************************************************************)
(* Reserving space, for any finite set of tasks and any sizes: types, that *)
(* no byte is leaked or forgotten, that no waiting task is forgotten, and  *)
(* that a ticket at the head of a queue does not fit.                      *)
(*                                                                         *)
(* Books says what is true of the space_info, the tickets and the tasks    *)
(* whenever the lock is free.  It is stated for any values of them, as     *)
(* btrfs_try_granting_tickets works on values that the step it is part of  *)
(* has changed before: a step is right if it leaves Books in order for     *)
(* what it passes on, and granting tickets keeps Books in order.           *)
(***************************************************************************)
EXTENDS SpaceTickets, FiniteSetTheorems, SequenceTheorems, WellFoundedInduction, TLAPS

Places == {"idle", "wait", "reclaim", "flush", "held"}
FlushNames == {"NO_FLUSH", "FLUSH_DATA", "FLUSH_FREE_SPACE_INODE", "FLUSH_EMERGENCY",
               "FLUSH_LIMIT", "FLUSH_EVICT", "FLUSH_ALL", "FLUSH_ALL_STEAL"}
TaskRecords == [pc : Places, flush : FlushNames, step : Nat]
Tickets == [bytes : Nat, want : Nat, error : {"no", "ENOSPC", "EIO", "EINTR"},
            steal : BOOLEAN]
Spaces == [total : Total .. MaxTotal, pinned : Nat, may_use : Nat, full : BOOLEAN,
           flush : BOOLEAN, reclaim : Nat, tickets : Seq(Tasks), priority : Seq(Tasks)]
Workers == [pc : {"off", "queued", "flush", "check", "fail"}, state : 0 .. COMMIT_TRANS,
            cycles : 0 .. 3, made : BOOLEAN]

(* What the tasks ts hold, and what the tickets tk ask for.                *)
Has(tk, ts) ==
  [t \in Tasks |->
     IF \/ ts[t].pc = "held"
        \/ ts[t].pc \in {"wait", "reclaim", "flush"} /\ tk[t].bytes = 0
     THEN tk[t].want ELSE 0]
Asked(tk) == [t \in Tasks |-> tk[t].bytes]

(* The queues hold tickets that are not answered, each of them once.       *)
Queued(sp) == ToSet(sp.tickets) \cup ToSet(sp.priority)
QueuesOK(sp, tk) ==
  /\ IsInjective(sp.tickets) /\ IsInjective(sp.priority)
  /\ ToSet(sp.tickets) \cap ToSet(sp.priority) = {}
  /\ \A t \in Queued(sp) : /\ tk[t].bytes > 0 /\ tk[t].want = tk[t].bytes
                           /\ tk[t].error = "no"

(* A task that waits for an answer is on its queue, and nobody else is.    *)
Attended(sp, tk, ts) ==
  \A t \in Tasks :
    /\ t \in ToSet(sp.tickets) => ts[t].pc = "wait"
    /\ t \in ToSet(sp.priority) => ts[t].pc \in {"reclaim", "flush"}
    /\ ts[t].pc = "wait" /\ tk[t].bytes > 0 /\ tk[t].error = "no"
         => t \in ToSet(sp.tickets)
    /\ ts[t].pc \in {"reclaim", "flush"} /\ tk[t].bytes > 0 => t \in ToSet(sp.priority)
    /\ tk[t].bytes = 0 => tk[t].error = "no"

Exact(sp, tk, ts, glob, delayed) ==
  /\ sp.may_use = glob + delayed + Bytes(Has(tk, ts), Tasks)
  /\ sp.reclaim = Bytes(Asked(tk), Queued(sp))

Typed(sp, tk, ts, glob, delayed) ==
  /\ sp \in Spaces /\ tk \in [Tasks -> Tickets] /\ ts \in [Tasks -> TaskRecords]
  /\ glob \in 0 .. GlobalSize /\ delayed \in Nat

Books(sp, tk, ts, glob, delayed) ==
  /\ Typed(sp, tk, ts, glob, delayed)
  /\ QueuesOK(sp, tk) /\ Attended(sp, tk, ts) /\ Exact(sp, tk, ts, glob, delayed)

(* Only the tasks of the normal queue depend on the worker.  It gives up   *)
(* in the metadata case after its third cycle.                             *)
WorkerInv ==
  /\ worker \in Workers
  /\ space.tickets # <<>> => space.flush
  /\ space.flush <=> worker.pc # "off"
  /\ worker.pc = "fail" => /\ aborted => ~worker.made
                           /\ kind = "metadata" => worker.cycles > 0
  /\ worker.cycles = 3 => worker.pc = "fail"

PriorityHead(sp, tk) ==
  sp.priority # <<>> => ~Fits(sp, Used(sp), tk[Head(sp.priority)].bytes, "NO_FLUSH")
NormalHead(sp, tk) ==
  sp.priority = <<>> /\ sp.tickets # <<>>
    => ~Fits(sp, Used(sp), tk[Head(sp.tickets)].bytes, "FLUSH_ALL")

(* maybe_fail_all_tickets tries the next ticket after each that it fails,  *)
(* unless the filesystem is aborted, when it fails them all.               *)
HeadInv ==
  ~untried => /\ PriorityHead(space, ticket)
              /\ Unlocked \/ ~aborted => NormalHead(space, ticket)

IInv ==
  /\ kind \in Kinds /\ progress \in BOOLEAN /\ aborted \in BOOLEAN
  /\ requests \in Nat /\ untried \in BOOLEAN
  /\ Books(space, ticket, task, global, dirty)
  /\ WorkerInv /\ HeadInv

-----------------------------------------------------------------------------
(***************************************************************************)
(* Sums of bytes                                                           *)
(***************************************************************************)
Amounts == [Tasks -> Nat]

LEMMA UnitsFinite ==
  ASSUME NEW f \in Amounts, NEW S \in SUBSET Tasks
  PROVE  IsFiniteSet(UNION {{x} \X (1 .. f[x]) : x \in S})
  <1> DEFINE U(x) == {x} \X (1 .. f[x])
             F == {U(x) : x \in S}
             g == [x \in S |-> U(x)]
  <1>1. IsFiniteSet(S)
    BY SpaceAssumption, FS_Subset, Zenon
  <1>2. g \in Surjection(S, F)
    <2>1. g \in [S -> F]
      BY Zenon
    <2>2. \A y \in F : \E x \in S : g[x] = y
      BY Zenon
    <2>3. QED BY <2>1, <2>2, Zenon DEF Surjection
  <1>3. IsFiniteSet(F)
    <2> HIDE DEF F, g
    <2> QED BY <1>1, <1>2, FS_Surjection, Zenon
  <1>4. ASSUME NEW y \in F PROVE IsFiniteSet(y)
    <2>1. PICK x \in S : y = U(x)
      BY Zenon
    <2>2. IsFiniteSet({x})
      BY FS_Singleton, Zenon
    <2>3. IsFiniteSet(1 .. f[x])
      <3>1. 1 \in Int /\ f[x] \in Int
        BY DEF Amounts
      <3>2. QED BY <3>1, FS_Interval, Zenon
    <2>4. QED BY <2>1, <2>2, <2>3, FS_Product, Zenon
  <1>5. QED
    <2> HIDE DEF F
    <2>1. IsFiniteSet(UNION F)
      BY <1>3, <1>4, FS_UNION, Zenon
    <2>2. QED BY <2>1, Zenon DEF F

LEMMA BytesType ==
  ASSUME NEW f \in Amounts, NEW S \in SUBSET Tasks
  PROVE  Bytes(f, S) \in Nat
  BY UnitsFinite, FS_CardinalityType, Zenon DEF Bytes

LEMMA BytesSame ==
  ASSUME NEW f, NEW g, NEW S, \A x \in S : f[x] = g[x]
  PROVE  Bytes(f, S) = Bytes(g, S)
  <1>1. {{x} \X (1 .. f[x]) : x \in S} = {{x} \X (1 .. g[x]) : x \in S}
    BY Zenon
  <1>2. QED BY <1>1, Zenon DEF Bytes

LEMMA BytesSplit ==
  ASSUME NEW f \in Amounts, NEW S \in SUBSET Tasks, NEW T \in SUBSET Tasks,
         S \cap T = {}
  PROVE  Bytes(f, S \cup T) = Bytes(f, S) + Bytes(f, T)
  <1> DEFINE A == UNION {{x} \X (1 .. f[x]) : x \in S}
             B == UNION {{x} \X (1 .. f[x]) : x \in T}
             C == UNION {{x} \X (1 .. f[x]) : x \in S \cup T}
  <1>1. C = A \cup B
    BY Zenon
  <1>2. A \cap B = {}
    <2>1. ASSUME NEW a \in A, a \in B PROVE FALSE
      <3>1. PICK x \in S : a \in {x} \X (1 .. f[x])
        BY <2>1, Zenon
      <3>2. PICK y \in T : a \in {y} \X (1 .. f[y])
        BY <2>1, Zenon
      <3>3. a[1] = x /\ a[1] = y
        BY <3>1, <3>2
      <3>4. QED BY <3>3, Zenon
    <2>2. QED BY <2>1, Zenon
  <1>3. IsFiniteSet(A) /\ IsFiniteSet(B)
    BY UnitsFinite, Zenon
  <1>4. Cardinality(C) = Cardinality(A) + Cardinality(B)
    <2> HIDE DEF A, B, C
    <2>1. Cardinality(A \cup B) = Cardinality(A) + Cardinality(B) - Cardinality(A \cap B)
      BY <1>3, FS_Union, Zenon
    <2>2. Cardinality(A \cap B) = 0
      BY <1>2, FS_EmptySet, Zenon
    <2>3. Cardinality(A) \in Nat /\ Cardinality(B) \in Nat
      BY <1>3, FS_CardinalityType, Zenon
    <2>4. QED BY <1>1, <2>1, <2>2, <2>3
  <1>5. QED BY <1>4 DEF Bytes

LEMMA BytesOne ==
  ASSUME NEW f \in Amounts, NEW x \in Tasks
  PROVE  Bytes(f, {x}) = f[x]
  <1>1. UNION {{y} \X (1 .. f[y]) : y \in {x}} = {x} \X (1 .. f[x])
    BY Zenon
  <1>2. f[x] \in Nat
    BY DEF Amounts
  <1>3. IsFiniteSet({x}) /\ Cardinality({x}) = 1
    BY FS_Singleton, Zenon
  <1>4. IsFiniteSet(1 .. f[x]) /\ Cardinality(1 .. f[x]) = f[x]
    <2>1. 1 \in Int /\ f[x] \in Int
      BY <1>2
    <2>2. IsFiniteSet(1 .. f[x])
          /\ Cardinality(1 .. f[x]) = IF 1 > f[x] THEN 0 ELSE f[x] - 1 + 1
      BY <2>1, FS_Interval, Zenon
    <2>3. QED BY <2>2, <1>2
  <1>5. Cardinality({x} \X (1 .. f[x])) = f[x]
    <2>1. Cardinality({x} \X (1 .. f[x])) = Cardinality({x}) * Cardinality(1 .. f[x])
      BY <1>3, <1>4, FS_Product, Zenon
    <2>2. QED BY <2>1, <1>2, <1>3, <1>4
  <1>6. QED BY <1>1, <1>2, <1>5 DEF Bytes

LEMMA BytesNone ==
  ASSUME NEW f, NEW S, \A x \in S : f[x] = 0
  PROVE  Bytes(f, S) = 0
  <1>1. UNION {{x} \X (1 .. f[x]) : x \in S} = {}
    <2>1. \A x \in S : {x} \X (1 .. f[x]) = {}
      <3>1. 1 .. 0 = {}
        OBVIOUS
      <3>2. QED BY <3>1
    <2>2. QED BY <2>1
  <1>2. QED BY <1>1, FS_EmptySet, Zenon DEF Bytes

(* What is left when a member is taken out of a set.                       *)
LEMMA BytesWithout ==
  ASSUME NEW f \in Amounts, NEW S \in SUBSET Tasks, NEW x \in S
  PROVE  /\ Bytes(f, S) = Bytes(f, S \ {x}) + f[x]
         /\ Bytes(f, S) \in Nat /\ Bytes(f, S \ {x}) \in Nat /\ f[x] \in Nat
         /\ Bytes(f, S) >= f[x]
  <1>1. S = (S \ {x}) \cup {x} /\ (S \ {x}) \cap {x} = {}
    BY Zenon
  <1>2. S \ {x} \in SUBSET Tasks /\ {x} \in SUBSET Tasks /\ x \in Tasks
    BY Zenon
  <1>3. Bytes(f, (S \ {x}) \cup {x}) = Bytes(f, S \ {x}) + Bytes(f, {x})
    BY <1>1, <1>2, BytesSplit, Zenon
  <1>4. Bytes(f, {x}) = f[x]
    BY <1>2, BytesOne, Zenon
  <1>5. Bytes(f, S) = Bytes(f, S \ {x}) + f[x]
    BY <1>1, <1>3, <1>4, Zenon
  <1>6. Bytes(f, S \ {x}) \in Nat /\ Bytes(f, S) \in Nat /\ f[x] \in Nat
    BY <1>2, BytesType DEF Amounts
  <1>7. QED BY <1>5, <1>6

(* Two functions that differ in one task.                                  *)
LEMMA BytesChange ==
  ASSUME NEW f \in Amounts, NEW g \in Amounts, NEW x \in Tasks,
         \A y \in Tasks \ {x} : f[y] = g[y]
  PROVE  /\ Bytes(g, Tasks) = Bytes(f, Tasks) - f[x] + g[x]
         /\ Bytes(f, Tasks) \in Nat /\ Bytes(g, Tasks) \in Nat
         /\ f[x] \in Nat /\ g[x] \in Nat /\ Bytes(f, Tasks) >= f[x]
  <1>1. Bytes(f, Tasks \ {x}) = Bytes(g, Tasks \ {x})
    BY BytesSame, Zenon
  <1>2. Tasks \in SUBSET Tasks
    BY Zenon
  <1>3. /\ Bytes(f, Tasks) = Bytes(f, Tasks \ {x}) + f[x]
        /\ Bytes(g, Tasks) = Bytes(g, Tasks \ {x}) + g[x]
        /\ Bytes(f, Tasks) \in Nat /\ Bytes(f, Tasks \ {x}) \in Nat /\ f[x] \in Nat
        /\ Bytes(g, Tasks) \in Nat /\ Bytes(g, Tasks \ {x}) \in Nat /\ g[x] \in Nat
        /\ Bytes(f, Tasks) >= f[x]
    BY <1>2, BytesWithout, Zenon
  <1>4. QED BY <1>1, <1>3

-----------------------------------------------------------------------------
(***************************************************************************)
(* Queues                                                                  *)
(***************************************************************************)
LEMMA SeqFacts ==
  ASSUME NEW q \in Seq(Tasks)
  PROVE  /\ Len(q) \in Nat /\ DOMAIN q = 1 .. Len(q)
         /\ \A i \in 1 .. Len(q) : q[i] \in Tasks /\ q[i] \in ToSet(q)
         /\ \A t \in ToSet(q) : t \in Tasks /\ \E i \in 1 .. Len(q) : q[i] = t
         /\ ToSet(q) \in SUBSET Tasks
         /\ q = <<>> <=> Len(q) = 0
         /\ q = <<>> <=> ToSet(q) = {}
  <1>1. Len(q) \in Nat /\ DOMAIN q = 1 .. Len(q) /\ q \in [1 .. Len(q) -> Tasks]
    BY LenProperties, Zenon
  <1>2. q = <<>> <=> Len(q) = 0
    BY <1>1, EmptySeq
  <1>3. /\ \A i \in 1 .. Len(q) : q[i] \in Tasks /\ q[i] \in ToSet(q)
        /\ \A t \in ToSet(q) : t \in Tasks /\ \E i \in 1 .. Len(q) : q[i] = t
    BY <1>1 DEF ToSet
  <1>4. q = <<>> <=> ToSet(q) = {}
    <2>1. Len(q) # 0 => 1 \in 1 .. Len(q)
      BY <1>1
    <2>2. Len(q) = 0 => 1 .. Len(q) = {}
      BY <1>1
    <2>3. QED BY <1>2, <1>3, <2>1, <2>2
  <1>5. QED BY <1>1, <1>2, <1>3, <1>4

LEMMA Injective ==
  ASSUME NEW q \in Seq(Tasks)
  PROVE  IsInjective(q) <=> \A i, j \in 1 .. Len(q) : q[i] = q[j] => i = j
  BY SeqFacts, Zenon DEF IsInjective

LEMMA Part ==
  ASSUME NEW q \in Seq(Tasks), NEW m \in Int, NEW n \in Int, 1 <= m, n <= Len(q)
  PROVE  /\ SubSeq(q, m, n) \in Seq(Tasks)
         /\ Len(SubSeq(q, m, n)) = IF m <= n THEN n - m + 1 ELSE 0
         /\ \A i \in 1 .. (n - m + 1) : SubSeq(q, m, n)[i] = q[m + i - 1]
  <1>1. SubSeq(q, m, n) \in Seq(Tasks)
    OBVIOUS
  <1>2. Len(SubSeq(q, m, n)) = IF m <= n THEN n - m + 1 ELSE 0
    OBVIOUS
  <1>3. ASSUME NEW i \in 1 .. (n - m + 1) PROVE SubSeq(q, m, n)[i] = q[m + i - 1]
    OBVIOUS
  <1>4. QED BY <1>1, <1>2, <1>3

(* A queue cut in two after n tickets.                                     *)
LEMMA Cut ==
  ASSUME NEW q \in Seq(Tasks), NEW n \in 0 .. Len(q)
  PROVE  LET a == SubSeq(q, 1, n)  b == SubSeq(q, n + 1, Len(q)) IN
         /\ a \in Seq(Tasks) /\ b \in Seq(Tasks)
         /\ Len(a) = n /\ Len(b) = Len(q) - n
         /\ \A i \in 1 .. n : a[i] = q[i]
         /\ \A i \in 1 .. (Len(q) - n) : b[i] = q[n + i]
         /\ ToSet(q) = ToSet(a) \cup ToSet(b)
         /\ IsInjective(q) => /\ IsInjective(a) /\ IsInjective(b)
                              /\ ToSet(a) \cap ToSet(b) = {}
  <1> DEFINE a == SubSeq(q, 1, n)
             b == SubSeq(q, n + 1, Len(q))
  <1>1. Len(q) \in Nat /\ n \in Nat /\ n <= Len(q)
    BY SeqFacts
  <1>2. /\ a \in Seq(Tasks) /\ Len(a) = n
        /\ \A i \in 1 .. n : a[i] = q[i]
    <2>1. 1 \in Int /\ n \in Int /\ 1 <= 1 /\ n <= Len(q)
      BY <1>1
    <2>2. a \in Seq(Tasks) /\ Len(a) = IF 1 <= n THEN n - 1 + 1 ELSE 0
      BY <2>1, Part
    <2>3. ASSUME NEW i \in 1 .. n PROVE a[i] = q[i]
      <3>1. i \in 1 .. (n - 1 + 1) /\ 1 + i - 1 = i
        BY <1>1
      <3>2. QED BY <2>1, <3>1, Part
    <2>4. QED BY <2>2, <2>3, <1>1
  <1>3. /\ b \in Seq(Tasks) /\ Len(b) = Len(q) - n
        /\ \A i \in 1 .. (Len(q) - n) : b[i] = q[n + i]
    <2>1. n + 1 \in Int /\ Len(q) \in Int /\ 1 <= n + 1 /\ Len(q) <= Len(q)
      BY <1>1
    <2>2. /\ b \in Seq(Tasks)
          /\ Len(b) = IF n + 1 <= Len(q) THEN Len(q) - (n + 1) + 1 ELSE 0
      BY <2>1, Part
    <2>3. ASSUME NEW i \in 1 .. (Len(q) - n) PROVE b[i] = q[n + i]
      <3>1. i \in 1 .. (Len(q) - (n + 1) + 1) /\ (n + 1) + i - 1 = n + i
        BY <1>1
      <3>2. QED BY <2>1, <3>1, Part
    <2>4. QED BY <2>2, <2>3, <1>1
  <1> HIDE DEF a, b
  <1>4. ToSet(q) = ToSet(a) \cup ToSet(b)
    <2>1. ASSUME NEW t \in ToSet(q) PROVE t \in ToSet(a) \cup ToSet(b)
      <3>1. PICK i \in 1 .. Len(q) : q[i] = t
        BY SeqFacts
      <3>2. CASE i <= n
        <4>1. i \in 1 .. n /\ a[i] = t
          BY <1>1, <1>2, <3>1, <3>2
        <4>2. QED BY <4>1, <1>2, SeqFacts
      <3>3. CASE i > n
        <4>1. i - n \in 1 .. (Len(q) - n) /\ n + (i - n) = i
          BY <1>1, <3>3
        <4>2. b[i - n] = t
          BY <4>1, <1>3, <3>1
        <4>3. QED BY <4>1, <4>2, <1>3, SeqFacts
      <3>4. QED BY <3>2, <3>3, <1>1
    <2>2. ASSUME NEW t \in ToSet(a) PROVE t \in ToSet(q)
      <3>1. PICK i \in 1 .. n : a[i] = t
        BY <1>2, SeqFacts
      <3>2. i \in 1 .. Len(q) /\ q[i] = t
        BY <3>1, <1>1, <1>2
      <3>3. QED BY <3>2, SeqFacts
    <2>3. ASSUME NEW t \in ToSet(b) PROVE t \in ToSet(q)
      <3>1. PICK i \in 1 .. (Len(q) - n) : b[i] = t
        BY <1>3, SeqFacts
      <3>2. n + i \in 1 .. Len(q) /\ q[n + i] = t
        BY <3>1, <1>1, <1>3
      <3>3. QED BY <3>2, SeqFacts
    <2>4. QED BY <2>1, <2>2, <2>3
  <1>5. ASSUME IsInjective(q)
        PROVE  IsInjective(a) /\ IsInjective(b) /\ ToSet(a) \cap ToSet(b) = {}
    <2>1. \A i, j \in 1 .. Len(q) : q[i] = q[j] => i = j
      BY <1>5, Injective
    <2>2. ASSUME NEW i \in 1 .. n, NEW j \in 1 .. n, a[i] = a[j] PROVE i = j
      BY <2>2, <2>1, <1>1, <1>2
    <2>3. ASSUME NEW i \in 1 .. (Len(q) - n), NEW j \in 1 .. (Len(q) - n), b[i] = b[j]
          PROVE  i = j
      <3>1. n + i \in 1 .. Len(q) /\ n + j \in 1 .. Len(q) /\ q[n + i] = q[n + j]
        BY <2>3, <1>1, <1>3
      <3>2. n + i = n + j
        BY <3>1, <2>1
      <3>3. QED BY <3>2, <1>1
    <2>4. ASSUME NEW t \in ToSet(a), t \in ToSet(b) PROVE FALSE
      <3>1. PICK i \in 1 .. n : a[i] = t
        BY <1>2, SeqFacts
      <3>2. PICK j \in 1 .. (Len(q) - n) : b[j] = t
        BY <2>4, <1>3, SeqFacts
      <3>3. i \in 1 .. Len(q) /\ n + j \in 1 .. Len(q) /\ q[i] = q[n + j]
        BY <3>1, <3>2, <1>1, <1>2, <1>3
      <3>4. i = n + j
        BY <3>3, <2>1
      <3>5. QED BY <3>4, <1>1
    <2>5. IsInjective(a)
      BY <2>2, <1>2, Injective
    <2>6. IsInjective(b)
      BY <2>3, <1>3, Injective
    <2>7. QED BY <2>4, <2>5, <2>6
  <1>6. QED BY <1>2, <1>3, <1>4, <1>5 DEF a, b

LEMMA HeadIs ==
  ASSUME NEW q \in Seq(Tasks), q # <<>>
  PROVE  Head(q) = q[1] /\ 1 \in 1 .. Len(q) /\ Head(q) \in ToSet(q) /\ Head(q) \in Tasks
  <1>1. 1 \in 1 .. Len(q)
    BY SeqFacts
  <1>2. Head(q) = q[1]
    OBVIOUS
  <1>3. QED BY <1>1, <1>2, SeqFacts

(* A ticket is taken out of a queue.                                       *)
LEMMA WithoutIs ==
  ASSUME NEW q \in Seq(Tasks), NEW t \in Tasks, IsInjective(q)
  PROVE  /\ Without(q, t) \in Seq(Tasks) /\ IsInjective(Without(q, t))
         /\ ToSet(Without(q, t)) = ToSet(q) \ {t}
         /\ q # <<>> /\ Head(q) # t
              => Without(q, t) # <<>> /\ Head(Without(q, t)) = Head(q)
  <1>1. CASE t \notin ToSet(q)
    BY <1>1 DEF Without
  <1>2. CASE t \in ToSet(q)
    <2>0. Len(q) \in Nat /\ \A i, j \in 1 .. Len(q) : q[i] = q[j] => i = j
      BY SeqFacts, Injective
    <2>1. PICK k \in 1 .. Len(q) : q[k] = t /\ Without(q, t) = RemoveAt(q, k)
      <3>1. \E i \in DOMAIN q : q[i] = t
        BY <1>2, SeqFacts, Zenon
      <3>2. LET k == CHOOSE i \in DOMAIN q : q[i] = t IN k \in DOMAIN q /\ q[k] = t
        BY <3>1, Zenon
      <3>3. Without(q, t) = RemoveAt(q, CHOOSE i \in DOMAIN q : q[i] = t)
        BY <1>2, Zenon DEF Without
      <3>4. QED BY <3>2, <3>3, SeqFacts, Zenon
    <2> DEFINE a == SubSeq(q, 1, k - 1)
               b == SubSeq(q, k + 1, Len(q))
               w == Without(q, t)
    <2>2. /\ a \in Seq(Tasks) /\ Len(a) = k - 1
          /\ \A i \in 1 .. (k - 1) : a[i] = q[i]
      <3>1. k - 1 \in 0 .. Len(q)
        BY <2>0
      <3>2. QED BY <3>1, Cut
    <2>3. /\ b \in Seq(Tasks) /\ Len(b) = Len(q) - k
          /\ \A i \in 1 .. (Len(q) - k) : b[i] = q[k + i]
      <3>1. k \in 0 .. Len(q)
        BY <2>0
      <3>2. QED BY <3>1, Cut
    <2>4. w = a \o b
      BY <2>1, Zenon DEF RemoveAt
    <2> HIDE DEF a, b, w
    <2>5. w \in Seq(Tasks) /\ Len(w) = Len(q) - 1
      BY <2>2, <2>3, <2>4, <2>0
    <2>6. ASSUME NEW i \in 1 .. (Len(q) - 1)
          PROVE  w[i] = IF i < k THEN q[i] ELSE q[i + 1]
      <3>1. i \in 1 .. (Len(a) + Len(b))
        BY <2>2, <2>3, <2>0
      <3>2. w[i] = IF i <= Len(a) THEN a[i] ELSE b[i - Len(a)]
        BY <3>1, <2>2, <2>3, <2>4, ConcatProperties
      <3>3. CASE i < k
        <4>1. i <= Len(a) /\ i \in 1 .. (k - 1)
          BY <3>3, <2>2, <2>0
        <4>2. QED BY <3>2, <3>3, <4>1, <2>2
      <3>4. CASE ~(i < k)
        <4>1. ~(i <= Len(a)) /\ i - Len(a) = i - k + 1
          BY <3>4, <2>2, <2>0
        <4>2. i - k + 1 \in 1 .. (Len(q) - k) /\ k + (i - k + 1) = i + 1
          BY <3>4, <2>0
        <4>3. b[i - k + 1] = q[i + 1]
          BY <4>2, <2>3
        <4>4. QED BY <3>2, <3>4, <4>1, <4>3
      <3>5. QED BY <3>3, <3>4
    <2>7. IsInjective(w)
      <3>1. ASSUME NEW i \in 1 .. Len(w), NEW j \in 1 .. Len(w), w[i] = w[j] PROVE i = j
        <4>1. /\ w[i] = IF i < k THEN q[i] ELSE q[i + 1]
              /\ w[j] = IF j < k THEN q[j] ELSE q[j + 1]
          BY <2>5, <2>6
        <4>2. /\ i \in 1 .. Len(q) /\ i + 1 \in 1 .. Len(q)
              /\ j \in 1 .. Len(q) /\ j + 1 \in 1 .. Len(q)
          BY <2>5, <2>0
        <4>3. QED BY <4>1, <4>2, <3>1, <2>0
      <3>2. QED BY <3>1, <2>5, Injective
    <2>8. ToSet(w) = ToSet(q) \ {t}
      <3>1. ASSUME NEW u \in ToSet(w) PROVE u \in ToSet(q) /\ u # t
        <4>1. PICK i \in 1 .. Len(w) : w[i] = u
          BY <2>5, SeqFacts
        <4>2. w[i] = IF i < k THEN q[i] ELSE q[i + 1]
          BY <2>5, <2>6
        <4>3. i \in 1 .. Len(q) /\ i + 1 \in 1 .. Len(q)
          BY <2>5, <2>0
        <4>4. PICK j \in 1 .. Len(q) : q[j] = u /\ j # k
          BY <4>1, <4>2, <4>3, <2>0
        <4>5. QED BY <4>4, <2>0, <2>1, SeqFacts
      <3>2. ASSUME NEW u \in ToSet(q), u # t PROVE u \in ToSet(w)
        <4>1. PICK j \in 1 .. Len(q) : q[j] = u
          BY SeqFacts
        <4>2. j # k
          BY <4>1, <3>2, <2>1
        <4>3. CASE j < k
          <5>1. j \in 1 .. (Len(q) - 1)
            BY <4>3, <2>0
          <5>2. w[j] = u
            BY <5>1, <2>6, <4>1, <4>3
          <5>3. QED BY <5>1, <5>2, <2>5, SeqFacts
        <4>4. CASE j > k
          <5>1. j - 1 \in 1 .. (Len(q) - 1) /\ ~(j - 1 < k) /\ (j - 1) + 1 = j
            BY <4>4, <2>0
          <5>2. w[j - 1] = u
            BY <5>1, <2>6, <4>1
          <5>3. QED BY <5>1, <5>2, <2>5, SeqFacts
        <4>5. QED BY <4>2, <4>3, <4>4, <2>0
      <3>3. QED BY <3>1, <3>2
    <2>9. ASSUME q # <<>>, Head(q) # t PROVE w # <<>> /\ Head(w) = Head(q)
      <3>1. Head(q) = q[1]
        BY <2>9, HeadIs
      <3>2. 1 < k /\ 1 \in 1 .. (Len(q) - 1)
        BY <2>9, <3>1, <2>1, <2>0
      <3>3. w[1] = q[1]
        BY <3>2, <2>6
      <3>4. w # <<>>
        BY <3>2, <2>5, SeqFacts
      <3>5. QED BY <3>1, <3>3, <3>4, <2>5, HeadIs
    <2>10. QED BY <2>5, <2>7, <2>8, <2>9 DEF w
  <1>3. QED BY <1>1, <1>2

(* A ticket is added at the end of a queue.                                *)
LEMMA AppendIs ==
  ASSUME NEW q \in Seq(Tasks), NEW t \in Tasks
  PROVE  /\ Append(q, t) \in Seq(Tasks) /\ Append(q, t) # <<>>
         /\ ToSet(Append(q, t)) = ToSet(q) \cup {t}
         /\ IsInjective(q) /\ t \notin ToSet(q) => IsInjective(Append(q, t))
         /\ Head(Append(q, t)) = IF q = <<>> THEN t ELSE Head(q)
  <1> DEFINE w == Append(q, t)
  <1>1. /\ w \in Seq(Tasks) /\ w # <<>> /\ Len(w) = Len(q) + 1
        /\ \A i \in 1 .. Len(q) : w[i] = q[i]
        /\ w[Len(q) + 1] = t
    BY AppendProperties
  <1>2. Len(q) \in Nat
    BY SeqFacts
  <1>3. Head(w) = IF q = <<>> THEN t ELSE Head(q)
    BY HeadTailAppend, Zenon
  <1> HIDE DEF w
  <1>4. ToSet(w) = ToSet(q) \cup {t}
    <2>1. ASSUME NEW u \in ToSet(w) PROVE u \in ToSet(q) \cup {t}
      <3>1. PICK i \in 1 .. Len(w) : w[i] = u
        BY <1>1, SeqFacts
      <3>2. i \in 1 .. Len(q) \/ i = Len(q) + 1
        BY <1>1, <1>2
      <3>3. QED BY <3>1, <3>2, <1>1, SeqFacts
    <2>2. ASSUME NEW u \in ToSet(q) PROVE u \in ToSet(w)
      <3>1. PICK i \in 1 .. Len(q) : q[i] = u
        BY SeqFacts
      <3>2. i \in 1 .. Len(w) /\ w[i] = u
        BY <3>1, <1>1, <1>2
      <3>3. QED BY <3>2, <1>1, SeqFacts
    <2>3. t \in ToSet(w)
      <3>1. Len(q) + 1 \in 1 .. Len(w)
        BY <1>1, <1>2
      <3>2. QED BY <3>1, <1>1, SeqFacts
    <2>4. QED BY <2>1, <2>2, <2>3
  <1>5. ASSUME IsInjective(q), t \notin ToSet(q) PROVE IsInjective(w)
    <2>1. \A i, j \in 1 .. Len(q) : q[i] = q[j] => i = j
      BY <1>5, Injective
    <2>2. \A i \in 1 .. Len(q) : q[i] # t
      BY <1>5, SeqFacts
    <2>3. ASSUME NEW i \in 1 .. Len(w), NEW j \in 1 .. Len(w), w[i] = w[j] PROVE i = j
      <3>1. /\ i \in 1 .. Len(q) \/ i = Len(q) + 1
            /\ j \in 1 .. Len(q) \/ j = Len(q) + 1
        BY <1>1, <1>2
      <3>2. QED BY <3>1, <2>1, <2>2, <2>3, <1>1, <1>2
    <2>4. QED BY <2>3, <1>1, Injective
  <1>6. QED BY <1>1, <1>3, <1>4, <1>5 DEF w

(* Two queues with nothing in common.                                      *)
LEMMA Joined ==
  ASSUME NEW q \in Seq(Tasks), NEW r \in Seq(Tasks)
  PROVE  /\ q \o r \in Seq(Tasks)
         /\ ToSet(q \o r) = ToSet(q) \cup ToSet(r)
         /\ IsInjective(q) /\ IsInjective(r) /\ ToSet(q) \cap ToSet(r) = {}
              => IsInjective(q \o r)
  <1> DEFINE w == q \o r
  <1>1. w \in Seq(Tasks) /\ Len(w) = Len(q) + Len(r)
    OBVIOUS
  <1>2. Len(q) \in Nat /\ Len(r) \in Nat
    BY SeqFacts
  <1>3. \A i \in 1 .. Len(w) : w[i] = IF i <= Len(q) THEN q[i] ELSE r[i - Len(q)]
    BY <1>1, ConcatProperties
  <1> HIDE DEF w
  <1>4. \A i \in 1 .. Len(w) :
          /\ i <= Len(q) => i \in 1 .. Len(q)
          /\ ~(i <= Len(q)) => i - Len(q) \in 1 .. Len(r)
    BY <1>1, <1>2
  <1>5. ToSet(w) = ToSet(q) \cup ToSet(r)
    <2>1. ASSUME NEW u \in ToSet(w) PROVE u \in ToSet(q) \cup ToSet(r)
      <3>1. PICK i \in 1 .. Len(w) : w[i] = u
        BY <1>1, SeqFacts
      <3>2. QED BY <3>1, <1>3, <1>4, SeqFacts
    <2>2. ASSUME NEW u \in ToSet(q) PROVE u \in ToSet(w)
      <3>1. PICK i \in 1 .. Len(q) : q[i] = u
        BY SeqFacts
      <3>2. i \in 1 .. Len(w) /\ i <= Len(q)
        BY <1>1, <1>2
      <3>3. QED BY <3>1, <3>2, <1>1, <1>3, SeqFacts
    <2>3. ASSUME NEW u \in ToSet(r) PROVE u \in ToSet(w)
      <3>1. PICK i \in 1 .. Len(r) : r[i] = u
        BY SeqFacts
      <3>2. Len(q) + i \in 1 .. Len(w) /\ ~(Len(q) + i <= Len(q)) /\ Len(q) + i - Len(q) = i
        BY <1>1, <1>2
      <3>3. w[Len(q) + i] = u
        BY <3>1, <3>2, <1>3
      <3>4. QED BY <3>2, <3>3, <1>1, SeqFacts
    <2>4. QED BY <2>1, <2>2, <2>3
  <1>6. ASSUME IsInjective(q), IsInjective(r), ToSet(q) \cap ToSet(r) = {}
        PROVE  IsInjective(w)
    <2>1. /\ \A i, j \in 1 .. Len(q) : q[i] = q[j] => i = j
          /\ \A i, j \in 1 .. Len(r) : r[i] = r[j] => i = j
      BY <1>6, Injective
    <2>2. \A i \in 1 .. Len(q), j \in 1 .. Len(r) : q[i] # r[j]
      BY <1>6, SeqFacts
    <2>3. ASSUME NEW i \in 1 .. Len(w), NEW j \in 1 .. Len(w), w[i] = w[j] PROVE i = j
      <3>1. i \in Int /\ j \in Int /\ Len(q) \in Int
        BY <1>2
      <3>2. CASE i <= Len(q) /\ j <= Len(q)
        BY <3>2, <2>1, <2>3, <1>3, <1>4
      <3>3. CASE i <= Len(q) /\ ~(j <= Len(q))
        BY <3>3, <2>2, <2>3, <1>3, <1>4
      <3>4. CASE ~(i <= Len(q)) /\ j <= Len(q)
        BY <3>4, <2>2, <2>3, <1>3, <1>4
      <3>5. CASE ~(i <= Len(q)) /\ ~(j <= Len(q))
        <4>1. i - Len(q) = j - Len(q)
          BY <3>5, <2>1, <2>3, <1>3, <1>4
        <4>2. QED BY <4>1, <3>1
      <3>6. QED BY <3>2, <3>3, <3>4, <3>5
    <2>4. QED BY <2>3, <1>1, Injective
  <1>7. QED BY <1>1, <1>5, <1>6 DEF w

-----------------------------------------------------------------------------
(***************************************************************************)
(* What fits                                                               *)
(***************************************************************************)
LEMMA AvailType ==
  ASSUME NEW sp \in Spaces, NEW flush
  PROVE  /\ Avail(sp, flush) \in Nat
         /\ Avail(sp, "FLUSH_ALL") <= Avail(sp, flush)
  <1>1. MaxTotal - sp.total \in Nat
    BY SpaceAssumption DEF Spaces
  <1>2. QED BY <1>1 DEF Avail

LEMMA FitsLess ==
  ASSUME NEW sp \in Spaces, NEW u \in Nat, NEW v \in Nat, NEW b \in Nat, NEW flush,
         u <= v, Fits(sp, v, b, flush)
  PROVE  Fits(sp, u, b, flush)
  <1>1. Avail(sp, flush) \in Nat /\ sp.total \in Nat
    BY AvailType, SpaceAssumption DEF Spaces
  <1>2. QED BY <1>1 DEF Fits, CanOvercommit

(* The tickets of the normal queue are tried with the smallest allowance.  *)
LEMMA FitsAll ==
  ASSUME NEW sp \in Spaces, NEW u \in Nat, NEW b \in Nat, NEW flush,
         Fits(sp, u, b, "FLUSH_ALL")
  PROVE  Fits(sp, u, b, flush)
  <1>1. /\ Avail(sp, flush) \in Nat /\ Avail(sp, "FLUSH_ALL") \in Nat
        /\ Avail(sp, "FLUSH_ALL") <= Avail(sp, flush) /\ sp.total \in Nat
    BY AvailType, SpaceAssumption DEF Spaces
  <1>2. QED BY <1>1 DEF Fits, CanOvercommit

LEMMA FitsSame ==
  ASSUME NEW sp, NEW other, sp.total = other.total, NEW u, NEW b, NEW flush
  PROVE  Fits(sp, u, b, flush) <=> Fits(other, u, b, flush)
  BY Zenon DEF Fits, CanOvercommit, Avail

LEMMA FitsOthers ==
  ASSUME NEW sp, NEW u, NEW b, NEW flush, flush # "FLUSH_ALL"
  PROVE  Fits(sp, u, b, flush) <=> Fits(sp, u, b, "NO_FLUSH")
  BY DEF Fits, CanOvercommit, Avail

LEMMA LargestExists ==
  ASSUME NEW n \in Nat, NEW S \in SUBSET (0 .. n), S # {}
  PROVE  \E k \in S : \A m \in S : m <= k
  <1> DEFINE Above(x) == {m \in S : m > x}
             T == {Above(x) : x \in S}
             R == StrictSubsetOrdering(S)
  <1>1. IsFiniteSet(S)
    <2>1. IsFiniteSet(0 .. n)
      BY FS_Interval
    <2>2. QED BY <2>1, FS_Subset, Zenon
  <1>2. T \subseteq FiniteSubsetsOf(S) /\ T # {}
    <2>1. ASSUME NEW x \in S PROVE Above(x) \in FiniteSubsetsOf(S)
      <3>1. Above(x) \in SUBSET S
        OBVIOUS
      <3>2. IsFiniteSet(Above(x))
        <4> HIDE DEF Above
        <4> QED BY <1>1, <3>1, FS_Subset, Zenon
      <3>3. QED BY <3>1, <3>2, Zenon DEF FiniteSubsetsOf
    <2>2. QED BY <2>1
  <1>3. IsWellFoundedOn(R, FiniteSubsetsOf(S))
    BY FS_StrictSubsetOrderingWellFounded
  <1>4. PICK X \in T : \A Y \in T : ~(<<Y, X>> \in R)
    <2> HIDE DEF T, R
    <2> QED BY <1>2, <1>3, WFMin
  <1>5. PICK x \in S : X = Above(x)
    BY <1>4
  <1>6. ASSUME NEW y \in S, y > x
        PROVE  FALSE
    <2>1. Above(y) \in SUBSET S /\ Above(x) \in SUBSET S
      OBVIOUS
    <2>2. Above(y) \subseteq Above(x)
      <3>1. ASSUME NEW m \in S, m > y PROVE m > x
        <4>1. m \in Int /\ y \in Int /\ x \in Int
          OBVIOUS
        <4>2. QED BY <1>6, <3>1, <4>1
      <3>2. QED BY <3>1
    <2>3. y \in Above(x) /\ y \notin Above(y)
      BY <1>6
    <2>4. <<Above(y), Above(x)>> \in R
      <3> HIDE DEF Above
      <3> QED BY <2>1, <2>2, <2>3 DEF StrictSubsetOrdering
    <2>5. QED BY <1>4, <1>5, <2>4
  <1>7. QED BY <1>6

LEMMA CoveredIs ==
  ASSUME NEW sp \in Spaces, NEW tk \in [Tasks -> Tickets], NEW q \in Seq(Tasks),
         NEW used \in Nat, NEW flush
  PROVE  \E n \in 0 .. Len(q) :
           /\ Covered(sp, tk, q, used, flush) = SubSeq(q, 1, n)
           /\ n < Len(q) => ~Fits(sp, used + BytesOf(tk, SubSeq(q, 1, n)),
                                  tk[q[n + 1]].bytes, flush)
  <1> DEFINE F(i) == Fits(sp, used + BytesOf(tk, SubSeq(q, 1, i - 1)), tk[q[i]].bytes, flush)
             S == {n \in 0 .. Len(q) : \A i \in 1 .. n : F(i)}
             n == Max(S)
  <1>1. Len(q) \in Nat
    BY SeqFacts
  <1>2. S \in SUBSET (0 .. Len(q)) /\ S # {}
    <2>1. 0 \in 0 .. Len(q) /\ 1 .. 0 = {}
      BY <1>1
    <2>2. 0 \in S
      BY <2>1
    <2>3. QED BY <2>2
  <1>3. n \in S /\ \A m \in S : n >= m
    <2> HIDE DEF S
    <2>1. PICK k \in S : \A m \in S : m <= k
      BY <1>1, <1>2, LargestExists
    <2>2. \A m \in S : k >= m
      BY <2>1, <1>2, <1>1
    <2>3. QED BY <2>1, <2>2, Zenon DEF Max
  <1>4. Covered(sp, tk, q, used, flush) = SubSeq(q, 1, n)
    BY Zenon DEF Covered
  <1>5. ASSUME n < Len(q) PROVE ~F(n + 1)
    <2> HIDE DEF F, n
    <2>1. n \in 0 .. Len(q) /\ \A i \in 1 .. n : F(i)
      BY <1>3
    <2>2. n + 1 \in 0 .. Len(q) /\ ~(n >= n + 1)
      BY <1>5, <2>1, <1>1
    <2>3. n + 1 \notin S
      BY <1>3, <2>2
    <2>4. PICK i \in 1 .. (n + 1) : ~F(i)
      BY <2>2, <2>3
    <2>5. i = n + 1
      BY <2>1, <2>4, <1>1
    <2>6. QED BY <2>4, <2>5
  <1>6. n \in 0 .. Len(q) /\ n + 1 - 1 = n
    <2>1. n \in 0 .. Len(q)
      BY <1>3
    <2>2. QED
      <3> HIDE DEF n
      <3> QED BY <2>1, <1>1
  <1>7. n < Len(q) => ~Fits(sp, used + BytesOf(tk, SubSeq(q, 1, n)), tk[q[n + 1]].bytes, flush)
    <2>1. F(n + 1) <=> Fits(sp, used + BytesOf(tk, SubSeq(q, 1, n)), tk[q[n + 1]].bytes, flush)
      <3> HIDE DEF n
      <3> QED BY <1>6
    <2>2. QED
      <3> HIDE DEF n, F
      <3> QED BY <1>5, <2>1
  <1>8. QED
    <2> HIDE DEF n
    <2> QED BY <1>4, <1>6, <1>7, Zenon

-----------------------------------------------------------------------------
(***************************************************************************)
(* Granting tickets                                                        *)
(***************************************************************************)
LEMMA AskedType ==
  ASSUME NEW tk \in [Tasks -> Tickets]
  PROVE  /\ Asked(tk) \in Amounts
         /\ \A t \in Tasks : Asked(tk)[t] = tk[t].bytes /\ tk[t].bytes \in Nat
  BY DEF Asked, Amounts, Tickets

(* W are the tickets that are granted, p and q what is left of the queues. *)
Left(sp, tk, W, p, q) ==
  /\ p \in Seq(Tasks) /\ IsInjective(p) /\ ToSet(p) = ToSet(sp.priority) \ W
  /\ q \in Seq(Tasks) /\ IsInjective(q) /\ ToSet(q) = ToSet(sp.tickets) \ W
  /\ p # <<>> => ~Fits(sp, Used(sp) + Bytes(Asked(tk), W), tk[Head(p)].bytes, "NO_FLUSH")
  /\ q # <<>> => ~Fits(sp, Used(sp) + Bytes(Asked(tk), W), tk[Head(q)].bytes, "FLUSH_ALL")

Grants(sp, tk, g, W, p, q) ==
  /\ W \in SUBSET Queued(sp)
  /\ Left(sp, tk, W, p, q)
  /\ g.sp = [sp EXCEPT !.may_use = @ + Bytes(Asked(tk), W),
                       !.reclaim = @ - Bytes(Asked(tk), W),
                       !.priority = p, !.tickets = q]
  /\ g.tk = [t \in Tasks |-> IF t \in W THEN [tk[t] EXCEPT !.bytes = 0] ELSE tk[t]]
  /\ g.any \in BOOLEAN

LEMMA GrantedIs ==
  ASSUME NEW sp \in Spaces, NEW tk \in [Tasks -> Tickets], QueuesOK(sp, tk)
  PROVE  \E W, p, q : Grants(sp, tk, Granted(sp, tk), W, p, q)
  <1> DEFINE P == sp.priority
             T == sp.tickets
             first == Covered(sp, tk, P, Used(sp), "NO_FLUSH")
             b1 == BytesOf(tk, first)
             second == Covered(sp, tk, T, Used(sp) + b1, "FLUSH_ALL")
             b2 == BytesOf(tk, second)
             W == ToSet(first \o second)
             p == SubSeq(P, Len(first) + 1, Len(P))
             q == SubSeq(T, Len(second) + 1, Len(T))
  <1>1. /\ P \in Seq(Tasks) /\ T \in Seq(Tasks) /\ Used(sp) \in Nat
        /\ IsInjective(P) /\ IsInjective(T) /\ ToSet(T) \cap ToSet(P) = {}
    BY DEF Spaces, Used, QueuesOK
  <1>2. PICK m \in 0 .. Len(P) :
          /\ first = SubSeq(P, 1, m)
          /\ m < Len(P) => ~Fits(sp, Used(sp) + BytesOf(tk, SubSeq(P, 1, m)),
                                 tk[P[m + 1]].bytes, "NO_FLUSH")
    BY <1>1, CoveredIs, Zenon
  <1>3. /\ first \in Seq(Tasks) /\ Len(first) = m
        /\ p \in Seq(Tasks) /\ IsInjective(p) /\ Len(p) = Len(P) - m
        /\ \A i \in 1 .. (Len(P) - m) : p[i] = P[m + i]
        /\ ToSet(P) = ToSet(first) \cup ToSet(p) /\ ToSet(first) \cap ToSet(p) = {}
    <2> HIDE DEF P, T, first, p
    <2>1. Len(first) = m
      BY <1>1, <1>2, Cut
    <2>2. p = SubSeq(P, m + 1, Len(P))
      BY <2>1, Zenon DEF p
    <2>3. QED BY <1>1, <1>2, <2>1, <2>2, Cut
  <1>4. b1 \in Nat /\ b1 = Bytes(Asked(tk), ToSet(first))
    <2> HIDE DEF first
    <2>1. ToSet(first) \in SUBSET Tasks
      BY <1>3, SeqFacts
    <2>2. b1 = Bytes(Asked(tk), ToSet(first))
      BY Zenon DEF BytesOf, Asked
    <2>3. QED BY <2>1, <2>2, AskedType, BytesType
  <1>5. Used(sp) + b1 \in Nat
    <2> HIDE DEF b1
    <2> QED BY <1>1, <1>4
  <1>6. PICK n \in 0 .. Len(T) :
          /\ second = SubSeq(T, 1, n)
          /\ n < Len(T) => ~Fits(sp, Used(sp) + b1 + BytesOf(tk, SubSeq(T, 1, n)),
                                 tk[T[n + 1]].bytes, "FLUSH_ALL")
    <2> HIDE DEF b1
    <2> QED BY <1>1, <1>5, CoveredIs, Zenon
  <1>7. /\ second \in Seq(Tasks) /\ Len(second) = n
        /\ q \in Seq(Tasks) /\ IsInjective(q) /\ Len(q) = Len(T) - n
        /\ \A i \in 1 .. (Len(T) - n) : q[i] = T[n + i]
        /\ ToSet(T) = ToSet(second) \cup ToSet(q) /\ ToSet(second) \cap ToSet(q) = {}
    <2> HIDE DEF P, T, second, q
    <2>1. Len(second) = n
      BY <1>1, <1>6, Cut
    <2>2. q = SubSeq(T, n + 1, Len(T))
      BY <2>1, Zenon DEF q
    <2>3. QED BY <1>1, <1>6, <2>1, <2>2, Cut
  <1>8. b2 \in Nat /\ b2 = Bytes(Asked(tk), ToSet(second))
    <2> HIDE DEF second
    <2>1. ToSet(second) \in SUBSET Tasks
      BY <1>7, SeqFacts
    <2>2. b2 = Bytes(Asked(tk), ToSet(second))
      BY Zenon DEF BytesOf, Asked
    <2>3. QED BY <2>1, <2>2, AskedType, BytesType
  <1>9. /\ W = ToSet(first) \cup ToSet(second)
        /\ Bytes(Asked(tk), W) = b1 + b2
    <2> HIDE DEF first, second, P, T, p, q, b1, b2
    <2>1. W = ToSet(first) \cup ToSet(second)
      BY <1>3, <1>7, Joined, Zenon
    <2>2. ToSet(first) \cap ToSet(second) = {}
      BY <1>1, <1>3, <1>7, Zenon
    <2>3. ToSet(first) \in SUBSET Tasks /\ ToSet(second) \in SUBSET Tasks
      BY <1>3, <1>7, SeqFacts, Zenon
    <2>4. Bytes(Asked(tk), ToSet(first) \cup ToSet(second))
            = Bytes(Asked(tk), ToSet(first)) + Bytes(Asked(tk), ToSet(second))
      BY <2>2, <2>3, AskedType, BytesSplit, Zenon
    <2> HIDE DEF W
    <2>5. QED BY <2>1, <2>4, <1>4, <1>8, Zenon
  <1>10. /\ W \in SUBSET Queued(sp)
         /\ ToSet(p) = ToSet(P) \ W /\ ToSet(q) = ToSet(T) \ W
    <2>1. Queued(sp) = ToSet(T) \cup ToSet(P)
      BY Zenon DEF Queued
    <2> HIDE DEF first, second, P, T, p, q, W
    <2>2. QED BY <2>1, <1>1, <1>3, <1>7, <1>9
  <1>11. ASSUME p # <<>>
         PROVE  ~Fits(sp, Used(sp) + Bytes(Asked(tk), W), tk[Head(p)].bytes, "NO_FLUSH")
    <2> HIDE DEF first, second, P, T, p, q, W, b1, b2
    <2>1. Head(p) = p[1] /\ 1 \in 1 .. Len(p) /\ Head(p) \in Tasks
      BY <1>11, <1>3, HeadIs
    <2>2. Head(p) = P[m + 1] /\ m < Len(P)
      BY <2>1, <1>1, <1>3, SeqFacts
    <2>3. ~Fits(sp, Used(sp) + b1, tk[Head(p)].bytes, "NO_FLUSH")
      BY <2>2, <1>2 DEF b1
    <2>4. Used(sp) + Bytes(Asked(tk), W) \in Nat /\ Used(sp) + b1 <= Used(sp) + Bytes(Asked(tk), W)
      BY <1>1, <1>4, <1>8, <1>9
    <2>5. tk[Head(p)].bytes \in Nat
      BY <2>1, AskedType
    <2>6. QED BY <2>3, <2>4, <2>5, <1>5, FitsLess, Zenon
  <1>12. ASSUME q # <<>>
         PROVE  ~Fits(sp, Used(sp) + Bytes(Asked(tk), W), tk[Head(q)].bytes, "FLUSH_ALL")
    <2> HIDE DEF first, second, P, T, p, q, W, b1, b2
    <2>1. Head(q) = q[1] /\ 1 \in 1 .. Len(q) /\ Head(q) \in Tasks
      BY <1>12, <1>7, HeadIs
    <2>2. Head(q) = T[n + 1] /\ n < Len(T)
      BY <2>1, <1>1, <1>7, SeqFacts
    <2>3. ~Fits(sp, Used(sp) + b1 + b2, tk[Head(q)].bytes, "FLUSH_ALL")
      BY <2>2, <1>6 DEF b2
    <2>4. Used(sp) + Bytes(Asked(tk), W) = Used(sp) + b1 + b2
      BY <1>1, <1>4, <1>8, <1>9
    <2>5. QED BY <2>3, <2>4, Zenon
  <1>13. Left(sp, tk, W, p, q)
    <2> HIDE DEF first, second, p, q, W, b1, b2
    <2> QED BY <1>3, <1>7, <1>10, <1>11, <1>12, Zenon DEF Left
  <1>14. LET g == Granted(sp, tk) IN
         /\ g.sp = [sp EXCEPT !.may_use = @ + Bytes(Asked(tk), W),
                              !.reclaim = @ - Bytes(Asked(tk), W),
                              !.priority = p, !.tickets = q]
         /\ g.tk = [t \in Tasks |-> IF t \in W THEN [tk[t] EXCEPT !.bytes = 0] ELSE tk[t]]
         /\ g.any \in BOOLEAN
    <2>1. BytesOf(tk, first \o second) = Bytes(Asked(tk), W)
      BY Zenon DEF BytesOf, Asked
    <2> HIDE DEF first, second
    <2>2. Granted(sp, tk) =
            [sp |-> [sp EXCEPT !.may_use = @ + BytesOf(tk, first \o second),
                               !.reclaim = @ - BytesOf(tk, first \o second),
                               !.priority = p, !.tickets = q],
             tk |-> [t \in Tasks |-> IF t \in W THEN [tk[t] EXCEPT !.bytes = 0] ELSE tk[t]],
             any |-> W # {}]
      BY DEF Granted, first, second
    <2> HIDE DEF W, p, q
    <2>3. QED BY <2>1, <2>2
  <1>15. Grants(sp, tk, Granted(sp, tk), W, p, q)
    <2> HIDE DEF first, second, W, p, q
    <2> QED BY <1>10, <1>13, <1>14, Zenon DEF Grants
  <1>16. QED BY <1>15, Zenon

LEMMA HasType ==
  ASSUME NEW tk \in [Tasks -> Tickets], NEW ts
  PROVE  /\ Has(tk, ts) \in Amounts
         /\ \A t \in Tasks :
              Has(tk, ts)[t] = IF \/ ts[t].pc = "held"
                                  \/ ts[t].pc \in {"wait", "reclaim", "flush"} /\ tk[t].bytes = 0
                               THEN tk[t].want ELSE 0
         /\ Bytes(Has(tk, ts), Tasks) \in Nat
  <1>1. \A t \in Tasks : tk[t].want \in Nat
    BY DEF Tickets
  <1>2. Has(tk, ts) \in Amounts
    BY <1>1 DEF Has, Amounts
  <1>3. Tasks \in SUBSET Tasks
    BY Zenon
  <1>4. QED BY <1>2, <1>3, BytesType DEF Has

LEMMA QueuedTasks ==
  ASSUME NEW sp \in Spaces
  PROVE  /\ Queued(sp) \in SUBSET Tasks
         /\ ToSet(sp.tickets) \in SUBSET Tasks /\ ToSet(sp.priority) \in SUBSET Tasks
  <1>1. sp.tickets \in Seq(Tasks) /\ sp.priority \in Seq(Tasks)
    BY DEF Spaces
  <1>2. ToSet(sp.tickets) \in SUBSET Tasks /\ ToSet(sp.priority) \in SUBSET Tasks
    BY <1>1, SeqFacts
  <1>3. QED BY <1>2, Zenon DEF Queued

(* What btrfs_try_granting_tickets leaves: the books in order, and heads   *)
(* that do not fit.                                                        *)
LEMMA GrantsKeep ==
  ASSUME NEW sp, NEW tk, NEW ts, NEW glob, NEW delayed,
         Books(sp, tk, ts, glob, delayed),
         NEW nsp, NEW ntk, nsp = Granted(sp, tk).sp, ntk = Granted(sp, tk).tk
  PROVE  /\ Books(nsp, ntk, ts, glob, delayed)
         /\ PriorityHead(nsp, ntk) /\ NormalHead(nsp, ntk)
         /\ Granted(sp, tk).any \in BOOLEAN
         /\ nsp.flush = sp.flush
         /\ sp.tickets = <<>> => nsp.tickets = <<>>
         /\ \A t \in Tasks : ntk[t].error = tk[t].error
  <1>1. /\ sp \in Spaces /\ tk \in [Tasks -> Tickets] /\ ts \in [Tasks -> TaskRecords]
        /\ glob \in 0 .. GlobalSize /\ delayed \in Nat
        /\ QueuesOK(sp, tk) /\ Attended(sp, tk, ts) /\ Exact(sp, tk, ts, glob, delayed)
    BY DEF Books, Typed
  <1>2. PICK W, p, q : Grants(sp, tk, Granted(sp, tk), W, p, q)
    BY <1>1, GrantedIs, Zenon
  <1> DEFINE b == Bytes(Asked(tk), W)
  <1>3. /\ W \in SUBSET Queued(sp)
        /\ p \in Seq(Tasks) /\ IsInjective(p) /\ ToSet(p) = ToSet(sp.priority) \ W
        /\ q \in Seq(Tasks) /\ IsInjective(q) /\ ToSet(q) = ToSet(sp.tickets) \ W
        /\ p # <<>> => ~Fits(sp, Used(sp) + b, tk[Head(p)].bytes, "NO_FLUSH")
        /\ q # <<>> => ~Fits(sp, Used(sp) + b, tk[Head(q)].bytes, "FLUSH_ALL")
        /\ Granted(sp, tk).any \in BOOLEAN
    BY <1>2, Zenon DEF Grants, Left
  <1>4. nsp = [sp EXCEPT !.may_use = @ + b, !.reclaim = @ - b,
                         !.priority = p, !.tickets = q]
    BY <1>2, Zenon DEF Grants
  <1>5. ntk = [t \in Tasks |-> IF t \in W THEN [tk[t] EXCEPT !.bytes = 0] ELSE tk[t]]
    BY <1>2, Zenon DEF Grants
  <1>6. Queued(sp) \in SUBSET Tasks /\ W \in SUBSET Tasks
    BY <1>1, <1>3, QueuedTasks, Zenon
  <1>7. b \in Nat
    BY <1>1, <1>6, AskedType, BytesType, Zenon
  <1> HIDE DEF b
  <1>8. /\ nsp.total = sp.total /\ nsp.pinned = sp.pinned /\ nsp.full = sp.full
        /\ nsp.flush = sp.flush /\ nsp.may_use = sp.may_use + b
        /\ nsp.reclaim = sp.reclaim - b /\ nsp.priority = p /\ nsp.tickets = q
    BY <1>1, <1>4 DEF Spaces
  <1>9. \A t \in Tasks : /\ ntk[t].bytes = IF t \in W THEN 0 ELSE tk[t].bytes
                         /\ ntk[t].want = tk[t].want /\ ntk[t].error = tk[t].error
                         /\ ntk[t] \in Tickets
    <2>1. TAKE t \in Tasks
    <2>2. PICK r \in Tickets : r = tk[t]
      BY <1>1
    <2>3. ntk[t] = IF t \in W THEN [r EXCEPT !.bytes = 0] ELSE r
      BY <1>5, <2>2
    <2>4. QED BY <2>2, <2>3 DEF Tickets
  <1>10. ntk \in [Tasks -> Tickets]
    <2>1. ntk = [t \in Tasks |-> ntk[t]]
      BY <1>5
    <2>2. QED BY <2>1, <1>9
  <1>11. Queued(nsp) = Queued(sp) \ W
    BY <1>3, <1>8, Zenon DEF Queued
  (* The tickets granted are counted as asked before, as held after.       *)
  <1>12. Bytes(Asked(ntk), Queued(nsp)) + b = Bytes(Asked(tk), Queued(sp))
    <2>1. Bytes(Asked(ntk), Queued(nsp)) = Bytes(Asked(tk), Queued(sp) \ W)
      <3>1. \A t \in Queued(sp) \ W : Asked(ntk)[t] = Asked(tk)[t]
        BY <1>1, <1>6, <1>9, <1>10, AskedType
      <3>2. Bytes(Asked(ntk), Queued(sp) \ W) = Bytes(Asked(tk), Queued(sp) \ W)
        BY <3>1, BytesSame, Zenon
      <3>3. QED BY <3>2, <1>11, Zenon
    <2>2. /\ Queued(sp) \ W \in SUBSET Tasks /\ (Queued(sp) \ W) \cap W = {}
          /\ (Queued(sp) \ W) \cup W = Queued(sp)
      BY <1>3, <1>6, Zenon
    <2>3. Bytes(Asked(tk), (Queued(sp) \ W) \cup W)
            = Bytes(Asked(tk), Queued(sp) \ W) + Bytes(Asked(tk), W)
      BY <1>1, <1>6, <2>2, AskedType, BytesSplit, Zenon
    <2>4. QED BY <2>1, <2>2, <2>3, Zenon DEF b
  <1>13. Bytes(Has(ntk, ts), Tasks) = Bytes(Has(tk, ts), Tasks) + b
    <2>1. /\ Tasks \ W \in SUBSET Tasks /\ (Tasks \ W) \cap W = {}
          /\ (Tasks \ W) \cup W = Tasks
      BY <1>6, Zenon
    <2>2. /\ Has(tk, ts) \in Amounts /\ Has(ntk, ts) \in Amounts
      BY <1>1, <1>10, HasType, Zenon
    <2>3. /\ Bytes(Has(tk, ts), (Tasks \ W) \cup W)
               = Bytes(Has(tk, ts), Tasks \ W) + Bytes(Has(tk, ts), W)
          /\ Bytes(Has(ntk, ts), (Tasks \ W) \cup W)
               = Bytes(Has(ntk, ts), Tasks \ W) + Bytes(Has(ntk, ts), W)
      BY <1>6, <2>1, <2>2, BytesSplit, Zenon
    <2>4. Bytes(Has(ntk, ts), Tasks \ W) = Bytes(Has(tk, ts), Tasks \ W)
      <3>1. \A t \in Tasks \ W : Has(ntk, ts)[t] = Has(tk, ts)[t]
        BY <1>1, <1>9, <1>10, HasType
      <3>2. QED BY <3>1, BytesSame, Zenon
    <2>5. \A t \in W : /\ ts[t].pc \in {"wait", "reclaim", "flush"}
                       /\ tk[t].bytes > 0 /\ tk[t].want = tk[t].bytes
      BY <1>1, <1>3, <1>6 DEF QueuesOK, Attended, Queued
    <2>6. Bytes(Has(tk, ts), W) = 0
      <3>1. ASSUME NEW t \in W PROVE Has(tk, ts)[t] = 0
        <4>1. t \in Tasks /\ tk[t].bytes # 0 /\ ts[t].pc # "held"
          BY <1>6, <2>5
        <4>2. QED BY <4>1, <1>1, HasType
      <3>2. QED BY <3>1, BytesNone, Zenon
    <2>7. Bytes(Has(ntk, ts), W) = b
      <3>1. ASSUME NEW t \in W PROVE Has(ntk, ts)[t] = Asked(tk)[t]
        <4>1. t \in Tasks /\ ntk[t].bytes = 0 /\ ntk[t].want = tk[t].bytes
          BY <1>6, <1>9, <2>5
        <4>2. QED BY <4>1, <2>5, <1>1, <1>10, HasType, AskedType
      <3>2. QED BY <3>1, BytesSame, Zenon DEF b
    <2>8. Bytes(Has(tk, ts), Tasks) \in Nat
      BY <1>1, HasType, Zenon
    <2>9. Bytes(Has(tk, ts), Tasks \ W) \in Nat
      BY <2>1, <2>2, BytesType, Zenon
    <2>10. /\ Bytes(Has(tk, ts), Tasks) = Bytes(Has(tk, ts), Tasks \ W) + 0
           /\ Bytes(Has(ntk, ts), Tasks) = Bytes(Has(tk, ts), Tasks \ W) + b
      BY <2>1, <2>3, <2>4, <2>6, <2>7, Zenon
    <2>11. QED BY <2>10, <2>8, <2>9, <1>7
  <1>14. Exact(nsp, ntk, ts, glob, delayed)
    <2>1. /\ sp.may_use = glob + delayed + Bytes(Has(tk, ts), Tasks)
          /\ sp.reclaim = Bytes(Asked(tk), Queued(sp))
      BY <1>1 DEF Exact
    <2>2. /\ Bytes(Has(tk, ts), Tasks) \in Nat /\ glob \in Nat
          /\ Bytes(Asked(ntk), Queued(nsp)) \in Nat
      <3>1. Queued(nsp) \in SUBSET Tasks
        BY <1>6, <1>11, Zenon
      <3>2. GlobalSize \in Nat
        BY SpaceAssumption
      <3>3. QED BY <1>1, <1>10, <3>1, <3>2, HasType, AskedType, BytesType
    <2>3. QED BY <1>1, <1>7, <1>8, <1>12, <1>13, <2>1, <2>2 DEF Exact
  <1>15. nsp \in Spaces
    <2>1. sp.reclaim - b \in Nat
      <3>1. Queued(nsp) \in SUBSET Tasks
        BY <1>6, <1>11, Zenon
      <3>2. Bytes(Asked(ntk), Queued(nsp)) \in Nat
        BY <1>10, <3>1, AskedType, BytesType
      <3>3. sp.reclaim = Bytes(Asked(tk), Queued(sp))
        BY <1>1 DEF Exact
      <3>4. QED BY <3>2, <3>3, <1>7, <1>12
    <2>2. sp.may_use + b \in Nat
      BY <1>1, <1>7 DEF Spaces
    <2>3. QED BY <1>1, <1>3, <1>4, <2>1, <2>2 DEF Spaces
  <1>16. QueuesOK(nsp, ntk)
    <2>1. ToSet(nsp.tickets) \cap ToSet(nsp.priority) = {}
      BY <1>1, <1>3, <1>8 DEF QueuesOK
    <2>2. ASSUME NEW t \in Queued(nsp)
          PROVE  ntk[t].bytes > 0 /\ ntk[t].want = ntk[t].bytes /\ ntk[t].error = "no"
      <3>1. t \in Queued(sp) /\ t \notin W /\ t \in Tasks
        BY <1>6, <1>11
      <3>2. QED BY <3>1, <1>1, <1>9 DEF QueuesOK
    <2>3. QED BY <1>3, <1>8, <2>1, <2>2, Zenon DEF QueuesOK
  <1>17. Attended(nsp, ntk, ts)
    <2>1. ASSUME NEW t \in Tasks
          PROVE  /\ t \in ToSet(nsp.tickets) => ts[t].pc = "wait"
                 /\ t \in ToSet(nsp.priority) => ts[t].pc \in {"reclaim", "flush"}
                 /\ ts[t].pc = "wait" /\ ntk[t].bytes > 0 /\ ntk[t].error = "no"
                      => t \in ToSet(nsp.tickets)
                 /\ ts[t].pc \in {"reclaim", "flush"} /\ ntk[t].bytes > 0
                      => t \in ToSet(nsp.priority)
                 /\ ntk[t].bytes = 0 => ntk[t].error = "no"
      <3>1. /\ ntk[t].bytes = IF t \in W THEN 0 ELSE tk[t].bytes
            /\ ntk[t].error = tk[t].error
        BY <1>9
      <3>2. t \in W => tk[t].error = "no"
        BY <1>1, <1>3 DEF QueuesOK
      <3>3. QED BY <3>1, <3>2, <1>1, <1>3, <1>8 DEF Attended
    <2>2. QED BY <2>1 DEF Attended
  <1>18. PriorityHead(nsp, ntk) /\ NormalHead(nsp, ntk)
    <2>1. Used(nsp) = Used(sp) + b
      BY <1>1, <1>7, <1>8 DEF Used, Spaces
    <2>2. ASSUME NEW h \in ToSet(p) \cup ToSet(q) PROVE ntk[h].bytes = tk[h].bytes
      BY <1>3, <1>6, <1>9 DEF Queued
    <2>3. ASSUME p # <<>> PROVE ~Fits(nsp, Used(nsp), ntk[Head(p)].bytes, "NO_FLUSH")
      <3>1. Head(p) \in ToSet(p)
        BY <1>3, <2>3, HeadIs
      <3>2. ~Fits(sp, Used(sp) + b, tk[Head(p)].bytes, "NO_FLUSH")
        BY <2>3, <1>3, Zenon
      <3>3. ntk[Head(p)].bytes = tk[Head(p)].bytes
        BY <3>1, <2>2, Zenon
      <3>4. ~Fits(nsp, Used(sp) + b, tk[Head(p)].bytes, "NO_FLUSH")
        BY <3>2, <1>8, FitsSame, Zenon
      <3>5. QED BY <3>3, <3>4, <2>1, Zenon
    <2>4. ASSUME q # <<>> PROVE ~Fits(nsp, Used(nsp), ntk[Head(q)].bytes, "FLUSH_ALL")
      <3>1. Head(q) \in ToSet(q)
        BY <1>3, <2>4, HeadIs
      <3>2. ~Fits(sp, Used(sp) + b, tk[Head(q)].bytes, "FLUSH_ALL")
        BY <2>4, <1>3, Zenon
      <3>3. ntk[Head(q)].bytes = tk[Head(q)].bytes
        BY <3>1, <2>2, Zenon
      <3>4. ~Fits(nsp, Used(sp) + b, tk[Head(q)].bytes, "FLUSH_ALL")
        BY <3>2, <1>8, FitsSame, Zenon
      <3>5. QED BY <3>3, <3>4, <2>1, Zenon
    <2>5. QED BY <2>3, <2>4, <1>8, Zenon DEF PriorityHead, NormalHead
  <1>19. sp.tickets = <<>> => nsp.tickets = <<>>
    <2>1. sp.tickets \in Seq(Tasks)
      BY <1>1 DEF Spaces
    <2>2. sp.tickets = <<>> => ToSet(sp.tickets) = {}
      BY <2>1, SeqFacts
    <2>3. ToSet(q) = {} => q = <<>>
      BY <1>3, SeqFacts
    <2>4. QED BY <2>2, <2>3, <1>3, <1>8
  <1>20. Books(nsp, ntk, ts, glob, delayed)
    BY <1>1, <1>10, <1>14, <1>15, <1>16, <1>17, Zenon DEF Books, Typed
  <1>21. QED BY <1>3, <1>8, <1>9, <1>18, <1>19, <1>20

-----------------------------------------------------------------------------
(***************************************************************************)
(* What a step may do before tickets are granted                           *)
(***************************************************************************)
(* A space_info of which only the sums may be wrong.                       *)
Drafts == [total : Total .. MaxTotal, pinned : Nat, may_use : Int, full : BOOLEAN,
           flush : BOOLEAN, reclaim : Int, tickets : Seq(Tasks), priority : Seq(Tasks)]

LEMMA DraftOfSpace ==
  ASSUME NEW sp \in Drafts, sp.may_use \in Nat, sp.reclaim \in Nat
  PROVE  sp \in Spaces
  BY DEF Drafts, Spaces

LEMMA SpaceIsDraft ==
  ASSUME NEW sp \in Spaces
  PROVE  sp \in Drafts
  BY DEF Drafts, Spaces

(* The queues and tickets stay, bytes move between the reserve, delayed    *)
(* work and the space that is free.                                        *)
LEMMA SpaceMove ==
  ASSUME NEW sp, NEW tk, NEW ts, NEW glob, NEW delayed,
         Books(sp, tk, ts, glob, delayed),
         NEW nsp \in Drafts, NEW nglob \in 0 .. GlobalSize, NEW ndelayed \in Nat,
         nsp.tickets = sp.tickets, nsp.priority = sp.priority, nsp.reclaim = sp.reclaim,
         nsp.may_use = sp.may_use + (nglob - glob) + (ndelayed - delayed)
  PROVE  Books(nsp, tk, ts, nglob, ndelayed)
  <1>1. /\ sp \in Spaces /\ tk \in [Tasks -> Tickets] /\ ts \in [Tasks -> TaskRecords]
        /\ glob \in 0 .. GlobalSize /\ delayed \in Nat
        /\ QueuesOK(sp, tk) /\ Attended(sp, tk, ts)
    BY DEF Books, Typed
  <1>2. /\ sp.may_use = glob + delayed + Bytes(Has(tk, ts), Tasks)
        /\ sp.reclaim = Bytes(Asked(tk), Queued(sp))
    BY DEF Books, Exact
  <1>3. Bytes(Has(tk, ts), Tasks) \in Nat /\ GlobalSize \in Nat
    BY <1>1, HasType, SpaceAssumption
  <1>4. Queued(nsp) = Queued(sp)
    BY Zenon DEF Queued
  <1>5. nsp.may_use = nglob + ndelayed + Bytes(Has(tk, ts), Tasks)
    BY <1>1, <1>2, <1>3
  <1>6. nsp \in Spaces
    <2>1. nsp.may_use \in Nat
      BY <1>3, <1>5
    <2>2. nsp.reclaim \in Nat
      BY <1>1 DEF Spaces
    <2>3. QED BY <2>1, <2>2, DraftOfSpace
  <1>7. Exact(nsp, tk, ts, nglob, ndelayed)
    BY <1>2, <1>4, <1>5, Zenon DEF Exact
  <1>8. QueuesOK(nsp, tk) /\ Attended(nsp, tk, ts)
    <2>1. QueuesOK(nsp, tk)
      BY <1>1, <1>4, Zenon DEF QueuesOK
    <2>2. Attended(nsp, tk, ts)
      BY <1>1, Zenon DEF Attended
    <2>3. QED BY <2>1, <2>2
  <1>9. QED BY <1>1, <1>6, <1>7, <1>8, Zenon DEF Books, Typed

(* Where the task of ticket k is, if it is at r.                           *)
Fitting(waits, reclaims, k, r) ==
  /\ waits \/ reclaims => k.bytes > 0 /\ k.want = k.bytes /\ k.error = "no"
  /\ waits => r.pc = "wait"
  /\ reclaims => r.pc \in {"reclaim", "flush"}
  /\ r.pc = "wait" /\ k.bytes > 0 /\ k.error = "no" => waits
  /\ r.pc \in {"reclaim", "flush"} /\ k.bytes > 0 => reclaims
  /\ k.bytes = 0 => k.error = "no"
Holds(k, r) == IF r.pc = "held" \/ (r.pc \in {"wait", "reclaim", "flush"} /\ k.bytes = 0)
               THEN k.want ELSE 0
Owed(queued, k) == IF queued THEN k.bytes ELSE 0

LEMMA HeldNow ==
  ASSUME NEW k \in Tickets, NEW r
  PROVE  Holds(k, r) \in Nat /\ k.bytes \in Nat /\ k.want \in Nat
  BY DEF Holds, Tickets

(* One task t moves to r, and its ticket becomes k; it may enter a queue   *)
(* or leave it.  The bytes it is given come from somewhere.                *)
LEMMA OneTask ==
  ASSUME NEW sp, NEW tk, NEW ts, NEW glob, NEW delayed,
         Books(sp, tk, ts, glob, delayed),
         NEW t \in Tasks, NEW k \in Tickets, NEW r \in TaskRecords,
         NEW nsp \in Drafts, NEW nglob \in 0 .. GlobalSize, NEW ndelayed \in Nat,
         IsInjective(nsp.tickets), IsInjective(nsp.priority),
         ToSet(nsp.tickets) \ {t} = ToSet(sp.tickets) \ {t},
         ToSet(nsp.priority) \ {t} = ToSet(sp.priority) \ {t},
         Fitting(t \in ToSet(nsp.tickets), t \in ToSet(nsp.priority), k, r),
         nsp.may_use = sp.may_use + (nglob - glob) + (ndelayed - delayed)
                         + Holds(k, r) - Holds(tk[t], ts[t]),
         nsp.reclaim = sp.reclaim + Owed(t \in Queued(nsp), k)
                         - Owed(t \in Queued(sp), tk[t])
  PROVE  Books(nsp, [tk EXCEPT ![t] = k], [ts EXCEPT ![t] = r], nglob, ndelayed)
  <1>1. /\ sp \in Spaces /\ tk \in [Tasks -> Tickets] /\ ts \in [Tasks -> TaskRecords]
        /\ glob \in 0 .. GlobalSize /\ delayed \in Nat
        /\ QueuesOK(sp, tk) /\ Attended(sp, tk, ts)
    BY DEF Books, Typed
  <1>2. /\ sp.may_use = glob + delayed + Bytes(Has(tk, ts), Tasks)
        /\ sp.reclaim = Bytes(Asked(tk), Queued(sp))
    BY DEF Books, Exact
  <1>3. PICK ntk \in [Tasks -> Tickets] : ntk = [tk EXCEPT ![t] = k]
    BY <1>1
  <1>4. PICK nts \in [Tasks -> TaskRecords] : nts = [ts EXCEPT ![t] = r]
    BY <1>1
  <1>5. /\ ntk[t] = k /\ nts[t] = r
        /\ \A u \in Tasks \ {t} : ntk[u] = tk[u] /\ nts[u] = ts[u]
    BY <1>1, <1>3, <1>4
  <1>6. /\ GlobalSize \in Nat
        /\ sp.tickets \in Seq(Tasks) /\ sp.priority \in Seq(Tasks)
        /\ nsp.tickets \in Seq(Tasks) /\ nsp.priority \in Seq(Tasks)
    BY <1>1, SpaceAssumption DEF Spaces, Drafts
  <1>7. /\ ToSet(sp.tickets) \in SUBSET Tasks /\ ToSet(sp.priority) \in SUBSET Tasks
        /\ ToSet(nsp.tickets) \in SUBSET Tasks /\ ToSet(nsp.priority) \in SUBSET Tasks
        /\ Queued(sp) \in SUBSET Tasks /\ Queued(nsp) \in SUBSET Tasks
    <2>1. /\ ToSet(sp.tickets) \in SUBSET Tasks /\ ToSet(sp.priority) \in SUBSET Tasks
          /\ ToSet(nsp.tickets) \in SUBSET Tasks /\ ToSet(nsp.priority) \in SUBSET Tasks
      BY <1>6, SeqFacts
    <2>2. QED BY <2>1, Zenon DEF Queued
  <1>8. Queued(nsp) \ {t} = Queued(sp) \ {t}
    BY Zenon DEF Queued
  <1>9. nsp.may_use = nglob + ndelayed + Bytes(Has(ntk, nts), Tasks)
    <2>1. Has(tk, ts) \in Amounts /\ Has(ntk, nts) \in Amounts
      BY <1>1, HasType, Zenon
    <2>2. \A u \in Tasks \ {t} : Has(tk, ts)[u] = Has(ntk, nts)[u]
      BY <1>1, <1>5, HasType
    <2>3. Has(tk, ts)[t] = Holds(tk[t], ts[t]) /\ Has(ntk, nts)[t] = Holds(k, r)
      BY <1>1, <1>5, HasType DEF Holds
    <2>4. /\ Bytes(Has(ntk, nts), Tasks)
               = Bytes(Has(tk, ts), Tasks) - Has(tk, ts)[t] + Has(ntk, nts)[t]
          /\ Bytes(Has(tk, ts), Tasks) \in Nat /\ Bytes(Has(ntk, nts), Tasks) \in Nat
          /\ Has(tk, ts)[t] \in Nat /\ Has(ntk, nts)[t] \in Nat
      BY <2>1, <2>2, BytesChange, Zenon
    <2>5. QED BY <1>1, <1>2, <1>6, <2>3, <2>4
  <1>10. nsp.reclaim = Bytes(Asked(ntk), Queued(nsp))
    <2>1. Asked(tk) \in Amounts /\ Asked(ntk) \in Amounts
      BY <1>1, AskedType, Zenon
    <2>2. \A u \in Tasks : Asked(tk)[u] = tk[u].bytes /\ Asked(ntk)[u] = ntk[u].bytes
      BY <1>1, AskedType, Zenon
    <2>3. Bytes(Asked(ntk), Queued(nsp) \ {t}) = Bytes(Asked(tk), Queued(sp) \ {t})
      <3>1. \A u \in Queued(sp) \ {t} : Asked(ntk)[u] = Asked(tk)[u]
        BY <2>2, <1>5, <1>7
      <3>2. PICK S : S = Queued(sp) \ {t}
        OBVIOUS
      <3>3. \A u \in S : Asked(ntk)[u] = Asked(tk)[u]
        BY <3>1, <3>2
      <3>4. Bytes(Asked(ntk), S) = Bytes(Asked(tk), S)
        BY <3>3, BytesSame, Zenon
      <3>5. QED BY <3>2, <3>4, <1>8, Zenon
    <2>4. Bytes(Asked(tk), Queued(sp))
            = Bytes(Asked(tk), Queued(sp) \ {t}) + Owed(t \in Queued(sp), tk[t])
      <3>1. CASE t \in Queued(sp)
        <4>1. Bytes(Asked(tk), Queued(sp))
                = Bytes(Asked(tk), Queued(sp) \ {t}) + Asked(tk)[t]
          BY <3>1, <1>7, <2>1, BytesWithout, Zenon
        <4>2. Asked(tk)[t] = tk[t].bytes
          BY <2>2, <1>5, Zenon
        <4>3. Owed(t \in Queued(sp), tk[t]) = tk[t].bytes
          BY <3>1, Zenon DEF Owed
        <4>4. QED BY <4>1, <4>2, <4>3, Zenon
      <3>2. CASE t \notin Queued(sp)
        <4>1. Queued(sp) \ {t} = Queued(sp)
          BY <3>2, Zenon
        <4>2. PICK n \in Nat : n = Bytes(Asked(tk), Queued(sp))
          BY <1>7, <2>1, BytesType, Zenon
        <4>3. Owed(t \in Queued(sp), tk[t]) = 0
          BY <3>2, Zenon DEF Owed
        <4>4. n + 0 = n
          OBVIOUS
        <4>5. QED BY <4>1, <4>2, <4>3, <4>4, Zenon
      <3>3. QED BY <3>1, <3>2
    <2>5. Bytes(Asked(ntk), Queued(nsp))
            = Bytes(Asked(ntk), Queued(nsp) \ {t}) + Owed(t \in Queued(nsp), k)
      <3>1. CASE t \in Queued(nsp)
        <4>1. Bytes(Asked(ntk), Queued(nsp))
                = Bytes(Asked(ntk), Queued(nsp) \ {t}) + Asked(ntk)[t]
          BY <3>1, <1>7, <2>1, BytesWithout, Zenon
        <4>2. Asked(ntk)[t] = k.bytes
          BY <2>2, <1>5, Zenon
        <4>3. Owed(t \in Queued(nsp), k) = k.bytes
          BY <3>1, Zenon DEF Owed
        <4>4. QED BY <4>1, <4>2, <4>3, Zenon
      <3>2. CASE t \notin Queued(nsp)
        <4>1. Queued(nsp) \ {t} = Queued(nsp)
          BY <3>2, Zenon
        <4>2. PICK n \in Nat : n = Bytes(Asked(ntk), Queued(nsp))
          BY <1>7, <2>1, BytesType, Zenon
        <4>3. Owed(t \in Queued(nsp), k) = 0
          BY <3>2, Zenon DEF Owed
        <4>4. n + 0 = n
          OBVIOUS
        <4>5. QED BY <4>1, <4>2, <4>3, <4>4, Zenon
      <3>3. QED BY <3>1, <3>2
    <2>6. Bytes(Asked(tk), Queued(sp) \ {t}) \in Nat
      <3>1. Queued(sp) \ {t} \in SUBSET Tasks
        BY <1>7, Zenon
      <3>2. QED BY <3>1, <2>1, BytesType, Zenon
    <2>7. tk[t].bytes \in Nat /\ k.bytes \in Nat
      BY <1>1, HeldNow
    <2>8. Owed(t \in Queued(sp), tk[t]) \in Nat /\ Owed(t \in Queued(nsp), k) \in Nat
      BY <2>7 DEF Owed
    <2>9. QED BY <1>2, <2>3, <2>4, <2>5, <2>6, <2>8
  <1>11. nsp \in Spaces
    <2>1. nsp.may_use \in Nat
      <3>1. Bytes(Has(ntk, nts), Tasks) \in Nat
        BY HasType, Zenon
      <3>2. QED BY <3>1, <1>6, <1>9
    <2>2. nsp.reclaim \in Nat
      <3>1. Asked(ntk) \in Amounts
        BY AskedType, Zenon
      <3>2. QED BY <3>1, <1>7, <1>10, BytesType
    <2>3. QED BY <2>1, <2>2, DraftOfSpace
  <1>12. QueuesOK(nsp, ntk)
    <2>1. ToSet(nsp.tickets) \cap ToSet(nsp.priority) = {}
      <3>1. ~(t \in ToSet(nsp.tickets) /\ t \in ToSet(nsp.priority))
        BY DEF Fitting
      <3>2. ToSet(sp.tickets) \cap ToSet(sp.priority) = {}
        BY <1>1 DEF QueuesOK
      <3>3. QED BY <3>1, <3>2
    <2>2. ASSUME NEW u \in Queued(nsp)
          PROVE  ntk[u].bytes > 0 /\ ntk[u].want = ntk[u].bytes /\ ntk[u].error = "no"
      <3>1. CASE u = t
        BY <3>1, <1>5 DEF Fitting, Queued
      <3>2. CASE u # t
        BY <3>2, <1>1, <1>5, <1>7, <1>8 DEF QueuesOK
      <3>3. QED BY <3>1, <3>2
    <2>3. QED BY <2>1, <2>2, Zenon DEF QueuesOK
  <1>13. Attended(nsp, ntk, nts)
    <2>1. ASSUME NEW u \in Tasks
          PROVE  /\ u \in ToSet(nsp.tickets) => nts[u].pc = "wait"
                 /\ u \in ToSet(nsp.priority) => nts[u].pc \in {"reclaim", "flush"}
                 /\ nts[u].pc = "wait" /\ ntk[u].bytes > 0 /\ ntk[u].error = "no"
                      => u \in ToSet(nsp.tickets)
                 /\ nts[u].pc \in {"reclaim", "flush"} /\ ntk[u].bytes > 0
                      => u \in ToSet(nsp.priority)
                 /\ ntk[u].bytes = 0 => ntk[u].error = "no"
      <3>1. CASE u = t
        BY <3>1, <1>5 DEF Fitting
      <3>2. CASE u # t
        <4>1. ntk[u] = tk[u] /\ nts[u] = ts[u]
          BY <3>2, <1>5
        <4>2. /\ u \in ToSet(nsp.tickets) <=> u \in ToSet(sp.tickets)
              /\ u \in ToSet(nsp.priority) <=> u \in ToSet(sp.priority)
          BY <3>2
        <4>3. QED BY <4>1, <4>2, <1>1 DEF Attended
      <3>3. QED BY <3>1, <3>2
    <2>2. QED BY <2>1 DEF Attended
  <1>14. Books(nsp, ntk, nts, nglob, ndelayed)
    BY <1>9, <1>10, <1>11, <1>12, <1>13, Zenon DEF Books, Typed, Exact
  <1>15. QED BY <1>3, <1>4, <1>14, Zenon

(* The heads stay, and there is no more space than before.                 *)
LEMMA HeadsStay ==
  ASSUME NEW sp \in Spaces, NEW nsp \in Spaces,
         NEW tk \in [Tasks -> Tickets], NEW ntk \in [Tasks -> Tickets],
         nsp.total = sp.total, Used(sp) <= Used(nsp)
  PROVE  /\ PriorityHead(sp, tk) =>
              (nsp.priority = <<>>
                \/ (/\ sp.priority # <<>> /\ Head(nsp.priority) = Head(sp.priority)
                    /\ ntk[Head(sp.priority)].bytes = tk[Head(sp.priority)].bytes)
               => PriorityHead(nsp, ntk))
         /\ NormalHead(sp, tk) =>
              ((nsp.priority = <<>> => sp.priority = <<>>)
               /\ (nsp.tickets = <<>>
                    \/ (/\ sp.tickets # <<>> /\ Head(nsp.tickets) = Head(sp.tickets)
                        /\ ntk[Head(sp.tickets)].bytes = tk[Head(sp.tickets)].bytes))
               => NormalHead(nsp, ntk))
  <1>1. Used(sp) \in Nat /\ Used(nsp) \in Nat
    BY DEF Used, Spaces
  <1>2. ASSUME NEW t \in Tasks, NEW flush, ~Fits(sp, Used(sp), tk[t].bytes, flush),
               ntk[t].bytes = tk[t].bytes
        PROVE  ~Fits(nsp, Used(nsp), ntk[t].bytes, flush)
    <2>1. tk[t].bytes \in Nat
      BY AskedType
    <2>2. ~Fits(sp, Used(nsp), tk[t].bytes, flush)
      BY <1>1, <1>2, <2>1, FitsLess, Zenon
    <2>3. QED BY <1>2, <2>2, FitsSame, Zenon
  <1>3. sp.priority \in Seq(Tasks) /\ sp.tickets \in Seq(Tasks)
    BY DEF Spaces
  <1>4. /\ sp.priority # <<>> => Head(sp.priority) \in Tasks
        /\ sp.tickets # <<>> => Head(sp.tickets) \in Tasks
    BY <1>3, HeadIs
  <1>5. ASSUME PriorityHead(sp, tk),
               nsp.priority = <<>>
                \/ (/\ sp.priority # <<>> /\ Head(nsp.priority) = Head(sp.priority)
                    /\ ntk[Head(sp.priority)].bytes = tk[Head(sp.priority)].bytes)
        PROVE  PriorityHead(nsp, ntk)
    BY <1>2, <1>4, <1>5, Zenon DEF PriorityHead
  <1>6. ASSUME NormalHead(sp, tk), nsp.priority = <<>> => sp.priority = <<>>,
               nsp.tickets = <<>>
                 \/ (/\ sp.tickets # <<>> /\ Head(nsp.tickets) = Head(sp.tickets)
                     /\ ntk[Head(sp.tickets)].bytes = tk[Head(sp.tickets)].bytes)
        PROVE  NormalHead(nsp, ntk)
    BY <1>2, <1>4, <1>6, Zenon DEF NormalHead
  <1>7. QED BY <1>5, <1>6, Zenon

(* Fits depends on the kind of the space_info, which never changes.        *)
LEMMA HeadsPrimed ==
  ASSUME kind' = kind, NEW sp, NEW tk, sp = space', tk = ticket'
  PROVE  /\ PriorityHead(space, ticket)' <=> PriorityHead(sp, tk)
         /\ NormalHead(space, ticket)' <=> NormalHead(sp, tk)
  BY Zenon DEF PriorityHead, NormalHead, Fits, CanOvercommit, Avail, Used

LEMMA InvFacts ==
  ASSUME IInv
  PROVE  /\ space \in Spaces /\ ticket \in [Tasks -> Tickets]
         /\ task \in [Tasks -> TaskRecords]
         /\ global \in 0 .. GlobalSize /\ dirty \in Nat
         /\ space.tickets \in Seq(Tasks) /\ space.priority \in Seq(Tasks)
         /\ QueuesOK(space, ticket) /\ Attended(space, ticket, task)
         /\ kind \in Kinds /\ progress \in BOOLEAN /\ aborted \in BOOLEAN
         /\ requests \in Nat /\ untried \in BOOLEAN
         /\ Books(space, ticket, task, global, dirty) /\ WorkerInv /\ HeadInv
         /\ GlobalSize \in Nat
  <1>1. space \in Spaces /\ ticket \in [Tasks -> Tickets] /\ task \in [Tasks -> TaskRecords]
    BY DEF IInv, Books, Typed
  <1>2. space.tickets \in Seq(Tasks) /\ space.priority \in Seq(Tasks)
    BY <1>1 DEF Spaces
  <1>3. GlobalSize \in Nat
    BY SpaceAssumption
  <1>4. QED BY <1>1, <1>2, <1>3, Zenon DEF IInv, Books, Typed

(* A step that tries the tickets at its end.                               *)
Tried ==
  /\ Books(space', ticket', task', global', dirty')
  /\ PriorityHead(space, ticket)' /\ NormalHead(space, ticket)'
  /\ untried' = FALSE /\ progress' \in BOOLEAN

LEMMA TryKeeps ==
  ASSUME IInv, kind' = kind, NEW msp, NEW mtk,
         Books(msp, mtk, task', global', dirty'), TryGranting(msp, mtk)
  PROVE  /\ Tried
         /\ space'.flush = msp.flush
         /\ msp.tickets = <<>> => space'.tickets = <<>>
  <1>1. PICK g : g = Granted(msp, mtk)
    BY Zenon
  <1> DEFINE nsp == g.sp
             ntk == g.tk
  <1>2. PICK ts, glob, delayed : ts = task' /\ glob = global' /\ delayed = dirty'
    BY Zenon
  <1>3. Books(msp, mtk, ts, glob, delayed)
    BY <1>2, Zenon
  <1>4. /\ Books(nsp, ntk, ts, glob, delayed)
        /\ PriorityHead(nsp, ntk) /\ NormalHead(nsp, ntk)
        /\ Granted(msp, mtk).any \in BOOLEAN
        /\ nsp.flush = msp.flush
        /\ msp.tickets = <<>> => nsp.tickets = <<>>
    <2>1. nsp = Granted(msp, mtk).sp /\ ntk = Granted(msp, mtk).tk
      BY <1>1, Zenon
    <2> HIDE DEF nsp, ntk
    <2>2. QED BY <1>3, <2>1, GrantsKeep, SMT
  <1>5. /\ space' = nsp /\ ticket' = ntk /\ untried' = FALSE
        /\ progress' = (progress \/ Granted(msp, mtk).any)
    BY <1>1, Zenon DEF TryGranting
  <1>6. PriorityHead(space, ticket)' /\ NormalHead(space, ticket)'
    BY <1>4, <1>5, HeadsPrimed, Zenon
  <1>7. progress' \in BOOLEAN
    BY <1>4, <1>5, InvFacts
  <1>8. Books(space', ticket', task', global', dirty')
    BY <1>2, <1>4, <1>5, Zenon
  <1>9. QED BY <1>4, <1>5, <1>6, <1>7, <1>8, Zenon DEF Tried

LEMMA GrantErrors ==
  ASSUME NEW sp, NEW tk \in [Tasks -> Tickets]
  PROVE  \A t \in Tasks : Granted(sp, tk).tk[t].error = tk[t].error
  <1>1. TAKE t \in Tasks
  <1>2. PICK W : Granted(sp, tk).tk
                   = [u \in Tasks |-> IF u \in W THEN [tk[u] EXCEPT !.bytes = 0] ELSE tk[u]]
    BY DEF Granted
  <1>3. PICK r \in Tickets : r = tk[t]
    OBVIOUS
  <1>4. Granted(sp, tk).tk[t] = IF t \in W THEN [r EXCEPT !.bytes = 0] ELSE r
    BY <1>2, <1>3
  <1>5. QED BY <1>3, <1>4 DEF Tickets

(* A ticket is taken off its queue.                                        *)
LEMMA RemovedIs ==
  ASSUME IInv, NEW t \in Queued(space), NEW r, r = Removed(space, t)
  PROVE  /\ t \in Tasks /\ r \in Drafts
         /\ r.total = space.total /\ r.pinned = space.pinned /\ r.full = space.full
         /\ r.flush = space.flush /\ r.may_use = space.may_use
         /\ r.reclaim = space.reclaim - ticket[t].bytes
         /\ r.tickets = Without(space.tickets, t) /\ r.priority = Without(space.priority, t)
         /\ IsInjective(r.tickets) /\ IsInjective(r.priority)
         /\ ToSet(r.tickets) = ToSet(space.tickets) \ {t}
         /\ ToSet(r.priority) = ToSet(space.priority) \ {t}
         /\ t \notin Queued(r)
         /\ space.tickets = <<>> => r.tickets = <<>>
  <1>1. t \in Tasks
    BY InvFacts, QueuedTasks
  <1>2. r = [space EXCEPT !.reclaim = @ - ticket[t].bytes,
                          !.tickets = Without(@, t), !.priority = Without(@, t)]
    BY Zenon DEF Removed, Queued
  <1>3. /\ Without(space.tickets, t) \in Seq(Tasks)
        /\ Without(space.priority, t) \in Seq(Tasks)
        /\ IsInjective(Without(space.tickets, t)) /\ IsInjective(Without(space.priority, t))
        /\ ToSet(Without(space.tickets, t)) = ToSet(space.tickets) \ {t}
        /\ ToSet(Without(space.priority, t)) = ToSet(space.priority) \ {t}
    BY <1>1, InvFacts, WithoutIs, Zenon DEF QueuesOK
  <1>4. ticket[t].bytes \in Nat /\ space \in Spaces
    BY <1>1, InvFacts, AskedType
  <1>5. /\ r \in Drafts
        /\ r.total = space.total /\ r.pinned = space.pinned /\ r.full = space.full
        /\ r.flush = space.flush /\ r.may_use = space.may_use
        /\ r.reclaim = space.reclaim - ticket[t].bytes
        /\ r.tickets = Without(space.tickets, t) /\ r.priority = Without(space.priority, t)
    <2>1. PICK b \in Nat, sp \in Spaces : b = ticket[t].bytes /\ sp = space
      BY <1>4, Zenon
    <2>2. PICK p, q \in Seq(Tasks) : p = Without(space.priority, t) /\ q = Without(space.tickets, t)
      BY <1>3, Zenon
    <2>3. r = [sp EXCEPT !.reclaim = @ - b, !.tickets = q, !.priority = p]
      BY <1>2, <2>1, <2>2, Zenon
    <2>4. sp.reclaim - b \in Int /\ sp.may_use \in Int
      BY DEF Spaces
    <2>5. r \in Drafts
      BY <2>2, <2>3, <2>4 DEF Spaces, Drafts
    <2>6. /\ r.total = sp.total /\ r.pinned = sp.pinned /\ r.full = sp.full
          /\ r.flush = sp.flush /\ r.may_use = sp.may_use
          /\ r.reclaim = sp.reclaim - b /\ r.tickets = q /\ r.priority = p
      BY <2>3 DEF Spaces
    <2>7. QED BY <2>1, <2>2, <2>5, <2>6, Zenon
  <1>6. t \notin Queued(r)
    BY <1>3, <1>5, Zenon DEF Queued
  <1>7. space.tickets = <<>> => r.tickets = <<>>
    <2>1. space.tickets = <<>> => ToSet(space.tickets) = {}
      BY InvFacts, SeqFacts
    <2>2. ToSet(r.tickets) = {} => r.tickets = <<>>
      BY <1>3, <1>5, SeqFacts
    <2>3. QED BY <1>3, <1>5, <2>1, <2>2, Zenon
  <1>8. QED BY <1>1, <1>3, <1>5, <1>6, <1>7, Zenon

-----------------------------------------------------------------------------
(***************************************************************************)
(* What the steps have in common                                           *)
(***************************************************************************)
LEMMA WorkerStays ==
  ASSUME IInv, kind' = kind, worker' = worker, space'.flush = space.flush,
         space.tickets = <<>> => space'.tickets = <<>>,
         aborted' = aborted \/ Unlocked
  PROVE  WorkerInv'
  <1>1. WorkerInv
    BY InvFacts
  <1>2. QED BY <1>1 DEF WorkerInv, Unlocked

(* The heads of the queues stay, and no space becomes free.                *)
LEMMA HeadsKept ==
  ASSUME IInv, kind' = kind, space' \in Spaces, ticket' \in [Tasks -> Tickets],
         ~untried' => ~untried,
         Unlocked' \/ ~aborted' => Unlocked \/ ~aborted \/ space.tickets = <<>>,
         space'.total = space.total, Used(space) <= Used(space'),
         space'.tickets = space.tickets, space'.priority = space.priority,
         \A t \in Queued(space) : ticket'[t].bytes = ticket[t].bytes
  PROVE  HeadInv'
  <1>1. PICK sp \in Spaces, tk \in [Tasks -> Tickets] : sp = space' /\ tk = ticket'
    OBVIOUS
  <1>2. /\ space.priority # <<>> => Head(space.priority) \in Queued(space)
        /\ space.tickets # <<>> => Head(space.tickets) \in Queued(space)
    BY InvFacts, HeadIs DEF Queued
  <1>3. /\ space.priority # <<>>
             => tk[Head(space.priority)].bytes = ticket[Head(space.priority)].bytes
        /\ space.tickets # <<>>
             => tk[Head(space.tickets)].bytes = ticket[Head(space.tickets)].bytes
    BY <1>1, <1>2, Zenon
  <1>4. /\ sp.total = space.total /\ Used(space) <= Used(sp)
        /\ sp.tickets = space.tickets /\ sp.priority = space.priority
    BY <1>1, Zenon
  <1>5. /\ PriorityHead(space, ticket) => PriorityHead(sp, tk)
        /\ NormalHead(space, ticket) => NormalHead(sp, tk)
    BY <1>3, <1>4, InvFacts, HeadsStay, Zenon
  <1>6. /\ PriorityHead(space, ticket)' <=> PriorityHead(sp, tk)
        /\ NormalHead(space, ticket)' <=> NormalHead(sp, tk)
    BY <1>1, HeadsPrimed, Zenon
  <1>7. HeadInv
    BY InvFacts
  <1>8. space.tickets = <<>> => NormalHead(sp, tk)
    BY <1>4, Zenon DEF NormalHead
  <1>9. QED BY <1>5, <1>6, <1>7, <1>8, Zenon DEF HeadInv

(* Task t is on no queue, before or after.                                 *)
LEMMA Alone ==
  ASSUME IInv, NEW t \in Tasks, t \notin Queued(space),
         NEW k \in Tickets, NEW r \in TaskRecords, NEW nsp \in Drafts,
         NEW nglob \in 0 .. GlobalSize, NEW ndelayed \in Nat,
         nsp.tickets = space.tickets, nsp.priority = space.priority,
         nsp.reclaim = space.reclaim, Fitting(FALSE, FALSE, k, r),
         nsp.may_use = space.may_use + (nglob - global) + (ndelayed - dirty)
                         + Holds(k, r) - Holds(ticket[t], task[t])
  PROVE  Books(nsp, [ticket EXCEPT ![t] = k], [task EXCEPT ![t] = r], nglob, ndelayed)
  <1>1. t \notin ToSet(nsp.tickets) /\ t \notin ToSet(nsp.priority) /\ t \notin Queued(nsp)
    BY Zenon DEF Queued
  <1>2. Owed(t \in Queued(nsp), k) = 0 /\ Owed(t \in Queued(space), ticket[t]) = 0
    BY <1>1, Zenon DEF Owed
  <1>3. nsp.reclaim = space.reclaim + Owed(t \in Queued(nsp), k)
                        - Owed(t \in Queued(space), ticket[t])
    <2>1. space.reclaim \in Nat
      BY InvFacts DEF Spaces
    <2>2. QED BY <1>2, <2>1
  <1>4. Fitting(t \in ToSet(nsp.tickets), t \in ToSet(nsp.priority), k, r)
    BY <1>1 DEF Fitting
  <1>5. IsInjective(nsp.tickets) /\ IsInjective(nsp.priority)
    BY InvFacts, Zenon DEF QueuesOK
  <1>6. /\ ToSet(nsp.tickets) \ {t} = ToSet(space.tickets) \ {t}
        /\ ToSet(nsp.priority) \ {t} = ToSet(space.priority) \ {t}
    BY Zenon
  <1>7. Books(space, ticket, task, global, dirty)
    BY InvFacts
  <1>8. QED BY <1>3, <1>4, <1>5, <1>6, <1>7, OneTask, Zenon

(* Task t leaves its queue, with what it gets from the global reserve.     *)
LEMMA Leaves ==
  ASSUME IInv, NEW t \in Queued(space),
         NEW k \in Tickets, NEW r \in TaskRecords, NEW nglob \in 0 .. GlobalSize,
         Fitting(FALSE, FALSE, k, r), nglob = global - Holds(k, r)
  PROVE  Books(Removed(space, t), [ticket EXCEPT ![t] = k], [task EXCEPT ![t] = r],
               nglob, dirty)
  <1>1. PICK nsp : nsp = Removed(space, t)
    BY Zenon
  <1>2. /\ t \in Tasks /\ nsp \in Drafts /\ nsp.may_use = space.may_use
        /\ nsp.reclaim = space.reclaim - ticket[t].bytes
        /\ IsInjective(nsp.tickets) /\ IsInjective(nsp.priority)
        /\ ToSet(nsp.tickets) = ToSet(space.tickets) \ {t}
        /\ ToSet(nsp.priority) = ToSet(space.priority) \ {t}
        /\ t \notin Queued(nsp)
    BY <1>1, RemovedIs, Zenon
  <1>3. t \notin ToSet(nsp.tickets) /\ t \notin ToSet(nsp.priority)
    BY <1>2, Zenon
  <1>4. Owed(t \in Queued(nsp), k) = 0 /\ Owed(t \in Queued(space), ticket[t]) = ticket[t].bytes
    BY <1>2, Zenon DEF Owed
  <1>5. space.may_use \in Nat /\ space.reclaim \in Nat /\ ticket[t].bytes \in Nat
    BY <1>2, InvFacts, AskedType DEF Spaces
  <1>6. nsp.reclaim = space.reclaim + Owed(t \in Queued(nsp), k)
                        - Owed(t \in Queued(space), ticket[t])
    BY <1>2, <1>4, <1>5
  <1>7. Holds(ticket[t], task[t]) = 0
    <2>1. task[t].pc \in {"wait", "reclaim", "flush"} /\ ticket[t].bytes > 0
      BY <1>2, InvFacts DEF Attended, QueuesOK, Queued
    <2>2. ticket[t].bytes # 0 /\ task[t].pc # "held"
      BY <2>1, <1>5
    <2>3. QED BY <2>2, Zenon DEF Holds
  <1>8. nsp.may_use = space.may_use + (nglob - global) + (dirty - dirty)
                        + Holds(k, r) - Holds(ticket[t], task[t])
    <2>1. Holds(k, r) \in Nat
      BY HeldNow
    <2>2. global \in Nat /\ dirty \in Nat
      BY InvFacts
    <2>3. nsp.may_use = space.may_use
      BY <1>2
    <2>4. QED BY <1>5, <1>7, <2>1, <2>2, <2>3
  <1>9. Fitting(t \in ToSet(nsp.tickets), t \in ToSet(nsp.priority), k, r)
    BY <1>3 DEF Fitting
  <1>10. /\ ToSet(nsp.tickets) \ {t} = ToSet(space.tickets) \ {t}
         /\ ToSet(nsp.priority) \ {t} = ToSet(space.priority) \ {t}
    BY <1>2, Zenon
  <1>11. Books(space, ticket, task, global, dirty) /\ dirty \in Nat
    BY InvFacts
  <1>12. QED BY <1>1, <1>2, <1>6, <1>8, <1>9, <1>10, <1>11, OneTask, Zenon

(* A task that flushes for itself goes on.                                 *)
LEMMA Elsewhere ==
  ASSUME IInv, NEW t \in Tasks, task[t].pc \in {"reclaim", "flush"},
         NEW r \in TaskRecords, r.pc \in {"reclaim", "flush"}
  PROVE  Books(space, ticket, [task EXCEPT ![t] = r], global, dirty)
  <1>1. PICK k \in Tickets : k = ticket[t]
    BY InvFacts
  <1>2. ticket = [ticket EXCEPT ![t] = k]
    BY <1>1, InvFacts
  <1>3. Holds(k, r) = Holds(ticket[t], task[t])
    BY <1>1 DEF Holds
  <1>4. space.may_use = space.may_use + (global - global) + (dirty - dirty)
                          + Holds(k, r) - Holds(ticket[t], task[t])
    <2>1. Holds(k, r) \in Nat /\ space.may_use \in Nat
      BY HeldNow, InvFacts DEF Spaces
    <2>2. QED BY <1>3, <2>1, InvFacts
  <1>5. space.reclaim = space.reclaim + Owed(t \in Queued(space), k)
                          - Owed(t \in Queued(space), ticket[t])
    <2>1. Owed(t \in Queued(space), k) \in Nat
      BY HeldNow DEF Owed
    <2>2. Owed(t \in Queued(space), k) = Owed(t \in Queued(space), ticket[t])
      BY <1>1, Zenon
    <2>3. space.reclaim \in Nat
      BY InvFacts DEF Spaces
    <2>4. QED BY <2>1, <2>2, <2>3
  <1>6. Fitting(t \in ToSet(space.tickets), t \in ToSet(space.priority), k, r)
    <2>1. /\ t \in Queued(space) => k.bytes > 0 /\ k.want = k.bytes /\ k.error = "no"
          /\ t \notin ToSet(space.tickets)
          /\ k.bytes > 0 => t \in ToSet(space.priority)
          /\ k.bytes = 0 => k.error = "no"
      BY <1>1, InvFacts DEF QueuesOK, Attended
    <2>2. QED BY <2>1 DEF Fitting, Queued
  <1>7. space \in Drafts
    BY InvFacts DEF Spaces, Drafts
  <1>8. /\ Books(space, ticket, task, global, dirty)
        /\ global \in 0 .. GlobalSize /\ dirty \in Nat
        /\ IsInjective(space.tickets) /\ IsInjective(space.priority)
    BY InvFacts DEF QueuesOK
  <1>9. Books(space, [ticket EXCEPT ![t] = k], [task EXCEPT ![t] = r], global, dirty)
    BY <1>4, <1>5, <1>6, <1>7, <1>8, OneTask, Zenon
  <1>10. QED BY <1>2, <1>9, Zenon

(* What a step that flushes leaves to show: that the worker is right.      *)
StepOK ==
  /\ Books(space', ticket', task', global', dirty')
  /\ progress' \in BOOLEAN /\ untried' \in BOOLEAN
  /\ space'.flush = space.flush
  /\ space.tickets = <<>> => space'.tickets = <<>>
  /\ ~untried' => /\ PriorityHead(space, ticket)'
                  /\ Unlocked \/ ~aborted => NormalHead(space, ticket)'

LEMMA StepTries ==
  ASSUME IInv, kind' = kind, NEW msp, NEW mtk,
         Books(msp, mtk, task', global', dirty'), TryGranting(msp, mtk),
         msp.flush = space.flush, space.tickets = <<>> => msp.tickets = <<>>
  PROVE  StepOK
  <1>1. /\ Tried /\ space'.flush = msp.flush
        /\ msp.tickets = <<>> => space'.tickets = <<>>
    BY TryKeeps, Zenon
  <1>2. QED BY <1>1 DEF StepOK, Tried

(* Tickets and queues stay, and no space becomes free.                     *)
LEMMA StepMoves ==
  ASSUME IInv, kind' = kind, Books(space', ticket', task', global', dirty'),
         UNCHANGED <<ticket, progress, untried>>,
         space'.total = space.total, Used(space) <= Used(space'),
         space'.tickets = space.tickets, space'.priority = space.priority,
         space'.flush = space.flush
  PROVE  StepOK
  <1>1. PICK sp, tk, ts, glob, delayed :
          sp = space' /\ tk = ticket' /\ ts = task' /\ glob = global' /\ delayed = dirty'
    BY Zenon
  <1>2. sp \in Spaces /\ tk \in [Tasks -> Tickets]
    BY <1>1 DEF Books, Typed
  <1>3. tk = ticket
    BY <1>1
  <1>4. /\ sp.total = space.total /\ Used(space) <= Used(sp)
        /\ sp.tickets = space.tickets /\ sp.priority = space.priority
    BY <1>1, Zenon
  <1>5. /\ PriorityHead(space, ticket) => PriorityHead(sp, tk)
        /\ NormalHead(space, ticket) => NormalHead(sp, tk)
    BY <1>2, <1>3, <1>4, InvFacts, HeadsStay, Zenon
  <1>6. /\ PriorityHead(space, ticket)' <=> PriorityHead(sp, tk)
        /\ NormalHead(space, ticket)' <=> NormalHead(sp, tk)
    BY <1>1, HeadsPrimed, Zenon
  <1>7. ~untried => /\ PriorityHead(space, ticket)
                    /\ Unlocked \/ ~aborted => NormalHead(space, ticket)
    BY InvFacts DEF HeadInv
  <1>8. progress' \in BOOLEAN /\ untried' \in BOOLEAN /\ untried' = untried
    BY InvFacts
  <1>9. ~untried' => /\ PriorityHead(space, ticket)'
                     /\ Unlocked \/ ~aborted => NormalHead(space, ticket)'
    <2>1. ~untried' => ~untried
      BY <1>8
    <2>2. PriorityHead(space, ticket) => PriorityHead(space, ticket)'
      BY <1>5, <1>6, Zenon
    <2>3. NormalHead(space, ticket) => NormalHead(space, ticket)'
      BY <1>5, <1>6, Zenon
    <2>4. QED BY <1>7, <2>1, <2>2, <2>3, Zenon
  <1>10. space.tickets = <<>> => space'.tickets = <<>>
    BY Zenon
  <1>11. QED BY <1>8, <1>9, <1>10, Zenon DEF StepOK

(* The tickets that are queued still do not fit if what is free has only   *)
(* moved to another place.                                                 *)
LEMMA ReclaimKeeps ==
  ASSUME IInv, kind' = kind, NEW ts, ts = task', Books(space, ticket, ts, global, dirty),
         Reclaim
  PROVE  StepOK
  <1>1. PICK nsp : nsp = [space EXCEPT !.may_use = @ - dirty]
    OBVIOUS
  <1>2. PICK psp : psp = [space EXCEPT !.may_use = @ - dirty, !.pinned = @ + dirty]
    OBVIOUS
  <1>3. space \in Spaces /\ dirty \in Nat /\ global \in 0 .. GlobalSize /\ GlobalSize \in Nat
    BY InvFacts
  <1>4. /\ nsp \in Drafts /\ nsp.tickets = space.tickets /\ nsp.priority = space.priority
        /\ nsp.reclaim = space.reclaim /\ nsp.may_use = space.may_use - dirty
        /\ nsp.flush = space.flush
    BY <1>1, <1>3 DEF Spaces, Drafts
  <1>5. /\ psp \in Drafts /\ psp.tickets = space.tickets /\ psp.priority = space.priority
        /\ psp.reclaim = space.reclaim /\ psp.may_use = space.may_use - dirty
        /\ psp.flush = space.flush /\ psp.total = space.total
        /\ psp.pinned = space.pinned + dirty
    <2>1. PICK sp \in Spaces : sp = space
      BY <1>3
    <2>2. PICK a \in Int : a = space.may_use - dirty
      BY <1>3 DEF Spaces
    <2>3. PICK b \in Nat : b = space.pinned + dirty
      BY <1>3 DEF Spaces
    <2>4. psp = [sp EXCEPT !.may_use = a, !.pinned = b]
      BY <1>2, <2>1, <2>2, <2>3, Zenon
    <2>5. psp \in Drafts
      <3>1. sp \in Drafts
        BY SpaceIsDraft
      <3>2. QED BY <3>1, <2>4 DEF Drafts
    <2>6. /\ psp.tickets = sp.tickets /\ psp.priority = sp.priority
          /\ psp.reclaim = sp.reclaim /\ psp.may_use = a
          /\ psp.flush = sp.flush /\ psp.total = sp.total /\ psp.pinned = b
      BY <2>4 DEF Spaces
    <2>7. QED BY <2>1, <2>2, <2>3, <2>5, <2>6, Zenon
  <1>6. space.may_use \in Nat /\ space.pinned \in Nat
    BY <1>3 DEF Spaces
  <1>7. ASSUME NEW d \in Drafts, d.tickets = space.tickets, d.priority = space.priority,
               d.reclaim = space.reclaim, d.may_use = space.may_use - dirty
        PROVE  Books(d, ticket, ts, global, 0)
    <2>1. d.may_use = space.may_use + (global - global) + (0 - dirty)
      BY <1>3, <1>6, <1>7
    <2>2. 0 \in Nat
      OBVIOUS
    <2>3. QED BY <1>3, <1>7, <2>1, <2>2, SpaceMove, Zenon
  <1>8. Books(nsp, ticket, ts, global, 0) /\ Books(psp, ticket, ts, global, 0)
    BY <1>4, <1>5, <1>7, Zenon
  <1>9. global' = global /\ dirty' = 0
    BY DEF Reclaim
  <1>10. CASE TryGranting(nsp, ticket)
    <2>1. Books(nsp, ticket, task', global', dirty')
      BY <1>8, <1>9, Zenon
    <2>2. PICK tk : tk = ticket
      OBVIOUS
    <2>3. QED BY <1>4, <1>10, <2>1, <2>2, StepTries, Zenon
  <1>11. CASE space' = psp /\ UNCHANGED <<ticket, progress, untried>>
    <2>1. ticket' = ticket
      BY <1>11
    <2>2. Books(space', ticket', task', global', dirty')
      BY <1>8, <1>9, <1>11, <2>1, Zenon
    <2>3. Used(space) <= Used(space')
      BY <1>3, <1>5, <1>6, <1>11 DEF Used
    <2>4. QED BY <1>5, <1>11, <2>2, <2>3, StepMoves, Zenon
  <1>12. QED BY <1>1, <1>2, <1>10, <1>11, Zenon DEF Reclaim

LEMMA ChunkKeeps ==
  ASSUME IInv, kind' = kind, NEW ts, ts = task', Books(space, ticket, ts, global, dirty),
         ChunkAlloc
  PROVE  StepOK
  <1>1. PICK sp \in Spaces : sp = space
    BY InvFacts
  <1>2. /\ space.may_use \in Nat /\ space.pinned \in Nat /\ space.total \in Nat
        /\ dirty \in Nat /\ global \in 0 .. GlobalSize /\ GlobalSize \in Nat
    <2>1. space \in Spaces /\ dirty \in Nat /\ global \in 0 .. GlobalSize /\ GlobalSize \in Nat
      BY InvFacts
    <2>2. QED BY <2>1, SpaceAssumption DEF Spaces
  <1>3. global' = global /\ dirty' = dirty
    BY DEF ChunkAlloc
  <1>4. ASSUME NEW d \in Drafts, d.tickets = space.tickets, d.priority = space.priority,
               d.reclaim = space.reclaim, d.may_use = space.may_use
        PROVE  Books(d, ticket, ts, global, dirty)
    <2>1. d.may_use = space.may_use + (global - global) + (dirty - dirty)
      BY <1>2, <1>4
    <2>2. QED BY <1>2, <1>4, <2>1, SpaceMove, Zenon
  <1>5. CASE space.total + Chunk <= MaxTotal
    <2>1. PICK n \in Total .. MaxTotal : n = space.total + Chunk
      <3>1. space.total + Chunk \in Total .. MaxTotal
        BY <1>1, <1>5, SpaceAssumption DEF Spaces
      <3>2. QED BY <3>1
    <2>2. PICK nsp : nsp = [sp EXCEPT !.total = n, !.full = FALSE]
      OBVIOUS
    <2>3. nsp \in Drafts
      <3>1. sp \in Drafts
        BY SpaceIsDraft
      <3>2. QED BY <3>1, <2>2 DEF Drafts
    <2>4. /\ nsp.tickets = sp.tickets /\ nsp.priority = sp.priority
          /\ nsp.reclaim = sp.reclaim /\ nsp.may_use = sp.may_use /\ nsp.flush = sp.flush
      BY <2>2 DEF Spaces
    <2>5. Books(nsp, ticket, ts, global, dirty)
      BY <1>1, <1>4, <2>3, <2>4, Zenon
    <2>6. TryGranting(nsp, ticket)
      BY <1>1, <1>5, <2>1, <2>2, Zenon DEF ChunkAlloc
    <2>7. Books(nsp, ticket, task', global', dirty')
      BY <1>3, <2>5, Zenon
    <2>8. PICK tk : tk = ticket
      OBVIOUS
    <2>9. QED BY <1>1, <2>4, <2>6, <2>7, <2>8, StepTries, Zenon
  <1>6. CASE ~(space.total + Chunk <= MaxTotal)
    <2>1. PICK nsp : nsp = [sp EXCEPT !.full = TRUE]
      OBVIOUS
    <2>2. nsp \in Drafts
      <3>1. sp \in Drafts
        BY SpaceIsDraft
      <3>2. QED BY <3>1, <2>1 DEF Drafts
    <2>3. /\ nsp.tickets = sp.tickets /\ nsp.priority = sp.priority
          /\ nsp.reclaim = sp.reclaim /\ nsp.may_use = sp.may_use /\ nsp.flush = sp.flush
          /\ nsp.total = sp.total /\ nsp.pinned = sp.pinned
      BY <2>1 DEF Spaces
    <2>4. Books(nsp, ticket, ts, global, dirty)
      BY <1>1, <1>4, <2>2, <2>3, Zenon
    <2>5. space' = nsp /\ UNCHANGED <<ticket, progress, untried>>
      BY <1>1, <1>6, <2>1, Zenon DEF ChunkAlloc
    <2>6. ticket' = ticket
      BY <2>5
    <2>7. Books(space', ticket', task', global', dirty')
      BY <1>3, <2>4, <2>5, <2>6, Zenon
    <2>8. Used(space) <= Used(space')
      BY <1>1, <1>2, <2>3, <2>5 DEF Used
    <2>9. QED BY <1>1, <2>3, <2>5, <2>7, <2>8, StepMoves, Zenon
  <1>7. QED BY <1>5, <1>6

(* What a commit moves into the global reserve.                            *)
LEMMA RefillIs ==
  ASSUME IInv
  PROVE  /\ Refill \in Nat /\ Refill <= space.pinned
         /\ global + Refill \in 0 .. GlobalSize
  <1>1. space.pinned \in Nat /\ global \in 0 .. GlobalSize /\ GlobalSize \in Nat
    BY InvFacts DEF Spaces
  <1>2. CASE kind = "metadata"
    <2>1. PICK a, b \in Nat : a = space.pinned /\ b = GlobalSize - global
      BY <1>1
    <2>2. Min({a, b}) \in {a, b} /\ Min({a, b}) <= a /\ Min({a, b}) <= b
      <3>1. \E x \in {a, b} : \A y \in {a, b} : x <= y
        BY <2>1
      <3>2. Min({a, b}) \in {a, b} /\ \A y \in {a, b} : Min({a, b}) <= y
        BY <3>1 DEF Min
      <3>3. QED BY <3>2
    <2>3. Refill = Min({a, b})
      BY <1>2, <2>1, Zenon DEF Refill
    <2>4. QED BY <1>1, <2>1, <2>2, <2>3
  <1>3. CASE kind # "metadata"
    BY <1>1, <1>3 DEF Refill
  <1>4. QED BY <1>2, <1>3

LEMMA CommitKeeps ==
  ASSUME IInv, kind' = kind, NEW ts, ts = task', Books(space, ticket, ts, global, dirty),
         Commit
  PROVE  StepOK
  <1>1. PICK sp \in Spaces, b \in Nat : sp = space /\ b = Refill
    BY InvFacts, RefillIs
  <1>2. /\ sp.may_use \in Nat /\ sp.pinned \in Nat
        /\ dirty \in Nat /\ global \in 0 .. GlobalSize /\ GlobalSize \in Nat
        /\ b <= sp.pinned /\ global + b \in 0 .. GlobalSize
    BY <1>1, InvFacts, RefillIs DEF Spaces
  <1>3. PICK a \in Nat : a = sp.may_use + b
    BY <1>2
  <1>4. PICK nsp : nsp = [sp EXCEPT !.pinned = 0, !.may_use = a]
    OBVIOUS
  <1>5. nsp \in Drafts
    <2>1. sp \in Drafts
      BY SpaceIsDraft
    <2>2. PICK z \in Nat, c \in Int : z = 0 /\ c = a
      BY <1>3
    <2>3. nsp = [sp EXCEPT !.pinned = z, !.may_use = c]
      BY <1>4, <2>2
    <2>4. QED BY <2>1, <2>3 DEF Drafts
  <1>6. /\ nsp.tickets = sp.tickets /\ nsp.priority = sp.priority
        /\ nsp.reclaim = sp.reclaim /\ nsp.may_use = a /\ nsp.flush = sp.flush
        /\ nsp.total = sp.total /\ nsp.pinned = 0
    BY <1>4 DEF Spaces
  <1>7. global' = global + b /\ dirty' = dirty
    BY <1>1 DEF Commit
  <1>8. PICK ng \in 0 .. GlobalSize : ng = global + b
    BY <1>2
  <1>9. Books(nsp, ticket, ts, ng, dirty)
    <2>1. nsp.may_use = space.may_use + (ng - global) + (dirty - dirty)
      <3>1. ng - global = b
        BY <1>2, <1>8
      <3>2. QED BY <1>1, <1>2, <1>3, <1>6, <3>1
    <2>2. QED BY <1>1, <1>2, <1>5, <1>6, <2>1, SpaceMove, Zenon
  <1>10. Books(nsp, ticket, task', global', dirty')
    BY <1>7, <1>8, <1>9, Zenon
  <1>11. nsp = [space EXCEPT !.pinned = 0, !.may_use = @ + Refill]
    BY <1>1, <1>3, <1>4, Zenon
  <1>12. CASE Refill < space.pinned
    <2>1. TryGranting(nsp, ticket)
      BY <1>11, <1>12, Zenon DEF Commit
    <2>2. PICK tk : tk = ticket
      OBVIOUS
    <2>3. QED BY <1>1, <1>6, <1>10, <2>1, <2>2, StepTries, Zenon
  <1>13. CASE ~(Refill < space.pinned)
    <2>1. space' = nsp /\ UNCHANGED <<ticket, progress, untried>>
      BY <1>11, <1>13, Zenon DEF Commit
    <2>2. ticket' = ticket
      BY <2>1
    <2>3. Books(space', ticket', task', global', dirty')
      BY <1>10, <2>1, <2>2, Zenon
    <2>4. b = sp.pinned
      BY <1>1, <1>2, <1>13
    <2>5. Used(space) <= Used(space')
      BY <1>1, <1>2, <1>3, <1>6, <2>1, <2>4 DEF Used
    <2>6. QED BY <1>1, <1>6, <2>1, <2>3, <2>5, StepMoves, Zenon
  <1>14. QED BY <1>12, <1>13

LEMMA FlushKeeps ==
  ASSUME IInv, kind' = kind, NEW ts, ts = task', Books(space, ticket, ts, global, dirty),
         NEW state, FlushSpace(state)
  PROVE  StepOK
  <1>1. CASE Commit
    BY <1>1, CommitKeeps, Zenon
  <1>2. CASE ChunkAlloc
    BY <1>2, ChunkKeeps, Zenon
  <1>3. CASE Reclaim
    BY <1>3, ReclaimKeeps, Zenon
  <1>4. CASE UNCHANGED <<queueVars, dirty, global>>
    <2>1. /\ space' = space /\ ticket' = ticket /\ global' = global /\ dirty' = dirty
          /\ UNCHANGED <<ticket, progress, untried>>
      BY <1>4 DEF queueVars
    <2>2. Books(space', ticket', task', global', dirty')
      BY <2>1, Zenon
    <2>3. Used(space) <= Used(space')
      <3>1. Used(space) \in Nat
        BY InvFacts DEF Used, Spaces
      <3>2. Used(space') = Used(space)
        BY <2>1, Zenon
      <3>3. QED BY <3>1, <3>2
    <2>4. QED BY <2>1, <2>2, <2>3, StepMoves, Zenon
  <1>5. QED BY <1>1, <1>2, <1>3, <1>4, Zenon DEF FlushSpace

LEMMA StepInv ==
  ASSUME IInv, StepOK, kind' = kind, worker' = worker, aborted' = aborted,
         requests' = requests
  PROVE  IInv'
  <1>1. WorkerInv'
    BY WorkerStays DEF StepOK
  <1>2. HeadInv'
    BY Zenon DEF StepOK, HeadInv, Unlocked
  <1>3. kind' \in Kinds /\ aborted' \in BOOLEAN /\ requests' \in Nat
    BY InvFacts
  <1>4. QED BY <1>1, <1>2, <1>3, Zenon DEF StepOK, IInv

(* What is left to show of a step that keeps the queues as they are.       *)
LEMMA QuietStep ==
  ASSUME IInv, Books(space', ticket', task', global', dirty'), kind' = kind,
         progress' = progress, untried' = untried, worker' = worker,
         aborted' = aborted \/ (Unlocked /\ aborted' \in BOOLEAN), requests' \in Nat,
         space'.tickets = space.tickets, space'.priority = space.priority,
         space'.flush = space.flush, space'.total = space.total,
         Used(space) <= Used(space'),
         \A t \in Queued(space) : ticket'[t].bytes = ticket[t].bytes
  PROVE  IInv'
  <1>1. space' \in Spaces /\ ticket' \in [Tasks -> Tickets]
    BY DEF Books, Typed
  <1>2. Unlocked' \/ ~aborted' => Unlocked \/ ~aborted
    BY DEF Unlocked
  <1>3. HeadInv'
    BY <1>1, <1>2, HeadsKept, Zenon
  <1>4. WorkerInv'
    BY WorkerStays
  <1>5. kind' \in Kinds /\ progress' \in BOOLEAN /\ untried' \in BOOLEAN /\ aborted' \in BOOLEAN
    BY InvFacts
  <1>6. QED BY <1>3, <1>4, <1>5, Zenon DEF IInv

LEMMA NotQueued ==
  ASSUME IInv, NEW t \in Tasks, task[t].pc \in {"idle", "held"} \/ Answered(t)
  PROVE  t \notin Queued(space)
  BY InvFacts DEF QueuesOK, Attended, Queued, Answered

LEMMA UsedNat ==
  ASSUME IInv
  PROVE  Used(space) \in Nat /\ space.may_use \in Nat /\ space.pinned \in Nat
         /\ space.total \in Nat /\ space.reclaim \in Nat /\ Used(space) <= Used(space)
  <1>1. space.may_use \in Nat /\ space.pinned \in Nat /\ space.total \in Nat
        /\ space.reclaim \in Nat
    BY InvFacts, SpaceAssumption DEF Spaces
  <1>2. QED BY <1>1 DEF Used

LEMMA Answers ==
  ASSUME IInv, NEW t \in Tasks, task[t].pc \in {"wait", "reclaim", "flush"}, Answered(t),
         UNCHANGED queueVars, Answer(t),
         UNCHANGED <<kind, worker, dirty, global, aborted, requests>>
  PROVE  IInv'
  <1>1. t \notin Queued(space)
    BY NotQueued
  <1>2. PICK k \in Tickets : k = ticket[t]
    BY InvFacts
  <1>3. /\ space' = space /\ ticket' = ticket /\ progress' = progress /\ untried' = untried
        /\ kind' = kind /\ worker' = worker /\ dirty' = dirty /\ global' = global
        /\ aborted' = aborted /\ requests' = requests
    BY DEF queueVars
  <1>4. PICK r : r = [Idle EXCEPT !.pc = IF k.error = "no" THEN "held" ELSE "idle"]
    OBVIOUS
  <1>5. task' = [task EXCEPT ![t] = r]
    BY <1>2, <1>3, <1>4, Zenon DEF Answer
  <1>6. r \in TaskRecords /\ r.pc = IF k.error = "no" THEN "held" ELSE "idle"
    BY <1>4 DEF Idle, TaskRecords, Places, FlushNames
  <1>7. /\ k.bytes = 0 => k.error = "no"
        /\ k.bytes = 0 \/ k.error # "no"
    BY <1>2, InvFacts DEF Attended, Answered
  <1>8. Fitting(FALSE, FALSE, k, r)
    BY <1>6, <1>7 DEF Fitting
  <1>9. Holds(k, r) = Holds(ticket[t], task[t])
    BY <1>2, <1>6, <1>7 DEF Holds
  <1>10. space.may_use = space.may_use + (global - global) + (dirty - dirty)
                           + Holds(k, r) - Holds(ticket[t], task[t])
    <2>1. Holds(k, r) \in Nat
      BY HeldNow
    <2>2. global \in Int /\ dirty \in Int
      BY InvFacts
    <2>3. QED BY <1>9, <2>1, <2>2, UsedNat
  <1>11. space \in Drafts /\ global \in 0 .. GlobalSize /\ dirty \in Nat
    BY InvFacts, SpaceIsDraft
  <1>12. Books(space, [ticket EXCEPT ![t] = k], [task EXCEPT ![t] = r], global, dirty)
    BY <1>1, <1>6, <1>8, <1>10, <1>11, Alone, Zenon
  <1>13. [ticket EXCEPT ![t] = k] = ticket
    BY <1>2, InvFacts
  <1>14. Books(space', ticket', task', global', dirty')
    BY <1>3, <1>5, <1>12, <1>13, Zenon
  <1>15. requests' \in Nat
    BY <1>3, InvFacts
  <1>16. /\ space'.tickets = space.tickets /\ space'.priority = space.priority
         /\ space'.flush = space.flush /\ space'.total = space.total
         /\ Used(space) <= Used(space')
         /\ \A u \in Queued(space) : ticket'[u].bytes = ticket[u].bytes
    BY <1>3, UsedNat, Zenon
  <1>17. QED BY <1>3, <1>14, <1>15, <1>16, QuietStep, Zenon

LEMMA WaitReserveTicketInv ==
  ASSUME IInv, NEW t \in Tasks, WaitReserveTicket(t)
  PROVE  IInv'
  <1>1. /\ task[t].pc \in {"wait", "reclaim", "flush"} /\ Answered(t)
        /\ UNCHANGED queueVars /\ Answer(t)
        /\ UNCHANGED <<kind, worker, dirty, global, aborted, requests>>
    BY DEF WaitReserveTicket
  <1>2. QED BY <1>1, Answers, Zenon

LEMMA PriorityGrantedInv ==
  ASSUME IInv, NEW t \in Tasks, PriorityGranted(t)
  PROVE  IInv'
  <1>1. /\ task[t].pc \in {"wait", "reclaim", "flush"} /\ Answered(t)
        /\ UNCHANGED queueVars /\ Answer(t)
        /\ UNCHANGED <<kind, worker, dirty, global, aborted, requests>>
    BY DEF PriorityGranted, Answered
  <1>2. QED BY <1>1, Answers, Zenon

LEMMA AbortInv ==
  ASSUME IInv, Abort
  PROVE  IInv'
  <1>1. /\ space' = space /\ ticket' = ticket /\ progress' = progress /\ untried' = untried
        /\ kind' = kind /\ worker' = worker /\ dirty' = dirty /\ global' = global
        /\ task' = task /\ requests' = requests /\ aborted' = TRUE /\ Unlocked
    BY DEF Abort, queueVars
  <1>2. Books(space', ticket', task', global', dirty')
    BY <1>1, InvFacts, Zenon
  <1>3. requests' \in Nat /\ aborted' \in BOOLEAN
    BY <1>1, InvFacts
  <1>4. /\ space'.tickets = space.tickets /\ space'.priority = space.priority
        /\ space'.flush = space.flush /\ space'.total = space.total
        /\ Used(space) <= Used(space')
        /\ \A u \in Queued(space) : ticket'[u].bytes = ticket[u].bytes
    BY <1>1, UsedNat, Zenon
  <1>5. QED BY <1>1, <1>2, <1>3, <1>4, QuietStep, Zenon

LEMMA OtherFlushInv ==
  ASSUME IInv, OtherFlush
  PROVE  IInv'
  <1>1. /\ kind' = kind /\ task' = task /\ worker' = worker
        /\ aborted' = aborted /\ requests' = requests
        /\ Reclaim \/ Commit
    BY DEF OtherFlush
  <1>2. PICK ts : ts = task'
    OBVIOUS
  <1>3. Books(space, ticket, ts, global, dirty)
    BY <1>1, <1>2, InvFacts, Zenon
  <1>4. StepOK
    BY <1>1, <1>2, <1>3, ReclaimKeeps, CommitKeeps, Zenon
  <1>5. QED BY <1>1, <1>4, StepInv, Zenon

-----------------------------------------------------------------------------
(***************************************************************************)
(* __reserve_bytes                                                         *)
(***************************************************************************)
LEMMA ReserveNowInv ==
  ASSUME IInv, NEW t \in Tasks, NEW flush \in Flushes, NEW bytes \in Sizes,
         Reserve(t, flush, bytes), ReserveNow(t, flush, bytes)
  PROVE  IInv'
  <1>1. /\ task[t].pc = "idle" /\ requests' = requests + 1
        /\ kind' = kind /\ progress' = progress /\ untried' = untried
        /\ dirty' = dirty /\ global' = global /\ aborted' = aborted /\ worker' = worker
    BY DEF Reserve, ReserveNow
  <1>2. bytes \in Nat
    BY SpaceAssumption
  <1>3. PICK sp \in Spaces, ts \in TaskRecords : sp = space /\ ts = task[t]
    BY InvFacts
  <1>4. PICK a \in Int : a = sp.may_use + bytes
    BY <1>2 DEF Spaces
  <1>5. PICK nsp : nsp = [sp EXCEPT !.may_use = a]
    OBVIOUS
  <1>6. PICK k : k = [NoTicket EXCEPT !.want = bytes]
    OBVIOUS
  <1>7. PICK r : r = [ts EXCEPT !.pc = "held"]
    OBVIOUS
  <1>8. space' = nsp /\ ticket' = [ticket EXCEPT ![t] = k] /\ task' = [task EXCEPT ![t] = r]
    <2>1. space' = nsp
      BY <1>3, <1>4, <1>5, Zenon DEF ReserveNow
    <2>2. ticket' = [ticket EXCEPT ![t] = k]
      BY <1>6, Zenon DEF ReserveNow
    <2>3. task' = [task EXCEPT ![t] = r]
      BY <1>3, <1>7, Zenon DEF ReserveNow
    <2>4. QED BY <2>1, <2>2, <2>3
  <1>9. nsp \in Drafts
    <2>1. sp \in Drafts
      BY SpaceIsDraft
    <2>2. QED BY <1>5, <2>1 DEF Drafts
  <1>10. /\ nsp.tickets = sp.tickets /\ nsp.priority = sp.priority /\ nsp.flush = sp.flush
         /\ nsp.reclaim = sp.reclaim /\ nsp.total = sp.total /\ nsp.pinned = sp.pinned
         /\ nsp.may_use = a
    BY <1>5 DEF Spaces
  <1>11. k \in Tickets /\ k.bytes = 0 /\ k.want = bytes /\ k.error = "no"
    BY <1>2, <1>6 DEF NoTicket, Tickets
  <1>12. r \in TaskRecords /\ r.pc = "held"
    BY <1>3, <1>7 DEF TaskRecords, Places
  <1>13. Holds(k, r) = bytes /\ Holds(ticket[t], task[t]) = 0
    BY <1>1, <1>11, <1>12 DEF Holds
  <1>14. Fitting(FALSE, FALSE, k, r)
    BY <1>11, <1>12 DEF Fitting
  <1>15. t \notin Queued(space)
    BY <1>1, NotQueued
  <1>16. global \in 0 .. GlobalSize /\ dirty \in Nat
    BY InvFacts
  <1>17. nsp.may_use = space.may_use + (global - global) + (dirty - dirty)
                         + Holds(k, r) - Holds(ticket[t], task[t])
    <2>1. global \in Int /\ space.may_use \in Nat
      BY <1>16, UsedNat
    <2>2. QED BY <1>2, <1>3, <1>4, <1>10, <1>13, <1>16, <2>1
  <1>18. Books(nsp, [ticket EXCEPT ![t] = k], [task EXCEPT ![t] = r], global, dirty)
    BY <1>3, <1>9, <1>10, <1>11, <1>12, <1>14, <1>15, <1>16, <1>17, Alone, Zenon
  <1>19. Books(space', ticket', task', global', dirty')
    BY <1>1, <1>8, <1>18, Zenon
  <1>20. Used(space) <= Used(space')
    BY <1>2, <1>3, <1>4, <1>8, <1>10, UsedNat DEF Used
  <1>21. \A u \in Queued(space) : ticket'[u].bytes = ticket[u].bytes
    <2>1. TAKE u \in Queued(space)
    <2>2. u \in Tasks /\ u # t
      BY <1>15, InvFacts, QueuedTasks
    <2>3. QED BY <1>8, <2>2, InvFacts
  <1>22. requests' \in Nat
    BY <1>1, InvFacts
  <1>23. /\ space'.tickets = space.tickets /\ space'.priority = space.priority
         /\ space'.flush = space.flush /\ space'.total = space.total
    BY <1>3, <1>8, <1>10, Zenon
  <1>24. QED BY <1>1, <1>19, <1>20, <1>21, <1>22, <1>23, QuietStep, Zenon

LEMMA ReserveFailsInv ==
  ASSUME IInv, NEW t \in Tasks, NEW flush \in Flushes, NEW bytes \in Sizes,
         Reserve(t, flush, bytes), ReserveFails(t, flush, bytes)
  PROVE  IInv'
  <1>1. /\ space' = space /\ ticket' = ticket /\ progress' = progress /\ untried' = untried
        /\ kind' = kind /\ worker' = worker /\ dirty' = dirty /\ global' = global
        /\ task' = task /\ requests' = requests + 1 /\ aborted' = aborted
    BY DEF Reserve, ReserveFails
  <1>2. Books(space', ticket', task', global', dirty')
    BY <1>1, InvFacts, Zenon
  <1>3. requests' \in Nat
    BY <1>1, InvFacts
  <1>4. /\ space'.tickets = space.tickets /\ space'.priority = space.priority
        /\ space'.flush = space.flush /\ space'.total = space.total
        /\ Used(space) <= Used(space')
        /\ \A u \in Queued(space) : ticket'[u].bytes = ticket[u].bytes
    BY <1>1, UsedNat, Zenon
  <1>5. QED BY <1>1, <1>2, <1>3, <1>4, QuietStep, Zenon

(* A ticket is queued: behind the others, or because its bytes do not fit. *)
LEMMA ReserveTicketInv ==
  ASSUME IInv, NEW t \in Tasks, NEW flush \in Flushes, NEW bytes \in Sizes,
         Reserve(t, flush, bytes), ReserveTicket(t, flush, bytes)
  PROVE  IInv'
  <1>1. /\ task[t].pc = "idle" /\ requests' = requests + 1 /\ Unlocked
        /\ kind' = kind /\ progress' = progress /\ untried' = untried
        /\ dirty' = dirty /\ global' = global /\ aborted' = aborted
        /\ ~ReservedAtOnce(flush, bytes) /\ flush \notin {"NO_FLUSH", "FLUSH_EMERGENCY"}
    BY DEF Reserve, ReserveTicket
  <1>2. bytes \in Nat /\ bytes > 0
    BY SpaceAssumption
  <1>3. PICK sp \in Spaces : sp = space
    BY InvFacts
  <1>4. PICK waits \in BOOLEAN : waits <=> flush \in Normal \cup {"FLUSH_DATA"}
    OBVIOUS
  <1>5. PICK p \in Seq(Tasks), q \in Seq(Tasks) :
          /\ q = IF waits THEN Append(sp.tickets, t) ELSE sp.tickets
          /\ p = IF waits THEN sp.priority ELSE Append(sp.priority, t)
    BY <1>3, InvFacts, AppendIs
  <1>6. PICK a \in Int, f \in BOOLEAN : a = sp.reclaim + bytes /\ f = (waits \/ sp.flush)
    BY <1>2 DEF Spaces
  <1>7. PICK nsp : nsp = [sp EXCEPT !.reclaim = a, !.tickets = q, !.priority = p, !.flush = f]
    OBVIOUS
  <1>8. PICK k : k = [bytes |-> bytes, want |-> bytes, error |-> "no",
                      steal |-> flush \in {"FLUSH_ALL_STEAL", "FLUSH_EVICT"}]
    OBVIOUS
  <1>9. PICK r : r = [pc |-> IF waits THEN "wait" ELSE "reclaim", flush |-> flush, step |-> 0]
    OBVIOUS
  <1>10. space' = nsp /\ ticket' = [ticket EXCEPT ![t] = k] /\ task' = [task EXCEPT ![t] = r]
    <2>1. space' = [space EXCEPT !.reclaim = a, !.tickets = q, !.priority = p, !.flush = f]
      <3>1. space' = [space EXCEPT !.reclaim = @ + bytes,
                                   !.tickets = IF waits THEN Append(@, t) ELSE @,
                                   !.priority = IF waits THEN @ ELSE Append(@, t),
                                   !.flush = waits \/ @]
        BY <1>4 DEF ReserveTicket
      <3>2. QED BY <3>1, <1>3, <1>5, <1>6, Zenon
    <2>2. space' = nsp
      BY <2>1, <1>3, <1>7, Zenon
    <2>3. ticket' = [ticket EXCEPT ![t] = k]
      BY <1>8, Zenon DEF ReserveTicket
    <2>4. task' = [task EXCEPT ![t] = r]
      BY <1>4, <1>9 DEF ReserveTicket
    <2>5. QED BY <2>2, <2>3, <2>4
  <1>11. nsp \in Drafts
    <2>1. sp \in Drafts
      BY SpaceIsDraft
    <2>2. QED BY <1>7, <2>1 DEF Drafts
  <1>12. /\ nsp.tickets = q /\ nsp.priority = p /\ nsp.flush = f /\ nsp.reclaim = a
         /\ nsp.total = sp.total /\ nsp.pinned = sp.pinned /\ nsp.may_use = sp.may_use
    BY <1>7 DEF Spaces
  <1>13. k \in Tickets /\ k.bytes = bytes /\ k.want = bytes /\ k.error = "no"
    BY <1>2, <1>8 DEF Tickets
  <1>14. r \in TaskRecords /\ r.pc = IF waits THEN "wait" ELSE "reclaim"
    <2>1. flush \in FlushNames
      BY DEF Flushes, FlushNames, Normal
    <2>2. QED BY <1>9, <2>1 DEF TaskRecords, Places
  <1>15. t \notin Queued(space)
    BY <1>1, NotQueued
  <1>16. /\ IsInjective(q) /\ IsInjective(p)
         /\ ToSet(q) \ {t} = ToSet(sp.tickets) \ {t}
         /\ ToSet(p) \ {t} = ToSet(sp.priority) \ {t}
         /\ waits => t \in ToSet(q) /\ t \notin ToSet(p)
         /\ ~waits => t \in ToSet(p) /\ t \notin ToSet(q)
    <2>1. /\ sp.tickets \in Seq(Tasks) /\ sp.priority \in Seq(Tasks)
          /\ IsInjective(sp.tickets) /\ IsInjective(sp.priority)
          /\ t \notin ToSet(sp.tickets) /\ t \notin ToSet(sp.priority)
      BY <1>3, <1>15, InvFacts DEF QueuesOK, Queued
    <2>2. CASE waits
      BY <1>5, <2>1, <2>2, AppendIs
    <2>3. CASE ~waits
      BY <1>5, <2>1, <2>3, AppendIs
    <2>4. QED BY <2>2, <2>3
  <1>17. t \in Queued(nsp)
    BY <1>12, <1>16 DEF Queued
  <1>18. Fitting(t \in ToSet(nsp.tickets), t \in ToSet(nsp.priority), k, r)
    BY <1>2, <1>12, <1>13, <1>14, <1>16 DEF Fitting
  <1>19. Holds(k, r) = 0 /\ Holds(ticket[t], task[t]) = 0
    BY <1>1, <1>2, <1>13, <1>14 DEF Holds
  <1>20. nsp.reclaim = space.reclaim + Owed(t \in Queued(nsp), k)
                         - Owed(t \in Queued(space), ticket[t])
    <2>1. Owed(t \in Queued(nsp), k) = bytes /\ Owed(t \in Queued(space), ticket[t]) = 0
      BY <1>13, <1>15, <1>17, Zenon DEF Owed
    <2>2. QED BY <2>1, <1>2, <1>3, <1>6, <1>12, UsedNat
  <1>21. global \in 0 .. GlobalSize /\ dirty \in Nat /\ global \in Int
    BY InvFacts
  <1>22. nsp.may_use = space.may_use + (global - global) + (dirty - dirty)
                         + Holds(k, r) - Holds(ticket[t], task[t])
    BY <1>3, <1>12, <1>19, <1>21, UsedNat
  <1>23. Books(nsp, [ticket EXCEPT ![t] = k], [task EXCEPT ![t] = r], global, dirty)
    <2>1. Books(space, ticket, task, global, dirty)
      BY InvFacts
    <2>2. /\ IsInjective(nsp.tickets) /\ IsInjective(nsp.priority)
          /\ ToSet(nsp.tickets) \ {t} = ToSet(space.tickets) \ {t}
          /\ ToSet(nsp.priority) \ {t} = ToSet(space.priority) \ {t}
      BY <1>3, <1>12, <1>16, Zenon
    <2>3. k \in Tickets /\ r \in TaskRecords
      BY <1>13, <1>14, Zenon
    <2>4. global \in 0 .. GlobalSize /\ dirty \in Nat
      BY <1>21, Zenon
    <2>5. QED BY <1>11, <1>18, <1>20, <1>22, <2>1, <2>2, <2>3, <2>4, OneTask, Zenon
  <1>24. Books(space', ticket', task', global', dirty')
    BY <1>1, <1>10, <1>23, Zenon
  <1>25. PICK tk \in [Tasks -> Tickets] : tk = ticket'
    BY <1>24 DEF Books, Typed
  <1>26. nsp \in Spaces
    BY <1>10, <1>24 DEF Books, Typed
  <1>27. /\ tk[t].bytes = bytes
         /\ \A u \in Queued(space) : tk[u].bytes = ticket[u].bytes
    <2>1. tk[t] = k
      BY <1>10, <1>25, InvFacts
    <2>2. ASSUME NEW u \in Queued(space) PROVE tk[u] = ticket[u]
      <3>1. u \in Tasks /\ u # t
        BY <1>15, InvFacts, QueuedTasks
      <3>2. QED BY <1>10, <1>25, <3>1, InvFacts
    <2>3. QED BY <1>13, <2>1, <2>2
  <1>28. Used(nsp) = Used(space) /\ nsp.total = space.total
    BY <1>3, <1>12 DEF Used
  <1>29. ASSUME ~PendingTickets(flush)
         PROVE  /\ ~Fits(nsp, Used(nsp), bytes, "FLUSH_ALL")
                /\ ~waits => ~Fits(nsp, Used(nsp), bytes, "NO_FLUSH")
    <2>1. ~Fits(space, Used(space), bytes, flush)
      BY <1>1, <1>29, Zenon DEF ReservedAtOnce
    <2>2. ~Fits(nsp, Used(nsp), bytes, flush)
      BY <2>1, <1>28, FitsSame, Zenon
    <2>3. Used(nsp) \in Nat
      BY <1>28, UsedNat
    <2>4. ~Fits(nsp, Used(nsp), bytes, "FLUSH_ALL")
      BY <2>2, <2>3, <1>2, <1>26, FitsAll, Zenon
    <2>5. ~waits => flush # "FLUSH_ALL"
      BY <1>4 DEF Normal
    <2>6. QED BY <2>2, <2>4, <2>5, FitsOthers, Zenon
  <1>30. /\ space.priority # <<>> => Head(p) = Head(space.priority) /\ p # <<>>
         /\ space.tickets # <<>> => Head(q) = Head(space.tickets) /\ q # <<>>
         /\ space.priority = <<>> /\ ~waits => Head(p) = t
         /\ space.tickets = <<>> /\ waits => Head(q) = t
         /\ waits => p = space.priority
         /\ ~waits => q = space.tickets /\ p # <<>>
    <2>1. space.tickets \in Seq(Tasks) /\ space.priority \in Seq(Tasks)
      BY InvFacts
    <2>2. CASE waits
      BY <1>3, <1>5, <2>1, <2>2, AppendIs
    <2>3. CASE ~waits
      BY <1>3, <1>5, <2>1, <2>3, AppendIs
    <2>4. QED BY <2>2, <2>3
  <1>31. /\ space.priority # <<>> => Head(space.priority) \in Queued(space)
         /\ space.tickets # <<>> => Head(space.tickets) \in Queued(space)
    BY InvFacts, HeadIs DEF Queued
  <1>32. /\ PriorityHead(space, ticket) =>
              (nsp.priority = <<>>
                \/ (/\ space.priority # <<>> /\ Head(nsp.priority) = Head(space.priority)
                    /\ tk[Head(space.priority)].bytes = ticket[Head(space.priority)].bytes)
               => PriorityHead(nsp, tk))
         /\ NormalHead(space, ticket) =>
              ((nsp.priority = <<>> => space.priority = <<>>)
               /\ (nsp.tickets = <<>>
                    \/ (/\ space.tickets # <<>> /\ Head(nsp.tickets) = Head(space.tickets)
                        /\ tk[Head(space.tickets)].bytes = ticket[Head(space.tickets)].bytes))
               => NormalHead(nsp, tk))
    <2>1. Used(space) <= Used(nsp)
      BY <1>28, UsedNat
    <2>2. space \in Spaces /\ ticket \in [Tasks -> Tickets]
      BY InvFacts
    <2>3. QED BY <1>25, <1>26, <1>28, <2>1, <2>2, HeadsStay, Zenon
  <1>33. ASSUME PriorityHead(space, ticket) PROVE PriorityHead(nsp, tk)
    <2>1. CASE space.priority # <<>>
      BY <1>12, <1>27, <1>30, <1>31, <1>32, <1>33, <2>1, Zenon
    <2>2. CASE space.priority = <<>> /\ waits
      BY <1>12, <1>30, <2>2, Zenon DEF PriorityHead
    <2>3. CASE space.priority = <<>> /\ ~waits
      <3>1. ~PendingTickets(flush)
        BY <1>1, <1>4, <2>3 DEF PendingTickets, Normal
      <3>2. QED BY <1>12, <1>27, <1>29, <1>30, <2>3, <3>1, Zenon DEF PriorityHead
    <2>4. QED BY <2>1, <2>2, <2>3, Zenon
  <1>34. ASSUME NormalHead(space, ticket) PROVE NormalHead(nsp, tk)
    <2>1. CASE ~waits
      BY <1>12, <1>30, <2>1, Zenon DEF NormalHead
    <2>2. CASE waits /\ space.tickets # <<>>
      BY <1>12, <1>27, <1>30, <1>31, <1>32, <1>34, <2>2, Zenon
    <2>3. CASE waits /\ space.tickets = <<>>
      <3>1. space.priority = <<>> => ~PendingTickets(flush)
        BY <2>3, Zenon DEF PendingTickets
      <3>2. QED BY <1>12, <1>27, <1>29, <1>30, <2>3, <3>1, Zenon DEF NormalHead
    <2>4. QED BY <2>1, <2>2, <2>3, Zenon
  <1>35. HeadInv'
    <2>1. /\ PriorityHead(space, ticket)' <=> PriorityHead(nsp, tk)
          /\ NormalHead(space, ticket)' <=> NormalHead(nsp, tk)
      BY <1>1, <1>10, <1>25, HeadsPrimed, Zenon
    <2>2. HeadInv
      BY InvFacts
    <2>3. ~untried' => PriorityHead(nsp, tk) /\ NormalHead(nsp, tk)
      BY <1>1, <1>33, <1>34, <2>2, Zenon DEF HeadInv
    <2>4. QED BY <2>1, <2>3, Zenon DEF HeadInv
  <1>36. WorkerInv'
    <2>1. WorkerInv
      BY InvFacts
    <2>2. space'.flush = (waits \/ space.flush) /\ (space'.tickets # <<>> => space'.flush)
      BY <1>3, <1>6, <1>10, <1>12, <1>30, <2>1 DEF WorkerInv
    <2>3. CASE waits /\ ~space.flush
      <3>1. worker' = [Off EXCEPT !.pc = "queued"]
        BY <1>4, <2>3 DEF ReserveTicket
      <3>2. worker' = [pc |-> "queued", state |-> 0, cycles |-> 0, made |-> FALSE]
        BY <3>1 DEF Off
      <3>3. worker' \in Workers
        BY <3>2 DEF Workers, COMMIT_TRANS
      <3>4. worker'.pc # "off" /\ worker'.pc # "fail" /\ worker'.cycles # 3
        BY <3>2
      <3>5. space'.flush
        BY <2>2, <2>3
      <3>6. QED BY <3>3, <3>4, <3>5, Zenon DEF WorkerInv
    <2>4. CASE ~(waits /\ ~space.flush)
      <3>1. worker' = worker
        BY <1>4, <2>4 DEF ReserveTicket
      <3>2. QED BY <1>1, <2>1, <2>2, <2>4, <3>1 DEF WorkerInv, Unlocked
    <2>5. QED BY <2>3, <2>4
  <1>37. /\ kind' \in Kinds /\ progress' \in BOOLEAN /\ untried' \in BOOLEAN
         /\ aborted' \in BOOLEAN /\ requests' \in Nat
    BY <1>1, InvFacts
  <1>38. QED BY <1>24, <1>35, <1>36, <1>37, Zenon DEF IInv

(* A task that waits is killed: its ticket leaves the queue.               *)
LEMMA KilledInv ==
  ASSUME IInv, NEW t \in Tasks, Killed(t)
  PROVE  IInv'
  <1>1. /\ task[t].pc = "wait" /\ ticket[t].bytes # 0 /\ ticket[t].error = "no" /\ Unlocked
        /\ kind' = kind /\ progress' = progress /\ worker' = worker
        /\ dirty' = dirty /\ global' = global /\ aborted' = aborted /\ requests' = requests
        /\ untried' = (untried \/ space.tickets[1] = t)
    BY DEF Killed, Answered
  <1>2. PICK tk \in Tickets : tk = ticket[t]
    BY InvFacts
  <1>3. tk.bytes > 0
    BY <1>1, <1>2 DEF Tickets
  <1>4. t \in ToSet(space.tickets) /\ t \notin ToSet(space.priority) /\ t \in Queued(space)
    BY <1>1, <1>2, <1>3, InvFacts DEF Attended, Queued
  <1>5. PICK nsp : nsp = Removed(space, t)
    OBVIOUS
  <1>6. PICK k : k = [tk EXCEPT !.error = "EINTR"]
    OBVIOUS
  <1>7. k \in Tickets /\ k.bytes = tk.bytes /\ k.error = "EINTR"
    BY <1>6 DEF Tickets
  <1>8. PICK r : r = [Idle EXCEPT !.pc = "idle"]
    OBVIOUS
  <1>9. r \in TaskRecords /\ r.pc = "idle"
    BY <1>8 DEF Idle, TaskRecords, Places, FlushNames
  <1>10. space' = nsp /\ ticket' = [ticket EXCEPT ![t] = k] /\ task' = [task EXCEPT ![t] = r]
    <2>1. space' = nsp
      BY <1>5 DEF Killed
    <2>2. ticket' = [ticket EXCEPT ![t] = k]
      BY <1>2, <1>6, Zenon DEF Killed
    <2>3. ticket'[t].error = "EINTR"
      BY <1>7, <2>2, InvFacts
    <2>4. task' = [task EXCEPT ![t] = [Idle EXCEPT !.pc = "idle"]]
      BY <2>3 DEF Killed, Answer
    <2>5. QED BY <1>8, <2>1, <2>2, <2>4, Zenon
  <1>11. Fitting(FALSE, FALSE, k, r)
    BY <1>3, <1>7, <1>9 DEF Fitting
  <1>12. global = global - Holds(k, r) /\ global \in 0 .. GlobalSize
    <2>1. Holds(k, r) = 0
      BY <1>9 DEF Holds
    <2>2. QED BY <2>1, InvFacts
  <1>13. Books(nsp, [ticket EXCEPT ![t] = k], [task EXCEPT ![t] = r], global, dirty)
    BY <1>4, <1>5, <1>7, <1>9, <1>11, <1>12, Leaves, Zenon
  <1>14. Books(space', ticket', task', global', dirty')
    BY <1>1, <1>10, <1>13, Zenon
  <1>15. PICK ntk \in [Tasks -> Tickets] : ntk = ticket'
    BY <1>14 DEF Books, Typed
  <1>16. /\ nsp \in Drafts /\ nsp.total = space.total /\ nsp.pinned = space.pinned
         /\ nsp.flush = space.flush /\ nsp.may_use = space.may_use
         /\ nsp.tickets = Without(space.tickets, t)
         /\ nsp.priority = Without(space.priority, t)
         /\ space.tickets = <<>> => nsp.tickets = <<>>
    BY <1>4, <1>5, RemovedIs, Zenon
  <1>17. nsp.priority = space.priority
    BY <1>4, <1>16, Zenon DEF Without
  <1>18. nsp \in Spaces
    BY <1>10, <1>14 DEF Books, Typed
  <1>19. \A u \in Tasks \ {t} : ntk[u].bytes = ticket[u].bytes
    BY <1>10, <1>15, InvFacts
  <1>20. /\ space.priority # <<>> => Head(space.priority) \in Tasks \ {t}
         /\ space.tickets # <<>> /\ space.tickets[1] # t
              => /\ Head(space.tickets) \in Tasks \ {t}
                 /\ Head(nsp.tickets) = Head(space.tickets)
    <2>1. space.tickets \in Seq(Tasks) /\ space.priority \in Seq(Tasks)
          /\ IsInjective(space.tickets)
      BY InvFacts DEF QueuesOK
    <2>2. space.priority # <<>> => Head(space.priority) \in Tasks \ {t}
      BY <1>4, <2>1, HeadIs
    <2>3. space.tickets # <<>> /\ space.tickets[1] # t
            => Head(space.tickets) \in Tasks /\ Head(space.tickets) # t
      BY <2>1, HeadIs
    <2>4. space.tickets # <<>> /\ space.tickets[1] # t => Head(nsp.tickets) = Head(space.tickets)
      BY <1>16, <2>1, <2>3, WithoutIs, Zenon
    <2>5. QED BY <2>2, <2>3, <2>4
  <1>21. space.tickets # <<>>
    <2>1. space.tickets \in Seq(Tasks)
      BY InvFacts
    <2>2. QED BY <1>4, <2>1, SeqFacts
  <1>22. ASSUME ~untried' PROVE PriorityHead(nsp, ntk) /\ NormalHead(nsp, ntk)
    <2>1. ~untried /\ space.tickets[1] # t
      BY <1>1, <1>22
    <2>2. PriorityHead(space, ticket) /\ NormalHead(space, ticket)
      BY <1>1, <2>1, InvFacts DEF HeadInv
    <2>3. /\ PriorityHead(space, ticket) =>
               (nsp.priority = <<>>
                 \/ (/\ space.priority # <<>> /\ Head(nsp.priority) = Head(space.priority)
                     /\ ntk[Head(space.priority)].bytes = ticket[Head(space.priority)].bytes)
                => PriorityHead(nsp, ntk))
          /\ NormalHead(space, ticket) =>
               ((nsp.priority = <<>> => space.priority = <<>>)
                /\ (nsp.tickets = <<>>
                     \/ (/\ space.tickets # <<>> /\ Head(nsp.tickets) = Head(space.tickets)
                         /\ ntk[Head(space.tickets)].bytes = ticket[Head(space.tickets)].bytes))
                => NormalHead(nsp, ntk))
      <3>1. Used(space) <= Used(nsp)
        BY <1>16, UsedNat DEF Used
      <3>2. space \in Spaces /\ ticket \in [Tasks -> Tickets]
        BY InvFacts
      <3>3. QED BY <1>15, <1>16, <1>18, <3>1, <3>2, HeadsStay, Zenon
    <2>4. QED BY <1>17, <1>19, <1>20, <1>21, <2>1, <2>2, <2>3, Zenon
  <1>23. HeadInv'
    <2>1. /\ PriorityHead(space, ticket)' <=> PriorityHead(nsp, ntk)
          /\ NormalHead(space, ticket)' <=> NormalHead(nsp, ntk)
      BY <1>1, <1>10, <1>15, HeadsPrimed, Zenon
    <2>2. QED BY <1>22, <2>1, Zenon DEF HeadInv
  <1>24. WorkerInv'
    BY <1>1, <1>10, <1>16, WorkerStays
  <1>25. /\ kind' \in Kinds /\ progress' \in BOOLEAN /\ untried' \in BOOLEAN
         /\ aborted' \in BOOLEAN /\ requests' \in Nat
    BY <1>1, InvFacts
  <1>26. QED BY <1>14, <1>23, <1>24, <1>25, Zenon DEF IInv

(* The holder returns its bytes, or leaves them to delayed work.           *)
LEMMA FinishInv ==
  ASSUME IInv, NEW t \in Tasks, Finish(t)
  PROVE  IInv'
  <1>1. /\ task[t].pc = "held" /\ kind' = kind /\ worker' = worker /\ global' = global
        /\ aborted' = aborted /\ requests' = requests /\ task' = [task EXCEPT ![t] = Idle]
    BY DEF Finish
  <1>2. PICK sp \in Spaces, bytes \in Nat : sp = space /\ bytes = ticket[t].want
    BY InvFacts DEF Tickets
  <1>3. NoTicket \in Tickets /\ Idle \in TaskRecords
    BY DEF NoTicket, Tickets, Idle, TaskRecords, Places, FlushNames
  <1>4. Fitting(FALSE, FALSE, NoTicket, Idle) /\ Holds(NoTicket, Idle) = 0
    BY DEF Fitting, Holds, NoTicket, Idle
  <1>5. Holds(ticket[t], task[t]) = bytes
    BY <1>1, <1>2 DEF Holds
  <1>6. t \notin Queued(space)
    BY <1>1, NotQueued
  <1>7. global \in 0 .. GlobalSize /\ dirty \in Nat /\ global \in Int
    BY InvFacts
  <1>8. CASE TryGranting([space EXCEPT !.may_use = @ - ticket[t].want],
                         [ticket EXCEPT ![t] = NoTicket]) /\ UNCHANGED dirty
    <2>1. PICK a \in Int : a = sp.may_use - bytes
      BY DEF Spaces
    <2>2. PICK nsp : nsp = [sp EXCEPT !.may_use = a]
      OBVIOUS
    <2>3. nsp \in Drafts
      <3>1. sp \in Drafts
        BY SpaceIsDraft
      <3>2. QED BY <2>2, <3>1 DEF Drafts
    <2>4. /\ nsp.tickets = sp.tickets /\ nsp.priority = sp.priority /\ nsp.flush = sp.flush
          /\ nsp.reclaim = sp.reclaim /\ nsp.may_use = a
      BY <2>2 DEF Spaces
    <2>5. nsp.may_use = space.may_use + (global - global) + (dirty - dirty)
                          + Holds(NoTicket, Idle) - Holds(ticket[t], task[t])
      BY <1>2, <1>4, <1>5, <1>7, <2>1, <2>4, UsedNat
    <2>6. Books(nsp, [ticket EXCEPT ![t] = NoTicket], [task EXCEPT ![t] = Idle], global, dirty)
      BY <1>2, <1>3, <1>4, <1>6, <1>7, <2>3, <2>4, <2>5, Alone, Zenon
    <2>7. PICK ntk : ntk = [ticket EXCEPT ![t] = NoTicket]
      OBVIOUS
    <2>8. dirty' = dirty
      BY <1>8
    <2>9. TryGranting(nsp, ntk)
      BY <1>2, <1>8, <2>1, <2>2, <2>7, Zenon
    <2>10. Books(nsp, ntk, task', global', dirty')
      BY <1>1, <2>6, <2>7, <2>8, Zenon
    <2>11. StepOK
      BY <1>1, <1>2, <2>4, <2>9, <2>10, StepTries, Zenon
    <2>12. QED BY <1>1, <2>11, StepInv, Zenon
  <1>9. CASE /\ dirty' = dirty + ticket[t].want
             /\ ticket' = [ticket EXCEPT ![t] = NoTicket]
             /\ UNCHANGED <<space, progress, untried>>
    <2>1. PICK nd \in Nat : nd = dirty + bytes
      BY <1>7
    <2>2. /\ dirty' = nd /\ space' = space /\ progress' = progress /\ untried' = untried
          /\ ticket' = [ticket EXCEPT ![t] = NoTicket]
      BY <1>2, <1>9, <2>1
    <2>3. space.may_use = space.may_use + (global - global) + (nd - dirty)
                            + Holds(NoTicket, Idle) - Holds(ticket[t], task[t])
      BY <1>4, <1>5, <1>7, <2>1, UsedNat
    <2>4. space \in Drafts
      BY InvFacts, SpaceIsDraft
    <2>5. Books(space, [ticket EXCEPT ![t] = NoTicket], [task EXCEPT ![t] = Idle], global, nd)
      BY <1>3, <1>4, <1>6, <1>7, <2>3, <2>4, Alone, Zenon
    <2>6. Books(space', ticket', task', global', dirty')
      BY <1>1, <2>2, <2>5, Zenon
    <2>7. \A u \in Queued(space) : ticket'[u].bytes = ticket[u].bytes
      <3>1. TAKE u \in Queued(space)
      <3>2. u \in Tasks /\ u # t
        BY <1>6, InvFacts, QueuedTasks
      <3>3. QED BY <2>2, <3>2, InvFacts
    <2>8. requests' \in Nat
      BY <1>1, InvFacts
    <2>9. /\ space'.tickets = space.tickets /\ space'.priority = space.priority
          /\ space'.flush = space.flush /\ space'.total = space.total
          /\ Used(space) <= Used(space')
      BY <2>2, UsedNat, Zenon
    <2>10. QED BY <1>1, <2>2, <2>6, <2>7, <2>8, <2>9, QuietStep, Zenon
  <1>10. QED BY <1>8, <1>9, Zenon DEF Finish

-----------------------------------------------------------------------------
(***************************************************************************)
(* A task that flushes for itself                                          *)
(***************************************************************************)
LEMMA PriorityNextInv ==
  ASSUME IInv, NEW t \in Tasks, PriorityNext(t)
  PROVE  IInv'
  <1>1. /\ task[t].pc = "reclaim" /\ UNCHANGED queueVars
        /\ kind' = kind /\ worker' = worker /\ dirty' = dirty /\ global' = global
        /\ aborted' = aborted /\ requests' = requests
    BY DEF PriorityNext
  <1>2. PICK ts \in TaskRecords : ts = task[t]
    BY InvFacts
  <1>3. PICK n \in Nat : n = IF kind = "data" THEN ts.step ELSE ts.step + 1
    BY DEF TaskRecords
  <1>4. PICK r : r = [ts EXCEPT !.pc = "flush", !.step = n]
    OBVIOUS
  <1>5. r \in TaskRecords /\ r.pc = "flush"
    BY <1>4 DEF TaskRecords, Places
  <1>6. task' = [task EXCEPT ![t] = r]
    <2>1. task' = [task EXCEPT ![t].pc = "flush",
                               ![t].step = IF kind = "data" THEN @ ELSE @ + 1]
      BY DEF PriorityNext
    <2>2. task' = [task EXCEPT ![t] = task'[t]]
      BY <2>1, InvFacts
    <2>3. task'[t] = [ts EXCEPT !.pc = "flush",
                                !.step = IF kind = "data" THEN @ ELSE @ + 1]
      BY <1>2, <2>1, InvFacts
    <2>4. task'[t] = r
      BY <1>3, <1>4, <2>3, Zenon
    <2>5. QED BY <2>2, <2>4, Zenon
  <1>7. Books(space, ticket, [task EXCEPT ![t] = r], global, dirty)
    BY <1>1, <1>5, Elsewhere
  <1>8. /\ space' = space /\ ticket' = ticket /\ progress' = progress /\ untried' = untried
    BY <1>1 DEF queueVars
  <1>9. Books(space', ticket', task', global', dirty')
    BY <1>1, <1>6, <1>7, <1>8, Zenon
  <1>10. requests' \in Nat
    BY <1>1, InvFacts
  <1>11. /\ space'.tickets = space.tickets /\ space'.priority = space.priority
         /\ space'.flush = space.flush /\ space'.total = space.total
         /\ Used(space) <= Used(space')
         /\ \A u \in Queued(space) : ticket'[u].bytes = ticket[u].bytes
    BY <1>8, UsedNat, Zenon
  <1>12. QED BY <1>1, <1>8, <1>9, <1>10, <1>11, QuietStep, Zenon

LEMMA PriorityFlushInv ==
  ASSUME IInv, NEW t \in Tasks, PriorityFlush(t)
  PROVE  IInv'
  <1>1. /\ task[t].pc = "flush" /\ kind' = kind /\ worker' = worker
        /\ aborted' = aborted /\ requests' = requests
    BY DEF PriorityFlush
  <1>2. PICK ts \in TaskRecords : ts = task[t]
    BY InvFacts
  <1>3. PICK r : r = [ts EXCEPT !.pc = "reclaim"]
    OBVIOUS
  <1>4. r \in TaskRecords /\ r.pc = "reclaim"
    BY <1>3 DEF TaskRecords, Places
  <1>5. task' = [task EXCEPT ![t] = r]
    BY <1>2, <1>3, Zenon DEF PriorityFlush
  <1>6. Books(space, ticket, [task EXCEPT ![t] = r], global, dirty)
    BY <1>1, <1>4, Elsewhere
  <1>7. PICK nts : nts = task'
    OBVIOUS
  <1>8. Books(space, ticket, nts, global, dirty)
    BY <1>5, <1>6, <1>7, Zenon
  <1>9. PICK state : FlushSpace(state)
    BY Zenon DEF PriorityFlush
  <1>10. StepOK
    BY <1>1, <1>7, <1>8, <1>9, FlushKeeps, Zenon
  <1>11. QED BY <1>1, <1>10, StepInv, Zenon

(* A ticket that got its bytes from the global reserve.                    *)
LEMMA StolenIs ==
  ASSUME IInv, NEW t \in Queued(space), CanSteal(t)
  PROVE  \E k \in Tickets, nglob \in 0 .. GlobalSize :
           /\ Stolen(t) = [ticket EXCEPT ![t] = k]
           /\ k.bytes = 0 /\ k.error = "no" /\ k.want = ticket[t].bytes
           /\ nglob = global - ticket[t].bytes
  <1>1. t \in Tasks
    BY InvFacts, QueuedTasks
  <1>2. PICK tk \in Tickets : tk = ticket[t]
    BY <1>1, InvFacts
  <1>3. PICK k : k = [tk EXCEPT !.bytes = 0]
    OBVIOUS
  <1>4. k \in Tickets /\ k.bytes = 0 /\ k.error = tk.error /\ k.want = tk.want
    BY <1>3 DEF Tickets
  <1>5. tk.error = "no" /\ tk.want = tk.bytes /\ tk.bytes \in Nat /\ global >= tk.bytes
    BY <1>1, <1>2, InvFacts, AskedType DEF QueuesOK, CanSteal
  <1>6. global - tk.bytes \in 0 .. GlobalSize
    BY <1>5, InvFacts
  <1>7. Stolen(t) = [ticket EXCEPT ![t] = k]
    BY <1>2, <1>3, Zenon DEF Stolen
  <1>8. QED BY <1>2, <1>4, <1>5, <1>6, <1>7

LEMMA FailedIs ==
  ASSUME IInv, NEW t \in Queued(space), NEW e \in {"ENOSPC", "EIO"}
  PROVE  \E k \in Tickets :
           /\ [ticket EXCEPT ![t].error = e] = [ticket EXCEPT ![t] = k]
           /\ k.bytes > 0 /\ k.error = e
  <1>1. t \in Tasks
    BY InvFacts, QueuedTasks
  <1>2. PICK tk \in Tickets : tk = ticket[t]
    BY <1>1, InvFacts
  <1>3. PICK k : k = [tk EXCEPT !.error = e]
    OBVIOUS
  <1>4. k \in Tickets /\ k.bytes = tk.bytes /\ k.error = e
    BY <1>3 DEF Tickets
  <1>5. tk.bytes > 0
    BY <1>2, InvFacts DEF QueuesOK
  <1>6. [ticket EXCEPT ![t].error = e] = [ticket EXCEPT ![t] = k]
    BY <1>2, <1>3, Zenon
  <1>7. QED BY <1>4, <1>5, <1>6

(* The task gives up: it takes its bytes from the global reserve, or fails.*)
LEMMA PriorityEndsInv ==
  ASSUME IInv, NEW t \in Tasks, PriorityEnds(t)
  PROVE  IInv'
  <1>1. /\ task[t].pc = "reclaim" /\ ticket[t].bytes > 0
        /\ kind' = kind /\ worker' = worker /\ dirty' = dirty
        /\ aborted' = aborted /\ requests' = requests
    BY DEF PriorityEnds
  <1>2. t \in Queued(space)
    BY <1>1, InvFacts DEF Attended, Queued
  <1>3. PICK msp : msp = Removed(space, t)
    OBVIOUS
  <1>4. msp.flush = space.flush /\ (space.tickets = <<>> => msp.tickets = <<>>)
    BY <1>2, <1>3, RemovedIs, Zenon
  <1>5. ASSUME NEW k \in Tickets, NEW nglob \in 0 .. GlobalSize,
               TryGranting(msp, [ticket EXCEPT ![t] = k]), global' = nglob,
               k.bytes = 0 => k.error = "no", k.error = "no" => k.bytes = 0,
               nglob = global - IF k.error = "no" THEN k.want ELSE 0
        PROVE  IInv'
    <2>1. PICK mtk : mtk = [ticket EXCEPT ![t] = k]
      OBVIOUS
    <2>2. mtk \in [Tasks -> Tickets] /\ mtk[t] = k
      BY <2>1, InvFacts
    <2>3. ticket' = Granted(msp, mtk).tk
      BY <1>5, <2>1, Zenon DEF TryGranting
    <2>4. ticket'[t].error = k.error
      BY <2>2, <2>3, GrantErrors, Zenon
    <2>5. PICK r : r = [Idle EXCEPT !.pc = IF k.error = "no" THEN "held" ELSE "idle"]
      OBVIOUS
    <2>6. task' = [task EXCEPT ![t] = r]
      <3>1. Answer(t)
        BY DEF PriorityEnds
      <3>2. QED BY <2>4, <2>5, <3>1, Zenon DEF Answer
    <2>7. r \in TaskRecords /\ r.pc = IF k.error = "no" THEN "held" ELSE "idle"
      BY <2>5 DEF Idle, TaskRecords, Places, FlushNames
    <2>8. Fitting(FALSE, FALSE, k, r)
      BY <1>5, <2>7 DEF Fitting
    <2>9. Holds(k, r) = IF k.error = "no" THEN k.want ELSE 0
      BY <2>7 DEF Holds
    <2>10. Books(msp, mtk, [task EXCEPT ![t] = r], nglob, dirty)
      <3>1. nglob = global - Holds(k, r)
        BY <1>5, <2>9
      <3>2. QED BY <1>2, <1>3, <1>5, <2>1, <2>7, <2>8, <3>1, Leaves, Zenon
    <2>11. Books(msp, mtk, task', global', dirty')
      BY <1>1, <1>5, <2>6, <2>10, Zenon
    <2>12. TryGranting(msp, mtk)
      BY <1>5, <2>1, Zenon
    <2>13. StepOK
      BY <1>1, <1>4, <2>11, <2>12, StepTries, Zenon
    <2>14. QED BY <1>1, <2>13, StepInv, Zenon
  <1>6. CASE ~aborted /\ CanSteal(t)
    <2>1. PICK k \in Tickets, nglob \in 0 .. GlobalSize :
            /\ Stolen(t) = [ticket EXCEPT ![t] = k]
            /\ k.bytes = 0 /\ k.error = "no" /\ k.want = ticket[t].bytes
            /\ nglob = global - ticket[t].bytes
      BY <1>2, <1>6, StolenIs
    <2>2. TryGranting(msp, Stolen(t)) /\ global' = global - ticket[t].bytes
      BY <1>3, <1>6, Zenon DEF PriorityEnds
    <2>3. TryGranting(msp, [ticket EXCEPT ![t] = k]) /\ global' = nglob
      BY <2>1, <2>2, Zenon
    <2>4. nglob = global - IF k.error = "no" THEN k.want ELSE 0
      BY <2>1
    <2>5. QED BY <1>5, <2>1, <2>3, <2>4
  <1>7. CASE ~(~aborted /\ CanSteal(t))
    <2>1. PICK e \in {"ENOSPC", "EIO"} :
            e = IF aborted /\ kind = "metadata" THEN "EIO" ELSE "ENOSPC"
      OBVIOUS
    <2>2. PICK k \in Tickets :
            /\ [ticket EXCEPT ![t].error = e] = [ticket EXCEPT ![t] = k]
            /\ k.bytes > 0 /\ k.error = e
      BY <1>2, FailedIs
    <2>3. TryGranting(msp, [ticket EXCEPT ![t].error = e]) /\ global' = global
      BY <1>3, <1>7, <2>1, Zenon DEF PriorityEnds
    <2>4. TryGranting(msp, [ticket EXCEPT ![t] = k])
      BY <2>2, <2>3, Zenon
    <2>5. global \in 0 .. GlobalSize /\ global = global - IF k.error = "no" THEN k.want ELSE 0
      BY <2>1, <2>2, InvFacts
    <2>6. k.error # "no" /\ k.bytes # 0
      BY <2>1, <2>2 DEF Tickets
    <2>7. QED BY <1>5, <2>3, <2>4, <2>5, <2>6
  <1>8. QED BY <1>6, <1>7

-----------------------------------------------------------------------------
(***************************************************************************)
(* The worker                                                              *)
(***************************************************************************)
(* The worker goes on; at most the flag that it is queued changes.         *)
LEMMA WorkerGoesOn ==
  ASSUME IInv, WorkerKeeps, progress' \in BOOLEAN, NEW nsp \in Spaces, space' = nsp,
         nsp.total = space.total, nsp.pinned = space.pinned, nsp.may_use = space.may_use,
         nsp.reclaim = space.reclaim,
         nsp.tickets = space.tickets, nsp.priority = space.priority,
         Unlocked' => Unlocked \/ ~aborted \/ space.tickets = <<>>,
         WorkerInv'
  PROVE  IInv'
  <1>1. /\ ticket' = ticket /\ kind' = kind /\ task' = task /\ dirty' = dirty
        /\ global' = global /\ aborted' = aborted /\ requests' = requests /\ untried' = untried
    BY DEF WorkerKeeps
  <1>2. Books(nsp, ticket, task, global, dirty)
    <2>1. nsp \in Drafts
      BY SpaceIsDraft
    <2>2. nsp.may_use = space.may_use + (global - global) + (dirty - dirty)
      <3>1. global \in Int /\ dirty \in Int
        BY InvFacts
      <3>2. QED BY <3>1, UsedNat
    <2>3. Books(space, ticket, task, global, dirty) /\ global \in 0 .. GlobalSize /\ dirty \in Nat
      BY InvFacts
    <2>4. QED BY <2>1, <2>2, <2>3, SpaceMove, Zenon
  <1>3. Books(space', ticket', task', global', dirty')
    BY <1>1, <1>2, Zenon
  <1>4. Used(space) <= Used(space')
    BY UsedNat DEF Used
  <1>5. space' \in Spaces /\ ticket' \in [Tasks -> Tickets]
    BY <1>3 DEF Books, Typed
  <1>6. Unlocked' \/ ~aborted' => Unlocked \/ ~aborted \/ space.tickets = <<>>
    BY <1>1
  <1>7. HeadInv'
    <2>1. \A t \in Queued(space) : ticket'[t].bytes = ticket[t].bytes
      BY <1>1, Zenon
    <2>2. ~untried' => ~untried
      BY <1>1
    <2>3. /\ space'.total = space.total /\ space'.tickets = space.tickets
          /\ space'.priority = space.priority
      BY Zenon
    <2>4. QED BY <1>1, <1>4, <1>5, <1>6, <2>1, <2>2, <2>3, HeadsKept, Zenon
  <1>8. kind' \in Kinds /\ aborted' \in BOOLEAN /\ requests' \in Nat /\ untried' \in BOOLEAN
    BY <1>1, InvFacts
  <1>9. QED BY <1>3, <1>7, <1>8, Zenon DEF IInv

LEMMA StopInv ==
  ASSUME IInv, WorkerKeeps, progress' \in BOOLEAN, Stop, space.tickets = <<>>
  PROVE  IInv'
  <1>1. PICK sp \in Spaces : sp = space
    BY InvFacts
  <1>2. PICK nsp : nsp = [sp EXCEPT !.flush = FALSE]
    OBVIOUS
  <1>3. nsp \in Spaces
    BY <1>2 DEF Spaces
  <1>4. /\ nsp.total = sp.total /\ nsp.pinned = sp.pinned /\ nsp.may_use = sp.may_use
        /\ nsp.reclaim = sp.reclaim /\ nsp.tickets = sp.tickets /\ nsp.priority = sp.priority
        /\ ~nsp.flush
    BY <1>2 DEF Spaces
  <1>5. space' = nsp
    BY <1>1, <1>2, Zenon DEF Stop
  <1>6. worker' = [pc |-> "off", state |-> 0, cycles |-> 0, made |-> FALSE]
    BY DEF Stop, Off
  <1>7. worker' \in Workers
    BY <1>6 DEF Workers, COMMIT_TRANS
  <1>8. worker'.pc = "off" /\ worker'.pc # "fail" /\ worker'.cycles # 3
    BY <1>6
  <1>9. space'.tickets = <<>> /\ ~space'.flush
    BY <1>1, <1>4, <1>5, Zenon
  <1>10. WorkerInv'
    BY <1>7, <1>8, <1>9, Zenon DEF WorkerInv
  <1>11. QED BY <1>1, <1>3, <1>4, <1>5, <1>10, WorkerGoesOn, Zenon

LEMMA FlushNextInv ==
  ASSUME IInv, WorkerKeeps, progress' \in BOOLEAN,
         NEW state \in 0 .. COMMIT_TRANS, NEW cycles \in 0 .. 2, FlushNext(state, cycles),
         worker.pc # "off", Unlocked \/ ~aborted \/ space.tickets = <<>>
  PROVE  IInv'
  <1>1. PICK nsp \in Spaces : nsp = space
    BY InvFacts
  <1>2. space' = nsp
    BY <1>1 DEF FlushNext
  <1>3. worker' = [pc |-> "flush", state |-> state, cycles |-> cycles, made |-> FALSE]
    BY DEF FlushNext
  <1>4. worker' \in Workers
    BY <1>3 DEF Workers
  <1>5. worker'.pc # "off" /\ worker'.pc # "fail" /\ worker'.cycles # 3
    BY <1>3
  <1>6. space'.flush
    BY <1>1, <1>2, InvFacts DEF WorkerInv
  <1>7. WorkerInv'
    BY <1>4, <1>5, <1>6, Zenon DEF WorkerInv
  <1>8. QED BY <1>1, <1>2, <1>7, WorkerGoesOn, Zenon

LEMMA FailTicketsInv ==
  ASSUME IInv, WorkerKeeps, progress' \in BOOLEAN,
         NEW cycles \in 0 .. 3, FailTickets(cycles), kind = "metadata" => cycles > 0,
         worker.pc # "off"
  PROVE  IInv'
  <1>1. PICK nsp \in Spaces : nsp = space
    BY InvFacts
  <1>2. space' = nsp /\ kind' = kind
    BY <1>1 DEF FailTickets, WorkerKeeps
  <1>3. PICK state \in 0 .. COMMIT_TRANS : state = worker.state
    BY InvFacts DEF WorkerInv, Workers
  <1>4. worker' = [pc |-> "fail", state |-> state, cycles |-> cycles, made |-> FALSE]
    BY <1>3 DEF FailTickets
  <1>5. worker' \in Workers
    BY <1>4 DEF Workers
  <1>6. worker'.pc = "fail" /\ worker'.pc # "off" /\ ~worker'.made /\ worker'.cycles = cycles
    BY <1>4
  <1>7. space'.flush
    BY <1>1, <1>2, InvFacts DEF WorkerInv
  <1>8. kind' = "metadata" => worker'.cycles > 0
    BY <1>2, <1>6
  <1>9. WorkerInv'
    BY <1>5, <1>6, <1>7, <1>8, Zenon DEF WorkerInv
  <1>10. ~Unlocked'
    BY <1>6 DEF Unlocked
  <1>11. QED BY <1>1, <1>2, <1>9, <1>10, WorkerGoesOn, Zenon

(* No bytes to reclaim, no tickets.                                        *)
LEMMA NothingQueued ==
  ASSUME IInv, ~ToReclaim
  PROVE  space.tickets = <<>>
  <1>1. ASSUME space.tickets # <<>> PROVE FALSE
    <2>1. PICK h : h = Head(space.tickets)
      OBVIOUS
    <2>2. h \in Queued(space) /\ Queued(space) \in SUBSET Tasks
      BY <1>1, <2>1, InvFacts, HeadIs, QueuedTasks DEF Queued
    <2>3. Asked(ticket) \in Amounts /\ Asked(ticket)[h] = ticket[h].bytes
      BY <2>2, InvFacts, AskedType
    <2>4. ticket[h].bytes > 0 /\ ticket[h].bytes \in Nat
      BY <2>2, InvFacts, AskedType DEF QueuesOK
    <2>5. /\ Bytes(Asked(ticket), Queued(space)) >= Asked(ticket)[h]
          /\ Bytes(Asked(ticket), Queued(space)) \in Nat
      BY <2>2, <2>3, BytesWithout, Zenon
    <2>6. space.reclaim = Bytes(Asked(ticket), Queued(space))
      BY InvFacts DEF Books, Exact
    <2>7. QED BY <2>3, <2>4, <2>5, <2>6 DEF ToReclaim
  <1>2. QED BY <1>1

LEMMA WorkerStartsInv ==
  ASSUME IInv, WorkerStarts
  PROVE  IInv'
  <1>1. worker.pc = "queued" /\ WorkerKeeps /\ progress' \in BOOLEAN
    BY DEF WorkerStarts
  <1>2. Unlocked /\ worker.pc # "off"
    BY <1>1 DEF Unlocked
  <1>3. CASE kind = "data" /\ space.tickets = <<>>
    BY <1>1, <1>3, StopInv DEF WorkerStarts
  <1>4. CASE kind = "data" /\ space.tickets # <<>>
    <2>1. PICK state \in 0 .. COMMIT_TRANS : state = IF space.full THEN 1 ELSE 0
      BY DEF COMMIT_TRANS
    <2>2. FlushNext(state, 0) /\ 0 \in 0 .. 2
      BY <1>4, <2>1 DEF WorkerStarts
    <2>3. QED BY <1>1, <1>2, <2>2, FlushNextInv
  <1>5. CASE kind # "data" /\ ToReclaim
    <2>1. FlushNext(1, 0) /\ 0 \in 0 .. 2 /\ 1 \in 0 .. COMMIT_TRANS
      BY <1>5 DEF WorkerStarts, ITEMS_NR, COMMIT_TRANS
    <2>2. QED BY <1>1, <1>2, <2>1, FlushNextInv
  <1>6. CASE kind # "data" /\ ~ToReclaim
    <2>1. Stop
      BY <1>6 DEF WorkerStarts
    <2>2. QED BY <1>1, <1>6, <2>1, NothingQueued, StopInv
  <1>7. QED BY <1>3, <1>4, <1>5, <1>6

LEMMA WorkerFlushesInv ==
  ASSUME IInv, WorkerFlushes
  PROVE  IInv'
  <1>1. /\ worker.pc = "flush" /\ kind' = kind /\ task' = task
        /\ aborted' = aborted /\ requests' = requests
        /\ worker' = [worker EXCEPT !.pc = "check"]
    BY DEF WorkerFlushes
  <1>2. PICK nts : nts = task'
    OBVIOUS
  <1>3. Books(space, ticket, nts, global, dirty)
    BY <1>1, <1>2, InvFacts, Zenon
  <1>4. PICK state : FlushSpace(state)
    BY Zenon DEF WorkerFlushes
  <1>5. StepOK
    BY <1>1, <1>2, <1>3, <1>4, FlushKeeps, Zenon
  <1>6. worker \in Workers /\ space.flush /\ worker.cycles # 3
    BY <1>1, InvFacts DEF WorkerInv
  <1>7. /\ worker' \in Workers /\ worker'.pc = "check" /\ worker'.cycles = worker.cycles
    <2>1. PICK w \in Workers : w = worker
      BY <1>6
    <2>2. worker' = [w EXCEPT !.pc = "check"]
      BY <1>1, <2>1
    <2>3. worker' \in Workers /\ worker'.pc = "check" /\ worker'.cycles = w.cycles
      BY <2>2 DEF Workers
    <2>4. QED BY <2>1, <2>3
  <1>8. worker'.pc # "off" /\ worker'.pc # "fail" /\ worker'.cycles # 3
    BY <1>6, <1>7
  <1>9. WorkerInv'
    <2>1. space'.flush
      BY <1>5, <1>6, Zenon DEF StepOK
    <2>2. QED BY <1>7, <1>8, <2>1, Zenon DEF WorkerInv
  <1>10. HeadInv'
    <2>1. Unlocked
      BY <1>1 DEF Unlocked
    <2>2. QED BY <1>5, <2>1, Zenon DEF StepOK, HeadInv
  <1>11. kind' \in Kinds /\ aborted' \in BOOLEAN /\ requests' \in Nat
    BY <1>1, InvFacts
  <1>12. QED BY <1>5, <1>9, <1>10, <1>11, Zenon DEF StepOK, IInv

LEMMA CheckEmptyInv ==
  ASSUME IInv, CheckEmpty
  PROVE  IInv'
  <1>1. WorkerKeeps /\ Stop /\ space.tickets = <<>> /\ progress' = progress
    BY DEF CheckEmpty, FlushDone
  <1>2. progress' \in BOOLEAN
    BY <1>1, InvFacts
  <1>3. QED BY <1>1, <1>2, StopInv, Zenon

LEMMA CheckMetadataInv ==
  ASSUME IInv, CheckMetadata
  PROVE  IInv'
  <1> DEFINE cycles == IF progress /\ worker.cycles > 0 THEN worker.cycles - 1
                                                        ELSE worker.cycles
             state == AfterFlush(IF progress THEN ITEMS_NR ELSE worker.state + 1, cycles)
  <1>1. /\ worker.pc = "check" /\ WorkerKeeps /\ progress' \in BOOLEAN
        /\ IF state <= COMMIT_TRANS THEN FlushNext(state, cycles)
           ELSE IF cycles + 1 > 2 THEN FailTickets(cycles + 1)
           ELSE FlushNext(ITEMS_NR, cycles + 1)
    BY Zenon DEF CheckMetadata
  <1>2. Unlocked /\ worker.pc # "off"
    BY <1>1 DEF Unlocked
  <1>3. worker.cycles \in 0 .. 2 /\ worker.state \in 0 .. COMMIT_TRANS
    BY <1>1, InvFacts DEF WorkerInv, Workers
  <1>4. cycles \in 0 .. 2
    BY <1>3
  <1>5. state \in 0 .. 14
    BY <1>3, <1>4 DEF AfterFlush, ITEMS_NR, DELALLOC_FULL, ALLOC_CHUNK_FORCE, COMMIT_TRANS
  <1> HIDE DEF cycles, state
  <1>6. CASE state <= COMMIT_TRANS
    <2>1. state \in 0 .. COMMIT_TRANS
      BY <1>5, <1>6 DEF COMMIT_TRANS
    <2>2. FlushNext(state, cycles)
      BY <1>1, <1>6, Zenon
    <2>3. QED BY <1>1, <1>2, <1>4, <2>1, <2>2, FlushNextInv, Zenon
  <1>7. CASE ~(state <= COMMIT_TRANS) /\ cycles + 1 > 2
    <2>1. cycles + 1 \in 0 .. 3 /\ cycles + 1 > 0
      BY <1>4
    <2>2. FailTickets(cycles + 1)
      BY <1>1, <1>7, Zenon
    <2>3. QED BY <1>1, <1>2, <2>1, <2>2, FailTicketsInv, Zenon
  <1>8. CASE ~(state <= COMMIT_TRANS) /\ ~(cycles + 1 > 2)
    <2>1. cycles + 1 \in 0 .. 2 /\ ITEMS_NR \in 0 .. COMMIT_TRANS
      BY <1>4, <1>8 DEF ITEMS_NR, COMMIT_TRANS
    <2>2. FlushNext(ITEMS_NR, cycles + 1)
      BY <1>1, <1>8, Zenon
    <2>3. QED BY <1>1, <1>2, <2>1, <2>2, FlushNextInv, Zenon
  <1>9. QED BY <1>6, <1>7, <1>8, Zenon

LEMMA CheckDataAllocInv ==
  ASSUME IInv, CheckDataAlloc
  PROVE  IInv'
  <1>1. worker.pc = "check" /\ WorkerKeeps /\ progress' \in BOOLEAN /\ kind = "data"
    BY DEF CheckDataAlloc
  <1>2. Unlocked /\ worker.pc # "off"
    BY <1>1 DEF Unlocked
  <1>3. CASE aborted
    <2>1. FailTickets(0) /\ 0 \in 0 .. 3 /\ kind # "metadata"
      BY <1>1, <1>3 DEF CheckDataAlloc
    <2>2. QED BY <1>1, <1>2, <2>1, FailTicketsInv
  <1>4. CASE ~aborted
    <2>1. PICK state \in 0 .. COMMIT_TRANS : state = IF space.full THEN 1 ELSE 0
      BY DEF COMMIT_TRANS
    <2>2. FlushNext(state, 0) /\ 0 \in 0 .. 2
      BY <1>4, <2>1 DEF CheckDataAlloc
    <2>3. QED BY <1>1, <1>2, <2>2, FlushNextInv
  <1>5. QED BY <1>3, <1>4

LEMMA CheckDataInv ==
  ASSUME IInv, CheckData
  PROVE  IInv'
  <1> DEFINE state == IF progress THEN 1 ELSE worker.state + 1
  <1>1. /\ worker.pc = "check" /\ WorkerKeeps /\ progress' \in BOOLEAN /\ kind = "data"
        /\ IF state <= Len(DataStates) THEN FlushNext(state, 0)
           ELSE IF space.full \/ aborted THEN FailTickets(0)
           ELSE FlushNext(1, 0)
    BY DEF CheckData
  <1>2. Unlocked /\ worker.pc # "off"
    BY <1>1 DEF Unlocked
  <1>3. state \in Nat
    BY InvFacts DEF WorkerInv, Workers
  <1>4. Len(DataStates) = 4
    BY DEF DataStates
  <1> HIDE DEF state
  <1>5. CASE state <= Len(DataStates)
    <2>1. state \in 0 .. COMMIT_TRANS /\ 0 \in 0 .. 2
      BY <1>3, <1>4, <1>5 DEF COMMIT_TRANS
    <2>2. FlushNext(state, 0)
      BY <1>1, <1>5, Zenon
    <2>3. QED BY <1>1, <1>2, <2>1, <2>2, FlushNextInv, Zenon
  <1>6. CASE ~(state <= Len(DataStates)) /\ (space.full \/ aborted)
    <2>1. 0 \in 0 .. 3 /\ kind # "metadata"
      BY <1>1
    <2>2. FailTickets(0)
      BY <1>1, <1>6, Zenon
    <2>3. QED BY <1>1, <1>2, <2>1, <2>2, FailTicketsInv, Zenon
  <1>7. CASE ~(state <= Len(DataStates)) /\ ~(space.full \/ aborted)
    <2>1. 1 \in 0 .. COMMIT_TRANS /\ 0 \in 0 .. 2
      BY DEF COMMIT_TRANS
    <2>2. FlushNext(1, 0)
      BY <1>1, <1>7, Zenon
    <2>3. QED BY <1>1, <1>2, <2>1, <2>2, FlushNextInv, Zenon
  <1>8. QED BY <1>5, <1>6, <1>7, Zenon

(* maybe_fail_all_tickets takes the ticket at the head off its queue; its  *)
(* task is woken but has not run.                                          *)
LEMMA HeadLeaves ==
  ASSUME IInv, NEW t \in Queued(space), task[t].pc = "wait",
         NEW k \in Tickets, NEW nglob \in 0 .. GlobalSize,
         k.bytes = 0 => k.error = "no", k.error = "no" => k.bytes = 0,
         nglob = global - IF k.bytes = 0 THEN k.want ELSE 0
  PROVE  Books(Removed(space, t), [ticket EXCEPT ![t] = k], task, nglob, dirty)
  <1>1. t \in Tasks
    BY InvFacts, QueuedTasks
  <1>2. PICK r \in TaskRecords : r = task[t]
    BY <1>1, InvFacts
  <1>3. [task EXCEPT ![t] = r] = task
    BY <1>1, <1>2, InvFacts
  <1>4. Fitting(FALSE, FALSE, k, r)
    BY <1>2 DEF Fitting
  <1>5. Holds(k, r) = IF k.bytes = 0 THEN k.want ELSE 0
    BY <1>2 DEF Holds
  <1>6. nglob = global - Holds(k, r)
    BY <1>5
  <1>7. Books(Removed(space, t), [ticket EXCEPT ![t] = k], [task EXCEPT ![t] = r], nglob, dirty)
    BY <1>4, <1>6, Leaves, Zenon
  <1>8. QED BY <1>3, <1>7, Zenon

LEMMA FailHeadInv ==
  ASSUME IInv, FailHead
  PROVE  IInv'
  <1>1. PICK t : t = Head(space.tickets)
    OBVIOUS
  <1>2. /\ worker.pc = "fail" /\ space.tickets # <<>> /\ ~worker.made
        /\ kind' = kind /\ task' = task /\ dirty' = dirty /\ aborted' = aborted
        /\ requests' = requests
    BY DEF FailHead
  <1>3. t \in ToSet(space.tickets) /\ t \in Queued(space) /\ t \in Tasks
    BY <1>1, <1>2, InvFacts, HeadIs DEF Queued
  <1>4. task[t].pc = "wait" /\ t \notin ToSet(space.priority)
    BY <1>3, InvFacts DEF Attended, QueuesOK
  <1>5. PICK msp : msp = Removed(space, t)
    OBVIOUS
  <1>6. PICK e \in {"ENOSPC", "EIO"} : e = IF aborted THEN "EIO" ELSE "ENOSPC"
    OBVIOUS
  <1>7. PICK k \in Tickets : /\ [ticket EXCEPT ![t].error = e] = [ticket EXCEPT ![t] = k]
                             /\ k.bytes > 0 /\ k.error = e
    BY <1>3, FailedIs
  <1>8. PICK mtk : mtk = [ticket EXCEPT ![t] = k]
    OBVIOUS
  <1>9. k.bytes # 0 /\ k.error # "no" /\ global \in 0 .. GlobalSize /\ global = global - 0
    BY <1>7, InvFacts DEF Tickets
  <1>10. Books(msp, mtk, task, global, dirty)
    <2>1. global = global - IF k.bytes = 0 THEN k.want ELSE 0
      BY <1>9
    <2>2. QED BY <1>3, <1>4, <1>5, <1>8, <1>9, <2>1, HeadLeaves, Zenon
  <1>11. /\ msp.flush = space.flush /\ (space.tickets = <<>> => msp.tickets = <<>>)
         /\ msp.total = space.total /\ msp.pinned = space.pinned
         /\ msp.may_use = space.may_use /\ msp.priority = Without(space.priority, t)
    BY <1>3, <1>5, RemovedIs, Zenon
  <1>12. /\ kind' \in Kinds /\ aborted' \in BOOLEAN /\ requests' \in Nat /\ WorkerInv
         /\ progress \in BOOLEAN /\ untried \in BOOLEAN
    BY <1>2, InvFacts
  <1>13. PICK w \in Workers : w = worker
    BY <1>12 DEF WorkerInv
  <1>14. space.flush /\ (kind = "metadata" => w.cycles > 0) /\ w.pc = "fail"
    BY <1>2, <1>12, <1>13 DEF WorkerInv
  <1>15. ASSUME NEW m \in BOOLEAN, worker' = [w EXCEPT !.made = m], aborted => ~m,
                space'.flush
         PROVE  WorkerInv'
    <2>1. worker' \in Workers /\ worker'.pc = "fail" /\ worker'.cycles = w.cycles
          /\ worker'.made = m
      BY <1>14, <1>15 DEF Workers
    <2>2. worker'.pc # "off"
      BY <2>1
    <2>3. aborted' => ~worker'.made
      BY <1>2, <1>15, <2>1
    <2>4. kind' = "metadata" => worker'.cycles > 0
      BY <1>2, <1>14, <2>1
    <2>5. QED BY <1>15, <2>1, <2>2, <2>3, <2>4, Zenon DEF WorkerInv
  <1>16. CASE aborted
    <2>1. /\ space' = msp /\ ticket' = mtk
          /\ worker' = worker /\ progress' = progress /\ untried' = untried /\ global' = global
      <3>1. /\ space' = Removed(space, t) /\ ticket' = [ticket EXCEPT ![t].error = e]
            /\ UNCHANGED <<worker, progress, untried, global>>
        BY <1>1, <1>6, <1>16 DEF FailHead
      <3>2. worker' = worker /\ progress' = progress /\ untried' = untried /\ global' = global
        BY <3>1
      <3>3. QED BY <1>5, <1>7, <1>8, <3>1, <3>2, Zenon
    <2>2. Books(space', ticket', task', global', dirty')
      BY <1>2, <1>10, <2>1, Zenon
    <2>3. WorkerInv'
      BY <1>2, <1>11, <2>1, WorkerStays, Zenon
    <2>4. PICK ntk \in [Tasks -> Tickets], nsp \in Spaces : ntk = ticket' /\ nsp = space'
      BY <2>2 DEF Books, Typed
    <2>5. nsp.priority = space.priority
      BY <1>4, <1>11, <2>1, <2>4, Zenon DEF Without
    <2>6. space.priority # <<>>
            => ntk[Head(space.priority)].bytes = ticket[Head(space.priority)].bytes
      <3>1. ASSUME space.priority # <<>>
            PROVE  Head(space.priority) \in Tasks /\ Head(space.priority) # t
        BY <1>4, <3>1, InvFacts, HeadIs
      <3>2. \A u \in Tasks \ {t} : ntk[u] = ticket[u]
        BY <1>8, <2>1, <2>4, InvFacts
      <3>3. QED BY <3>1, <3>2
    <2>7. PriorityHead(space, ticket) => PriorityHead(nsp, ntk)
      <3>1. Used(space) <= Used(nsp) /\ nsp.total = space.total
        BY <1>11, <2>1, <2>4, UsedNat DEF Used
      <3>2. space \in Spaces /\ ticket \in [Tasks -> Tickets]
        BY InvFacts
      <3>3. PriorityHead(space, ticket) =>
              (nsp.priority = <<>>
                \/ (/\ space.priority # <<>> /\ Head(nsp.priority) = Head(space.priority)
                    /\ ntk[Head(space.priority)].bytes = ticket[Head(space.priority)].bytes)
               => PriorityHead(nsp, ntk))
        BY <3>1, <3>2, HeadsStay, Zenon
      <3>4. QED BY <2>5, <2>6, <3>3, Zenon
    <2>8. HeadInv'
      <3>1. ~(Unlocked' \/ ~aborted')
        BY <1>2, <1>16, <2>1 DEF Unlocked
      <3>2. PriorityHead(space, ticket)' <=> PriorityHead(nsp, ntk)
        BY <1>2, <2>4, HeadsPrimed, Zenon
      <3>3. ~untried' => PriorityHead(space, ticket)
        BY <2>1, InvFacts DEF HeadInv
      <3>4. QED BY <2>7, <3>1, <3>2, <3>3, Zenon DEF HeadInv
    <2>9. QED BY <1>12, <2>1, <2>2, <2>3, <2>8, Zenon DEF IInv
  <1>17. CASE ~aborted /\ CanSteal(t)
    <2>1. PICK s \in Tickets, nglob \in 0 .. GlobalSize :
            /\ Stolen(t) = [ticket EXCEPT ![t] = s]
            /\ s.bytes = 0 /\ s.error = "no" /\ s.want = ticket[t].bytes
            /\ nglob = global - ticket[t].bytes
      BY <1>3, <1>17, StolenIs
    <2>2. /\ space' = Removed(space, t) /\ ticket' = Stolen(t)
          /\ global' = global - ticket[t].bytes
          /\ worker' = [worker EXCEPT !.made = TRUE]
          /\ progress' = TRUE /\ untried' = TRUE
      BY <1>1, <1>17 DEF FailHead
    <2>3. Books(msp, Stolen(t), task, nglob, dirty)
      <3>1. nglob = global - IF s.bytes = 0 THEN s.want ELSE 0
        BY <2>1
      <3>2. QED BY <1>3, <1>4, <1>5, <2>1, <3>1, HeadLeaves, Zenon
    <2>4. Books(space', ticket', task', global', dirty')
      BY <1>2, <1>5, <2>1, <2>2, <2>3, Zenon
    <2>5. space'.flush
      BY <1>5, <1>11, <1>14, <2>2, Zenon
    <2>6. WorkerInv'
      <3>1. worker' = [w EXCEPT !.made = TRUE] /\ TRUE \in BOOLEAN
        BY <1>13, <2>2
      <3>2. QED BY <1>15, <1>17, <2>5, <3>1
    <2>7. HeadInv'
      BY <2>2 DEF HeadInv
    <2>8. progress' \in BOOLEAN /\ untried' \in BOOLEAN
      BY <2>2
    <2>9. QED BY <1>12, <2>4, <2>6, <2>7, <2>8, Zenon DEF IInv
  <1>18. CASE ~aborted /\ ~CanSteal(t)
    <2>1. /\ TryGranting(Removed(space, t), [ticket EXCEPT ![t].error = e])
          /\ worker' = [worker EXCEPT
                !.made = Granted(Removed(space, t), [ticket EXCEPT ![t].error = e]).any]
          /\ global' = global
      BY <1>1, <1>6, <1>18, Zenon DEF FailHead
    <2>2. PICK m : m = Granted(msp, mtk).any
      OBVIOUS
    <2>3. TryGranting(msp, mtk) /\ worker' = [w EXCEPT !.made = m]
      BY <1>5, <1>7, <1>8, <1>13, <2>1, <2>2, Zenon
    <2>4. Books(msp, mtk, task', global', dirty')
      BY <1>2, <1>10, <2>1, Zenon
    <2>5. StepOK
      BY <1>2, <1>11, <2>3, <2>4, StepTries, Zenon
    <2>6. m \in BOOLEAN
      BY <2>2 DEF Granted
    <2>7. space'.flush
      BY <1>14, <2>5, Zenon DEF StepOK
    <2>8. WorkerInv'
      BY <1>15, <1>18, <2>3, <2>6, <2>7
    <2>9. HeadInv'
      BY <1>18, <2>5, Zenon DEF StepOK, HeadInv
    <2>10. QED BY <1>12, <2>5, <2>8, <2>9, Zenon DEF StepOK, IInv
  <1>19. QED BY <1>16, <1>17, <1>18

LEMMA FailedAllInv ==
  ASSUME IInv, FailedAll
  PROVE  IInv'
  <1>1. /\ worker.pc = "fail" /\ WorkerKeeps /\ progress' = progress
        /\ space.tickets = <<>> \/ worker.made
    BY DEF FailedAll
  <1>2. progress' \in BOOLEAN /\ worker.pc # "off"
    BY <1>1, InvFacts
  <1>3. CASE worker.made
    <2>1. PICK cycles \in 0 .. 2 :
            cycles = IF kind = "metadata" THEN worker.cycles - 1 ELSE 0
      BY <1>1, InvFacts DEF WorkerInv, Workers
    <2>2. FlushNext(1, cycles) /\ 1 \in 0 .. COMMIT_TRANS
      BY <1>3, <2>1 DEF FailedAll, COMMIT_TRANS
    <2>3. ~aborted
      BY <1>1, <1>3, InvFacts DEF WorkerInv
    <2>4. QED BY <1>1, <1>2, <2>2, <2>3, FlushNextInv, Zenon
  <1>4. CASE ~worker.made
    <2>1. Stop /\ space.tickets = <<>>
      BY <1>1, <1>4 DEF FailedAll
    <2>2. QED BY <1>1, <1>2, <2>1, StopInv, Zenon
  <1>5. QED BY <1>3, <1>4

-----------------------------------------------------------------------------
(***************************************************************************)
(* The theorems                                                            *)
(***************************************************************************)
LEMMA InitInv ==
  ASSUME Init
  PROVE  IInv
  <1>1. /\ kind \in Kinds /\ worker = Off /\ progress = FALSE /\ dirty = 0
        /\ aborted = FALSE /\ requests = 0 /\ untried = FALSE
        /\ global = IF kind = "metadata" THEN GlobalSize ELSE 0
        /\ ticket = [t \in Tasks |-> NoTicket] /\ task = [t \in Tasks |-> Idle]
    BY DEF Init
  <1>2. global \in 0 .. GlobalSize /\ global \in Nat
    BY <1>1, SpaceAssumption
  <1>3. PICK empty \in Seq(Tasks) : empty = <<>>
    <2>1. <<>> \in Seq(Tasks)
      OBVIOUS
    <2>2. QED BY <2>1, Zenon
  <1>4. space = [total |-> Total, pinned |-> 0, may_use |-> global, full |-> FALSE,
                 flush |-> FALSE, reclaim |-> 0, tickets |-> empty, priority |-> empty]
    BY <1>3 DEF Init
  <1>5. space \in Spaces
    BY <1>2, <1>4, SpaceAssumption DEF Spaces
  <1>6. /\ space.tickets = <<>> /\ space.priority = <<>> /\ space.may_use = global
        /\ space.reclaim = 0 /\ ~space.flush
    BY <1>3, <1>4
  <1>7. ticket \in [Tasks -> Tickets] /\ task \in [Tasks -> TaskRecords]
    <2>1. NoTicket \in Tickets /\ Idle \in TaskRecords
      BY DEF NoTicket, Tickets, Idle, TaskRecords, Places, FlushNames
    <2>2. QED BY <1>1, <2>1
  <1>8. \A t \in Tasks : /\ ticket[t].bytes = 0 /\ ticket[t].error = "no"
                         /\ task[t].pc = "idle"
    BY <1>1 DEF NoTicket, Idle
  <1>9. ToSet(space.tickets) = {} /\ ToSet(space.priority) = {} /\ Queued(space) = {}
    BY <1>3, <1>6, SeqFacts DEF Queued
  <1>10. QueuesOK(space, ticket)
    <2>1. Len(empty) = 0
      BY <1>3
    <2>2. \A i, j \in 1 .. Len(empty) : empty[i] = empty[j] => i = j
      BY <2>1
    <2>3. IsInjective(empty)
      BY <2>2, Injective, Zenon
    <2>4. IsInjective(space.tickets) /\ IsInjective(space.priority)
      BY <1>3, <1>6, <2>3, Zenon
    <2>5. QED BY <1>9, <2>4 DEF QueuesOK
  <1>11. Attended(space, ticket, task)
    BY <1>8, <1>9 DEF Attended
  <1>12. Exact(space, ticket, task, global, dirty)
    <2>1. Bytes(Has(ticket, task), Tasks) = 0
      <3>1. \A t \in Tasks : Has(ticket, task)[t] = 0
        BY <1>7, <1>8, HasType
      <3>2. QED BY <3>1, BytesNone, Zenon
    <2>2. Bytes(Asked(ticket), Queued(space)) = 0
      <3>1. \A t \in Queued(space) : Asked(ticket)[t] = 0
        BY <1>9
      <3>2. QED BY <3>1, BytesNone, Zenon
    <2>3. QED BY <1>1, <1>2, <1>6, <2>1, <2>2 DEF Exact
  <1>13. Books(space, ticket, task, global, dirty)
    BY <1>1, <1>2, <1>5, <1>7, <1>10, <1>11, <1>12 DEF Books, Typed
  <1>14. WorkerInv
    <2>1. worker = [pc |-> "off", state |-> 0, cycles |-> 0, made |-> FALSE]
      BY <1>1 DEF Off
    <2>2. worker \in Workers
      BY <2>1 DEF Workers, COMMIT_TRANS
    <2>3. worker.pc = "off" /\ worker.pc # "fail" /\ worker.cycles # 3
      BY <2>1
    <2>4. QED BY <1>6, <2>2, <2>3, Zenon DEF WorkerInv
  <1>15. HeadInv
    BY <1>6, Zenon DEF HeadInv, PriorityHead, NormalHead
  <1>16. QED BY <1>1, <1>13, <1>14, <1>15 DEF IInv

LEMMA StutterInv ==
  ASSUME IInv, UNCHANGED vars
  PROVE  IInv'
  <1>1. /\ space' = space /\ ticket' = ticket /\ progress' = progress /\ untried' = untried
        /\ kind' = kind /\ worker' = worker /\ dirty' = dirty /\ global' = global
        /\ task' = task /\ requests' = requests /\ aborted' = aborted
    BY DEF vars, queueVars
  <1>2. Books(space', ticket', task', global', dirty')
    BY <1>1, InvFacts, Zenon
  <1>3. requests' \in Nat
    BY <1>1, InvFacts
  <1>4. /\ space'.tickets = space.tickets /\ space'.priority = space.priority
        /\ space'.flush = space.flush /\ space'.total = space.total
        /\ Used(space) <= Used(space')
        /\ \A u \in Queued(space) : ticket'[u].bytes = ticket[u].bytes
    BY <1>1, UsedNat, Zenon
  <1>5. QED BY <1>1, <1>2, <1>3, <1>4, QuietStep, Zenon

LEMMA NextInv ==
  ASSUME IInv, [Next]_vars
  PROVE  IInv'
  <1>1. CASE Worker
    <2>1. CASE WorkerStarts
      BY <2>1, WorkerStartsInv
    <2>2. CASE WorkerFlushes
      BY <2>2, WorkerFlushesInv
    <2>3. CASE CheckEmpty
      BY <2>3, CheckEmptyInv
    <2>4. CASE CheckMetadata
      BY <2>4, CheckMetadataInv
    <2>5. CASE CheckDataAlloc
      BY <2>5, CheckDataAllocInv
    <2>6. CASE CheckData
      BY <2>6, CheckDataInv
    <2>7. CASE FailHead
      BY <2>7, FailHeadInv
    <2>8. CASE FailedAll
      BY <2>8, FailedAllInv
    <2>9. QED BY <1>1, <2>1, <2>2, <2>3, <2>4, <2>5, <2>6, <2>7, <2>8, Zenon DEF Worker
  <1>2. ASSUME NEW t \in Tasks, Handle(t) PROVE IInv'
    BY <1>2, WaitReserveTicketInv, PriorityGrantedInv, PriorityNextInv, PriorityFlushInv,
       PriorityEndsInv, Zenon DEF Handle
  <1>3. ASSUME NEW t \in Tasks, Killed(t) PROVE IInv'
    BY <1>3, KilledInv
  <1>4. ASSUME NEW t \in Tasks, Finish(t) PROVE IInv'
    BY <1>4, FinishInv
  <1>5. ASSUME NEW t \in Tasks, NEW flush \in Flushes, NEW bytes \in Sizes,
               Reserve(t, flush, bytes)
        PROVE  IInv'
    <2>1. CASE ReserveNow(t, flush, bytes)
      BY <1>5, <2>1, ReserveNowInv
    <2>2. CASE ReserveFails(t, flush, bytes)
      BY <1>5, <2>2, ReserveFailsInv
    <2>3. CASE ReserveTicket(t, flush, bytes)
      BY <1>5, <2>3, ReserveTicketInv
    <2>4. QED BY <1>5, <2>1, <2>2, <2>3, Zenon DEF Reserve
  <1>6. CASE OtherFlush
    BY <1>6, OtherFlushInv
  <1>7. CASE Abort
    BY <1>7, AbortInv
  <1>8. CASE UNCHANGED vars
    BY <1>8, StutterInv
  <1>9. QED BY <1>1, <1>2, <1>3, <1>4, <1>5, <1>6, <1>7, <1>8, Zenon DEF Next

(* The inductive invariant: whenever the lock of a space_info is free the  *)
(* books are in order, whatever the tasks, the worker, the flushes and the *)
(* kills do, and the tickets at the heads of the queues do not fit.        *)
THEOREM SpaceInvariant == Spec => []IInv
  <1>1. IInv /\ [Next]_vars => IInv'
    BY NextInv
  <1>2. Init => IInv
    BY InitInv
  <1>3. QED BY <1>1, <1>2, PTL DEF Spec

(* Types: no sum of bytes underflows (btrfs_space_info_update_bytes_* warn *)
(* of it), and no ticket is queued twice.                                  *)
THEOREM SpaceTypeCorrect == Spec => []SpaceTypeOK
  <1>1. ASSUME IInv PROVE SpaceTypeOK
    <2>1. /\ space \in Spaces /\ ticket \in [Tasks -> Tickets]
          /\ task \in [Tasks -> TaskRecords] /\ kind \in Kinds
          /\ global \in 0 .. GlobalSize /\ dirty \in Nat
      BY <1>1, InvFacts
    <2>2. space.total \in Total .. MaxTotal
          /\ {space.pinned, space.may_use, space.reclaim, dirty} \subseteq Nat
      BY <2>1 DEF Spaces
    <2>3. IsInjective(space.tickets \o space.priority)
      BY <1>1, InvFacts, Joined, Zenon DEF QueuesOK
    <2>4. /\ worker.pc \in {"off", "queued", "flush", "check", "fail"}
          /\ worker.state \in 0 .. COMMIT_TRANS /\ worker.cycles \in 0 .. 3
      BY <1>1, InvFacts DEF WorkerInv, Workers
    <2>5. \A t \in Tasks : /\ task[t].pc \in {"idle", "wait", "reclaim", "flush", "held"}
                           /\ ticket[t].error \in {"no", "ENOSPC", "EIO", "EINTR"}
      BY <2>1 DEF TaskRecords, Places, Tickets
    <2>6. QED BY <2>1, <2>2, <2>3, <2>4, <2>5, Zenon DEF SpaceTypeOK
  <1>2. QED BY <1>1, SpaceInvariant, PTL

(* No byte is leaked or forgotten: bytes_may_use is what the tasks hold,   *)
(* the delayed work and the global reserve, and reclaim_size is what the   *)
(* queued tickets ask for.                                                 *)
THEOREM ReservationsAdd == Spec => []MayUseExact
  <1>1. ASSUME IInv PROVE MayUseExact
    <2>1. /\ space.may_use = global + dirty + Bytes(Has(ticket, task), Tasks)
          /\ space.reclaim = Bytes(Asked(ticket), Queued(space))
      BY <1>1, InvFacts DEF Books, Exact
    <2>2. ToSet(space.tickets \o space.priority) = Queued(space)
      BY <1>1, InvFacts, Joined, Zenon DEF Queued
    <2>3. BytesOf(ticket, space.tickets \o space.priority) = Bytes(Asked(ticket), Queued(space))
      BY <2>2, Zenon DEF BytesOf, Asked
    <2>4. QED BY <2>1, <2>3, Zenon DEF MayUseExact, Has
  <1>2. QED BY <1>1, SpaceInvariant, PTL

(* A task that waits for the worker is not forgotten and is answered once. *)
THEOREM WaitersAttended == Spec => []TicketsAttended
  <1>1. ASSUME IInv PROVE TicketsAttended
    <2>1. ASSUME NEW t \in Tasks, task[t].pc = "wait", ~Answered(t)
          PROVE  t \in ToSet(space.tickets)
      <3>1. ticket[t].bytes \in Nat
        BY <1>1, InvFacts, AskedType
      <3>2. ticket[t].bytes > 0 /\ ticket[t].error = "no"
        BY <2>1, <3>1 DEF Answered
      <3>3. QED BY <1>1, <2>1, <3>2, InvFacts DEF Attended
    <2>2. ToSet(space.tickets \o space.priority) = Queued(space)
      BY <1>1, InvFacts, Joined, Zenon DEF Queued
    <2>3. ASSUME NEW t \in Tasks
          PROVE  /\ Answered(t) => t \notin ToSet(space.tickets \o space.priority)
                 /\ ticket[t].bytes = 0 => ticket[t].error = "no"
      <3>1. Answered(t) => t \notin Queued(space)
        BY <1>1, NotQueued
      <3>2. ticket[t].bytes = 0 => ticket[t].error = "no"
        BY <1>1, InvFacts DEF Attended
      <3>3. QED BY <2>2, <3>1, <3>2, Zenon
    <2>4. /\ space.tickets # <<>> => space.flush
          /\ space.flush <=> worker.pc # "off"
      BY <1>1, InvFacts DEF WorkerInv
    <2>5. QED BY <2>1, <2>3, <2>4, Zenon DEF TicketsAttended
  <1>2. QED BY <1>1, SpaceInvariant, PTL

(* While nobody holds the lock the ticket at the head of a queue does not  *)
(* fit, unless the one before it was killed or took from the reserve.      *)
THEOREM HeadsDoNotFit == Spec => []HeadDoesNotFit
  <1>1. ASSUME IInv PROVE HeadDoesNotFit
    <2>1. HeadInv
      BY <1>1, InvFacts
    <2>2. QED BY <2>1, Zenon DEF HeadInv, HeadDoesNotFit, PriorityHead, NormalHead
  <1>2. QED BY <1>1, SpaceInvariant, PTL
=============================================================================
