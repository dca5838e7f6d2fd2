------------------------- MODULE OrderedQueueProofs -------------------------
(***************************************************************************)
(* Proofs about OrderedQueue, for every set of items, number of workers    *)
(* and number of calls.                                                    *)
(***************************************************************************)
EXTENDS OrderedQueue, TLAPS

Listed(w) == \E i \in 1 .. Len(list) : list[i] = w

(* The list holds the ordered items that were not served, in the order of  *)
(* their calls; what is finished is what was served or is done and listed. *)
ListInv ==
    /\ submitted = served + Len(list)
    /\ \A i \in 1 .. Len(list) :
           /\ stage[list[i]] # "free" /\ list[i] \in ordered
           /\ job[list[i]] = served + i
           /\ served + i \in finished <=> list[i] \in done
    /\ \A j \in 1 .. served : j \in finished

(* An item that no worker has taken is not done, and is listed if ordered. *)
ItemInv ==
    /\ claimed \subseteq done
    /\ \A w \in Items : stage[w] \in {"listed", "queued"} =>
           w \notin done /\ (w \in ordered => Listed(w))

(* What a helper knows where it is. *)
HelperInv(p) ==
    /\ IsAt(p, "func") => stage[p] = "taken" /\ p \notin done /\ (p \in ordered => Listed(p))
    /\ IsAt(p, "ordered") => /\ list # <<>> /\ helper[p].work = list[1]
                             /\ list[1] \in claimed
    /\ IsAt(p, "free") => /\ helper[p].work # p /\ ~Listed(helper[p].work)
                          /\ helper[p].work \in ordered
    /\ IsAt(p, "free_self") => helper[p].free_self
    /\ IsAt(p, "func") \/ IsAt(p, "idle") => ~helper[p].free_self
    /\ helper[p].free_self /\ ~IsAt(p, "return") => ~Listed(p) /\ p \in ordered

IInv ==
    /\ QueueTypeOK /\ NoUseAfterFree
    /\ ListInv /\ ItemInv
    /\ \A p \in Items : HelperInv(p)

-----------------------------------------------------------------------------
(* What list_del leaves when the item is the first one of the list. *)
LEMMA WithoutHead ==
    ASSUME NEW s \in Seq(Items), s # <<>>,
           \A i, j \in 1 .. Len(s) : s[i] = s[j] => i = j
    PROVE  /\ Without(s, s[1]) \in Seq(Items)
           /\ Len(Without(s, s[1])) = Len(s) - 1
           /\ \A i \in 1 .. Len(s) - 1 : Without(s, s[1])[i] = s[i + 1]
<1> DEFINE k == CHOOSE i \in 1 .. Len(s) : s[i] = s[1]
           t == [i \in 1 .. Len(s) - 1 |-> IF i < k THEN s[i] ELSE s[i + 1]]
<1>1. Len(s) \in Nat /\ 1 \in 1 .. Len(s)
  OBVIOUS
<1>2. k = 1
  BY <1>1
<1>3. Without(s, s[1]) = t
  BY <1>1 DEF Without
<1>4. \A i \in 1 .. Len(s) - 1 : t[i] = s[i + 1] /\ s[i + 1] \in Items
  BY <1>1, <1>2
<1> HIDE DEF k
<1>5. t \in [1 .. Len(s) - 1 -> Items]
  BY <1>4
<1>6. t \in Seq(Items) /\ Len(t) = Len(s) - 1
  BY <1>1, <1>5
<1> QED
  BY <1>3, <1>4, <1>6

(* What list_add_tail leaves. *)
LEMMA AppendLast ==
    ASSUME NEW s \in Seq(Items), NEW w \in Items
    PROVE  /\ Append(s, w) \in Seq(Items)
           /\ Len(Append(s, w)) = Len(s) + 1
           /\ \A i \in 1 .. Len(s) : Append(s, w)[i] = s[i]
           /\ Append(s, w)[Len(s) + 1] = w
  OBVIOUS

(* The invariant holds of an empty queue.                                  *)
LEMMA InitInv == Init => IInv
<1> SUFFICES ASSUME Init PROVE IInv
  OBVIOUS
<1>1. QueueTypeOK
  BY JobsAssumption DEF Init, QueueTypeOK, Idle
<1>2. \A p \in Items : IsAt(p, "idle") /\ ~helper[p].free_self
  BY DEF Init, IsAt, Idle
<1>3. \A p \in Items : Uses(p) = {}
  BY <1>2 DEF Uses, IsAt
<1>4. NoUseAfterFree
  BY <1>3 DEF NoUseAfterFree, Init
<1>5. ListInv /\ ItemInv
  BY DEF Init, ListInv, ItemInv
<1>6. \A p \in Items : HelperInv(p)
  BY <1>2 DEF HelperInv, IsAt
<1> QED
  BY <1>1, <1>4, <1>5, <1>6 DEF IInv

(* What changes when a helper moves. *)
LEMMA HelperSet ==
    ASSUME QueueTypeOK, NEW p \in Items, NEW s, MoveTo(p, s)
    PROVE  /\ helper'[p].at = s
           /\ helper'[p].work = helper[p].work
           /\ helper'[p].free_self = helper[p].free_self
           /\ \A q \in Items \ {p} : helper'[q] = helper[q]
  BY DEF QueueTypeOK, MoveTo

(* The items a helper uses follow from where it is. *)
LEMMA UsesSame ==
    ASSUME NEW q \in Items, helper'[q] = helper[q]
    PROVE  Uses(q)' = Uses(q)
  BY DEF Uses, IsAt

(* An item a helper uses is taken, and no other helper uses it. *)
LEMMA UsesTaken ==
    ASSUME IInv, NEW p \in Items, NEW w \in Uses(p)
    PROVE  stage[w] = "taken" /\ \A q \in Items \ {p} : w \notin Uses(q)
  BY DEF IInv, NoUseAfterFree

(* A new unordered item. *)
LEMMA AddWorkInv ==
    ASSUME IInv, NEW w \in Items, AddWork(w)
    PROVE  IInv'
<1>0. QueueTypeOK /\ NoUseAfterFree /\ ListInv /\ ItemInv /\ (\A q \in Items : HelperInv(q))
  BY DEF IInv
<1>1. QueueTypeOK'
  BY <1>0 DEF QueueTypeOK, AddWork, Stage, progress
<1>2. \A q \in Items : Uses(q)' \subseteq Uses(q)
  BY UsesSame DEF AddWork
<1>3. NoUseAfterFree'
  BY <1>0, <1>2 DEF AddWork, Stage, progress, NoUseAfterFree, QueueTypeOK
<1>4. ListInv'
  BY <1>0 DEF AddWork, Stage, progress, NoUseAfterFree, ListInv, QueueTypeOK
<1>5. ItemInv'
  BY <1>0 DEF AddWork, Stage, progress, ItemInv, Listed, ListInv, QueueTypeOK
<1>6. \A q \in Items : HelperInv(q)'
  <2> SUFFICES ASSUME NEW q \in Items PROVE HelperInv(q)'
    OBVIOUS
  <2>1. \A x \in Uses(q) : x # w
    BY <1>0 DEF NoUseAfterFree, AddWork
  <2>2. HelperInv(q) /\ UNCHANGED <<helper, list>>
    BY <1>0 DEF AddWork
  <2> QED
    BY <1>0, <2>1, <2>2
       DEF HelperInv, Uses, IsAt, Listed, AddWork, Stage, QueueTypeOK, ListInv
<1> QED
  BY <1>1, <1>3, <1>4, <1>5, <1>6 DEF IInv

(* A new ordered item, at the end of the list. *)
LEMMA AddOrderedWorkInv ==
    ASSUME IInv, NEW w \in Items, AddOrderedWork(w)
    PROVE  IInv'
<1>0. QueueTypeOK /\ NoUseAfterFree /\ ListInv /\ ItemInv /\ (\A q \in Items : HelperInv(q))
  BY DEF IInv
<1>a. /\ list' = Append(list, w) /\ list' \in Seq(Items) /\ Len(list') = Len(list) + 1
      /\ \A i \in 1 .. Len(list) : list'[i] = list[i]
      /\ list'[Len(list) + 1] = w /\ Len(list) \in Nat
  BY <1>0, AppendLast DEF AddOrderedWork, QueueTypeOK
<1>b. \A i \in 1 .. Len(list) : list[i] # w
  BY <1>0 DEF ListInv, AddOrderedWork
<1>c. \A x \in Items : Listed(x)' <=> Listed(x) \/ x = w
  BY <1>a, <1>b DEF Listed
<1>1. QueueTypeOK'
  <2>1. \A i, j \in 1 .. Len(list') : list'[i] = list'[j] => i = j
    BY <1>0, <1>a, <1>b DEF QueueTypeOK
  <2> QED
    BY <1>0, <1>a, <2>1, JobsAssumption DEF QueueTypeOK, AddOrderedWork, Stage
<1>2. \A q \in Items : Uses(q)' \subseteq Uses(q)
  BY UsesSame DEF AddOrderedWork
<1>3. NoUseAfterFree'
  BY <1>0, <1>2, <1>a, <1>b
     DEF AddOrderedWork, Stage, NoUseAfterFree, QueueTypeOK
<1>4. ListInv'
  <2>1. submitted' = served' + Len(list')
    BY <1>0, <1>a DEF AddOrderedWork, ListInv, QueueTypeOK
  <2>2. \A j \in 1 .. served' : j \in finished'
    BY <1>0 DEF AddOrderedWork, ListInv
  <2>3. ASSUME NEW i \in 1 .. Len(list')
        PROVE  /\ stage'[list'[i]] # "free" /\ list'[i] \in ordered'
               /\ job'[list'[i]] = served' + i
               /\ served' + i \in finished' <=> list'[i] \in done'
    <3>1. CASE i \in 1 .. Len(list)
      BY <1>0, <1>a, <1>b, <3>1 DEF AddOrderedWork, Stage, ListInv, QueueTypeOK
    <3>2. CASE i = Len(list) + 1
      BY <1>0, <1>a, <3>2 DEF AddOrderedWork, Stage, ListInv, QueueTypeOK
    <3> QED
      BY <1>a, <3>1, <3>2
  <2> QED
    BY <2>1, <2>2, <2>3 DEF ListInv
<1>5. ItemInv'
  BY <1>0, <1>c DEF AddOrderedWork, Stage, ItemInv, QueueTypeOK
<1>6. \A q \in Items : HelperInv(q)'
  <2> SUFFICES ASSUME NEW q \in Items PROVE HelperInv(q)'
    OBVIOUS
  <2>1. \A x \in Uses(q) : x # w
    BY <1>0 DEF NoUseAfterFree, AddOrderedWork
  <2>2. HelperInv(q) /\ UNCHANGED helper
    BY <1>0 DEF AddOrderedWork
  <2>3. helper[q].work \in Items
    BY <1>0 DEF QueueTypeOK
  <2>4. list # <<>> => list' # <<>> /\ list'[1] = list[1] /\ list[1] # w
    BY <1>0, <1>a, <1>b DEF QueueTypeOK
  <2> QED
    BY <1>0, <1>c, <2>1, <2>2, <2>3, <2>4
       DEF HelperInv, Uses, IsAt, AddOrderedWork, Stage, QueueTypeOK
<1> QED
  BY <1>1, <1>3, <1>4, <1>5, <1>6 DEF IInv

(* An item is handed to the worker pool. *)
LEMMA QueueWorkInv ==
    ASSUME IInv, NEW w \in Items, QueueWork(w)
    PROVE  IInv'
<1>0. QueueTypeOK /\ NoUseAfterFree /\ ListInv /\ ItemInv /\ (\A q \in Items : HelperInv(q))
  BY DEF IInv
<1>1. QueueTypeOK'
  BY <1>0 DEF QueueTypeOK, QueueWork, Stage, progress
<1>2. \A q \in Items : Uses(q)' \subseteq Uses(q)
  BY UsesSame DEF QueueWork
<1>3. NoUseAfterFree'
  BY <1>0, <1>2 DEF QueueWork, Stage, NoUseAfterFree, QueueTypeOK
<1>4. ListInv'
  BY <1>0 DEF QueueWork, Stage, progress, ListInv, QueueTypeOK
<1>5. ItemInv'
  BY <1>0 DEF QueueWork, Stage, ItemInv, Listed, QueueTypeOK
<1>6. \A q \in Items : HelperInv(q)'
  BY <1>0 DEF QueueWork, Stage, HelperInv, IsAt, Listed, QueueTypeOK
<1> QED
  BY <1>1, <1>3, <1>4, <1>5, <1>6 DEF IInv

(* A worker takes an item. *)
LEMMA ExecuteInv ==
    ASSUME IInv, NEW w \in Items, Execute(w)
    PROVE  IInv'
<1>0. QueueTypeOK /\ NoUseAfterFree /\ ListInv /\ ItemInv /\ (\A q \in Items : HelperInv(q))
  BY DEF IInv
<1>a. /\ helper'[w].at = "func" /\ ~helper'[w].free_self
      /\ \A q \in Items \ {w} : helper'[q] = helper[q]
  BY <1>0 DEF Execute, Idle, QueueTypeOK
<1>1. QueueTypeOK'
  BY <1>0 DEF QueueTypeOK, Execute, Stage, Idle, progress
<1>2. Uses(w)' = {w} /\ \A q \in Items \ {w} : Uses(q)' = Uses(q)
  BY <1>a, UsesSame DEF Uses, IsAt
<1>3. NoUseAfterFree'
  <2>1. \A q \in Items : w \notin Uses(q)
    BY <1>0 DEF NoUseAfterFree, Execute
  <2>2. stage'[w] = "taken" /\ \A x \in Items \ {w} : stage'[x] = stage[x]
    BY <1>0 DEF Execute, Stage, QueueTypeOK
  <2>3. \A q \in Items : \A x \in Uses(q)' : stage'[x] = "taken"
    BY <1>0, <1>2, <2>2 DEF NoUseAfterFree, Execute, Stage, QueueTypeOK
  <2>4. \A p, q \in Items : p # q => Uses(p)' \cap Uses(q)' = {}
    BY <1>0, <1>2, <2>1 DEF NoUseAfterFree
  <2>5. \A i \in 1 .. Len(list') : stage'[list'[i]] # "free"
    BY <1>0, <2>2 DEF NoUseAfterFree, Execute, QueueTypeOK
  <2> QED
    BY <2>3, <2>4, <2>5 DEF NoUseAfterFree
<1>4. ListInv'
  BY <1>0 DEF Execute, Stage, progress, ListInv, QueueTypeOK
<1>5. ItemInv'
  BY <1>0 DEF Execute, Stage, ItemInv, Listed, QueueTypeOK
<1>6. \A q \in Items : HelperInv(q)'
  <2>1. HelperInv(w)'
    BY <1>0, <1>a
       DEF HelperInv, IsAt, ItemInv, Execute, Stage, Listed, QueueTypeOK
  <2>2. ASSUME NEW q \in Items \ {w} PROVE HelperInv(q)'
    BY <1>0, <1>a, <2>2
       DEF HelperInv, IsAt, Execute, Stage, Listed, QueueTypeOK
  <2> QED
    BY <2>1, <2>2
<1> QED
  BY <1>1, <1>3, <1>4, <1>5, <1>6 DEF IInv

(* The function of an item without an ordered function frees it. *)
LEMMA UnorderedFuncInv ==
    ASSUME IInv, NEW p \in Items, UnorderedFunc(p)
    PROVE  IInv'
<1>0. QueueTypeOK /\ NoUseAfterFree /\ ListInv /\ ItemInv /\ (\A q \in Items : HelperInv(q))
  BY DEF IInv
<1>a. /\ helper'[p].at = "return" /\ helper'[p].work = helper[p].work
      /\ helper'[p].free_self = helper[p].free_self
      /\ \A q \in Items \ {p} : helper'[q] = helper[q]
  BY <1>0, HelperSet DEF UnorderedFunc
<1>b. \A q \in Items \ {p} : Uses(q)' = Uses(q)
  BY <1>a, UsesSame
<1>2. p \in Uses(p) /\ p \in Items
  BY <1>0 DEF Uses, IsAt, UnorderedFunc, HelperInv, QueueTypeOK
<1>c. \A q \in Items \ {p} : p \notin Uses(q)
  BY <1>2, UsesTaken
<1>d. ~Listed(p)
  BY <1>0 DEF HelperInv, UnorderedFunc, IsAt, ListInv, Listed
<1>e. Uses(p)' \subseteq Uses(p) \ {p}
  BY <1>0, <1>a DEF Uses, IsAt, UnorderedFunc, HelperInv
<1>f. stage' = [stage EXCEPT ![p] = "free"]
  BY DEF UnorderedFunc, Stage, FreedSelf
<1>1. QueueTypeOK'
  <2>1. MoveTo(p, "return") /\ UNCHANGED <<ordered, list, done, claimed, job, progress>>
    BY DEF UnorderedFunc
  <2> QED
    BY <1>0, <1>2, <1>f, <2>1 DEF QueueTypeOK, MoveTo, progress
<1>3. NoUseAfterFree'
  <2>1. \A x \in Items \ {p} : stage'[x] = stage[x]
    BY <1>0, <1>f DEF QueueTypeOK
  <2>2. \A q \in Items : \A x \in Uses(q) : x \in Items
    BY <1>0 DEF QueueTypeOK, Uses
  <2>3. \A q \in Items : \A x \in Uses(q)' : stage'[x] = "taken"
    BY <1>0, <1>b, <1>c, <1>e, <2>1, <2>2 DEF NoUseAfterFree
  <2>4. \A q, r \in Items : q # r => Uses(q)' \cap Uses(r)' = {}
    BY <1>0, <1>b, <1>e DEF NoUseAfterFree
  <2>5. \A i \in 1 .. Len(list') : stage'[list'[i]] # "free"
    BY <1>0, <1>d, <2>1 DEF NoUseAfterFree, UnorderedFunc, QueueTypeOK, Listed
  <2> QED
    BY <2>3, <2>4, <2>5 DEF NoUseAfterFree
<1>4. ListInv'
  BY <1>0, <1>d, <1>f DEF UnorderedFunc, progress, ListInv, Listed, QueueTypeOK
<1>5. ItemInv'
  BY <1>0, <1>2, <1>f DEF UnorderedFunc, ItemInv, Listed, QueueTypeOK
<1>6. \A q \in Items : HelperInv(q)'
  <2>1. HelperInv(p)'
    BY <1>0, <1>a DEF HelperInv, IsAt, UnorderedFunc, Listed
  <2>2. ASSUME NEW q \in Items \ {p} PROVE HelperInv(q)'
    <3>1. HelperInv(q) /\ UNCHANGED <<list, ordered, done, claimed>> /\ helper'[q] = helper[q]
      BY <1>0, <1>a, <2>2 DEF UnorderedFunc
    <3>2. IsAt(q, "func") => q # p /\ stage'[q] = stage[q]
      BY <1>0, <1>2, <1>c, <1>f, <2>2 DEF Uses, QueueTypeOK
    <3> QED
      BY <3>1, <3>2 DEF HelperInv, IsAt, Listed
  <2> QED
    BY <2>1, <2>2
<1> QED
  BY <1>1, <1>3, <1>4, <1>5, <1>6 DEF IInv

(* A helper frees an item it has served for another helper. *)
LEMMA FreeOtherInv ==
    ASSUME IInv, NEW p \in Items, FreeOther(p)
    PROVE  IInv'
<1>0. QueueTypeOK /\ NoUseAfterFree /\ ListInv /\ ItemInv /\ (\A q \in Items : HelperInv(q))
  BY DEF IInv
<1>a. /\ helper'[p].at = "scan" /\ helper'[p].work = helper[p].work
      /\ helper'[p].free_self = helper[p].free_self
      /\ \A q \in Items \ {p} : helper'[q] = helper[q]
  BY <1>0, HelperSet DEF FreeOther
<1>b. \A q \in Items \ {p} : Uses(q)' = Uses(q)
  BY <1>a, UsesSame
<1>2. helper[p].work \in Uses(p) /\ helper[p].work \in Items
  BY <1>0 DEF Uses, IsAt, FreeOther, HelperInv, QueueTypeOK
<1>c. \A q \in Items \ {p} : helper[p].work \notin Uses(q)
  BY <1>2, UsesTaken
<1>d. ~Listed(helper[p].work)
  BY <1>0 DEF HelperInv, FreeOther, IsAt, ListInv, Listed
<1>e. Uses(p)' \subseteq Uses(p) \ {helper[p].work}
  BY <1>0, <1>a DEF Uses, IsAt, FreeOther, HelperInv
<1>f. stage' = [stage EXCEPT ![helper[p].work] = "free"]
  BY DEF FreeOther, Stage, FreedSelf
<1>1. QueueTypeOK'
  <2>1. MoveTo(p, "scan") /\ UNCHANGED <<ordered, list, done, claimed, job, progress>>
    BY DEF FreeOther
  <2> QED
    BY <1>0, <1>2, <1>f, <2>1 DEF QueueTypeOK, MoveTo, progress
<1>3. NoUseAfterFree'
  <2>1. \A x \in Items \ {helper[p].work} : stage'[x] = stage[x]
    BY <1>0, <1>f DEF QueueTypeOK
  <2>2. \A q \in Items : \A x \in Uses(q) : x \in Items
    BY <1>0 DEF QueueTypeOK, Uses
  <2>3. \A q \in Items : \A x \in Uses(q)' : stage'[x] = "taken"
    BY <1>0, <1>b, <1>c, <1>e, <2>1, <2>2 DEF NoUseAfterFree
  <2>4. \A q, r \in Items : q # r => Uses(q)' \cap Uses(r)' = {}
    BY <1>0, <1>b, <1>e DEF NoUseAfterFree
  <2>5. \A i \in 1 .. Len(list') : stage'[list'[i]] # "free"
    BY <1>0, <1>d, <2>1 DEF NoUseAfterFree, FreeOther, QueueTypeOK, Listed
  <2> QED
    BY <2>3, <2>4, <2>5 DEF NoUseAfterFree
<1>4. ListInv'
  BY <1>0, <1>d, <1>f DEF FreeOther, progress, ListInv, Listed, QueueTypeOK
<1>5. ItemInv'
  BY <1>0, <1>2, <1>f DEF FreeOther, ItemInv, Listed, QueueTypeOK
<1>6. \A q \in Items : HelperInv(q)'
  <2>1. HelperInv(p)'
    BY <1>0, <1>a DEF HelperInv, IsAt, FreeOther, Listed
  <2>2. ASSUME NEW q \in Items \ {p} PROVE HelperInv(q)'
    <3>1. HelperInv(q) /\ UNCHANGED <<list, ordered, done, claimed>> /\ helper'[q] = helper[q]
      BY <1>0, <1>a, <2>2 DEF FreeOther
    <3>2. IsAt(q, "func") => q # helper[p].work /\ stage'[q] = stage[q]
      BY <1>0, <1>2, <1>c, <1>f, <2>2 DEF Uses, QueueTypeOK
    <3> QED
      BY <3>1, <3>2 DEF HelperInv, IsAt, Listed
  <2> QED
    BY <2>1, <2>2
<1> QED
  BY <1>1, <1>3, <1>4, <1>5, <1>6 DEF IInv

(* A helper frees its own item, last. *)
LEMMA FreeSelfInv ==
    ASSUME IInv, NEW p \in Items, FreeSelf(p)
    PROVE  IInv'
<1>0. QueueTypeOK /\ NoUseAfterFree /\ ListInv /\ ItemInv /\ (\A q \in Items : HelperInv(q))
  BY DEF IInv
<1>a. /\ helper'[p].at = "return" /\ helper'[p].work = helper[p].work
      /\ helper'[p].free_self = helper[p].free_self
      /\ \A q \in Items \ {p} : helper'[q] = helper[q]
  BY <1>0, HelperSet DEF FreeSelf
<1>b. \A q \in Items \ {p} : Uses(q)' = Uses(q)
  BY <1>a, UsesSame
<1>2. p \in Uses(p) /\ p \in Items
  BY <1>0 DEF Uses, IsAt, FreeSelf, HelperInv, QueueTypeOK
<1>c. \A q \in Items \ {p} : p \notin Uses(q)
  BY <1>2, UsesTaken
<1>d. ~Listed(p)
  BY <1>0 DEF HelperInv, FreeSelf, IsAt, ListInv, Listed
<1>e. Uses(p)' \subseteq Uses(p) \ {p}
  BY <1>0, <1>a DEF Uses, IsAt, FreeSelf, HelperInv
<1>f. stage' = [stage EXCEPT ![p] = "free"]
  BY DEF FreeSelf, Stage, FreedSelf
<1>1. QueueTypeOK'
  <2>1. MoveTo(p, "return") /\ UNCHANGED <<ordered, list, done, claimed, job, progress>>
    BY DEF FreeSelf
  <2> QED
    BY <1>0, <1>2, <1>f, <2>1 DEF QueueTypeOK, MoveTo, progress
<1>3. NoUseAfterFree'
  <2>1. \A x \in Items \ {p} : stage'[x] = stage[x]
    BY <1>0, <1>f DEF QueueTypeOK
  <2>2. \A q \in Items : \A x \in Uses(q) : x \in Items
    BY <1>0 DEF QueueTypeOK, Uses
  <2>3. \A q \in Items : \A x \in Uses(q)' : stage'[x] = "taken"
    BY <1>0, <1>b, <1>c, <1>e, <2>1, <2>2 DEF NoUseAfterFree
  <2>4. \A q, r \in Items : q # r => Uses(q)' \cap Uses(r)' = {}
    BY <1>0, <1>b, <1>e DEF NoUseAfterFree
  <2>5. \A i \in 1 .. Len(list') : stage'[list'[i]] # "free"
    BY <1>0, <1>d, <2>1 DEF NoUseAfterFree, FreeSelf, QueueTypeOK, Listed
  <2> QED
    BY <2>3, <2>4, <2>5 DEF NoUseAfterFree
<1>4. ListInv'
  BY <1>0, <1>d, <1>f DEF FreeSelf, progress, ListInv, Listed, QueueTypeOK
<1>5. ItemInv'
  BY <1>0, <1>2, <1>f DEF FreeSelf, ItemInv, Listed, QueueTypeOK
<1>6. \A q \in Items : HelperInv(q)'
  <2>1. HelperInv(p)'
    BY <1>0, <1>a DEF HelperInv, IsAt, FreeSelf, Listed
  <2>2. ASSUME NEW q \in Items \ {p} PROVE HelperInv(q)'
    <3>1. HelperInv(q) /\ UNCHANGED <<list, ordered, done, claimed>> /\ helper'[q] = helper[q]
      BY <1>0, <1>a, <2>2 DEF FreeSelf
    <3>2. IsAt(q, "func") => q # p /\ stage'[q] = stage[q]
      BY <1>0, <1>2, <1>c, <1>f, <2>2 DEF Uses, QueueTypeOK
    <3> QED
      BY <3>1, <3>2 DEF HelperInv, IsAt, Listed
  <2> QED
    BY <2>1, <2>2
<1> QED
  BY <1>1, <1>3, <1>4, <1>5, <1>6 DEF IInv

(* The function of an ordered item returns. *)
LEMMA OrderedFuncInv ==
    ASSUME IInv, NEW p \in Items, OrderedFunc(p)
    PROVE  IInv'
<1>0. QueueTypeOK /\ NoUseAfterFree /\ ListInv /\ ItemInv /\ (\A q \in Items : HelperInv(q))
  BY DEF IInv
<1>a. /\ helper'[p].at = "scan" /\ helper'[p].work = helper[p].work
      /\ helper'[p].free_self = helper[p].free_self
      /\ \A q \in Items \ {p} : helper'[q] = helper[q]
  BY <1>0, HelperSet DEF OrderedFunc
<1>b. \A q \in Items \ {p} : Uses(q)' = Uses(q)
  BY <1>a, UsesSame
<1>1. QueueTypeOK'
  <2>1. job[p] \in 1 .. submitted
    BY <1>0 DEF OrderedFunc, HelperInv, Listed, ListInv, QueueTypeOK
  <2> QED
    BY <1>0, <2>1 DEF QueueTypeOK, OrderedFunc, MoveTo
<1>2. Uses(p)' \subseteq Uses(p)
  BY <1>0, <1>a DEF Uses, IsAt, OrderedFunc, HelperInv
<1>3. NoUseAfterFree'
  <2>1. \A q \in Items : \A x \in Uses(q)' : stage'[x] = "taken"
    BY <1>0, <1>b, <1>2 DEF NoUseAfterFree, OrderedFunc
  <2>2. \A q, r \in Items : q # r => Uses(q)' \cap Uses(r)' = {}
    BY <1>0, <1>b, <1>2 DEF NoUseAfterFree
  <2> QED
    BY <1>0, <2>1, <2>2 DEF NoUseAfterFree, OrderedFunc
<1>4. ListInv'
  <2>1. PICK k \in 1 .. Len(list) : list[k] = p
    BY <1>0 DEF OrderedFunc, HelperInv, Listed
  <2>2. job[p] = served + k
    BY <1>0, <2>1 DEF ListInv
  <2>3. \A i \in 1 .. Len(list) : list[i] = p <=> i = k
    BY <1>0, <2>1 DEF QueueTypeOK
  <2>4. \A i \in 1 .. Len(list) : served + i = served + k <=> i = k
    BY <1>0 DEF QueueTypeOK
  <2> QED
    BY <1>0, <2>2, <2>3, <2>4 DEF OrderedFunc, ListInv
<1>5. ItemInv'
  BY <1>0 DEF OrderedFunc, ItemInv, HelperInv, Listed
<1>6. \A q \in Items : HelperInv(q)'
  <2>1. HelperInv(p)'
    BY <1>0, <1>a DEF HelperInv, IsAt, OrderedFunc, Listed
  <2>2. ASSUME NEW q \in Items \ {p} PROVE HelperInv(q)'
    BY <1>0, <1>a, <2>2 DEF HelperInv, IsAt, OrderedFunc, Listed
  <2> QED
    BY <2>1, <2>2
<1> QED
  BY <1>1, <1>3, <1>4, <1>5, <1>6 DEF IInv

(* A helper finds nothing more to serve. *)
LEMMA StopInv ==
    ASSUME IInv, NEW p \in Items, Stop(p)
    PROVE  IInv'
<1> DEFINE to == IF helper[p].free_self THEN "free_self" ELSE "return"
<1>t. to \in {"free_self", "return"} /\ (helper[p].free_self <=> to = "free_self")
  OBVIOUS
<1>s. MoveTo(p, to) /\ IsAt(p, "scan") /\ UNCHANGED <<items, progress>>
  BY DEF Stop
<1> HIDE DEF to
<1>0. QueueTypeOK /\ NoUseAfterFree /\ ListInv /\ ItemInv /\ (\A q \in Items : HelperInv(q))
  BY DEF IInv
<1>a. /\ helper'[p].at = to /\ helper'[p].work = helper[p].work
      /\ helper'[p].free_self = helper[p].free_self
      /\ \A q \in Items \ {p} : helper'[q] = helper[q]
  BY <1>0, <1>s, HelperSet
<1>b. \A q \in Items \ {p} : Uses(q)' = Uses(q)
  BY <1>a, UsesSame
<1>1. QueueTypeOK'
  BY <1>0, <1>s, <1>t DEF QueueTypeOK, MoveTo, items, progress
<1>2. Uses(p)' \subseteq Uses(p)
  BY <1>0, <1>a, <1>s, <1>t DEF Uses, IsAt, HelperInv
<1>3. NoUseAfterFree'
  <2>1. \A q \in Items : \A x \in Uses(q)' : stage'[x] = "taken"
    BY <1>0, <1>b, <1>2 DEF NoUseAfterFree, Stop, items
  <2>2. \A q, r \in Items : q # r => Uses(q)' \cap Uses(r)' = {}
    BY <1>0, <1>b, <1>2 DEF NoUseAfterFree
  <2> QED
    BY <1>0, <2>1, <2>2 DEF NoUseAfterFree, Stop, items
<1>4. ListInv'
  BY <1>0 DEF Stop, items, progress, ListInv
<1>5. ItemInv'
  BY <1>0 DEF Stop, items, ItemInv, Listed
<1>6. \A q \in Items : HelperInv(q)'
  <2>1. HelperInv(p)'
    <3>1. HelperInv(p) /\ UNCHANGED <<list, ordered>>
      BY <1>0, <1>s DEF items
    <3> QED
      BY <1>a, <1>s, <1>t, <3>1 DEF HelperInv, IsAt, Listed
  <2>2. ASSUME NEW q \in Items \ {p} PROVE HelperInv(q)'
    <3>1. HelperInv(q) /\ UNCHANGED <<list, ordered, done, claimed, stage>> /\ helper'[q] = helper[q]
      BY <1>0, <1>a, <2>2 DEF Stop, items
    <3> QED
      BY <3>1 DEF HelperInv, IsAt, Listed
  <2> QED
    BY <2>1, <2>2
<1> QED
  BY <1>1, <1>3, <1>4, <1>5, <1>6 DEF IInv

(* A worker returns. *)
LEMMA ReturnInv ==
    ASSUME IInv, NEW p \in Items, Return(p)
    PROVE  IInv'
<1>0. QueueTypeOK /\ NoUseAfterFree /\ ListInv /\ ItemInv /\ (\A q \in Items : HelperInv(q))
  BY DEF IInv
<1>a. /\ helper'[p].at = "idle" /\ ~helper'[p].free_self
      /\ \A q \in Items \ {p} : helper'[q] = helper[q]
  BY <1>0 DEF Return, Idle, QueueTypeOK
<1>b. \A q \in Items \ {p} : Uses(q)' = Uses(q)
  BY <1>a, UsesSame
<1>1. QueueTypeOK'
  BY <1>0 DEF QueueTypeOK, Return, Idle, items, progress
<1>2. Uses(p)' \subseteq Uses(p)
  BY <1>0, <1>a DEF Uses, IsAt
<1>3. NoUseAfterFree'
  <2>1. \A q \in Items : \A x \in Uses(q)' : stage'[x] = "taken"
    BY <1>0, <1>b, <1>2 DEF NoUseAfterFree, Return, items
  <2>2. \A q, r \in Items : q # r => Uses(q)' \cap Uses(r)' = {}
    BY <1>0, <1>b, <1>2 DEF NoUseAfterFree
  <2> QED
    BY <1>0, <2>1, <2>2 DEF NoUseAfterFree, Return, items
<1>4. ListInv'
  BY <1>0 DEF Return, items, progress, ListInv
<1>5. ItemInv'
  BY <1>0 DEF Return, items, ItemInv, Listed
<1>6. \A q \in Items : HelperInv(q)'
  <2>1. HelperInv(p)'
    BY <1>0, <1>a DEF HelperInv, IsAt, Return, items, Listed
  <2>2. ASSUME NEW q \in Items \ {p} PROVE HelperInv(q)'
    BY <1>0, <1>a, <2>2 DEF HelperInv, IsAt, Return, items, Listed
  <2> QED
    BY <2>1, <2>2
<1> QED
  BY <1>1, <1>3, <1>4, <1>5, <1>6 DEF IInv

(* A helper claims the first item. *)
LEMMA ClaimInv ==
    ASSUME IInv, NEW p \in Items, Claim(p)
    PROVE  IInv'
<1>0. QueueTypeOK /\ NoUseAfterFree /\ ListInv /\ ItemInv /\ (\A q \in Items : HelperInv(q))
  BY DEF IInv
<1>a. /\ helper'[p].at = "ordered" /\ helper'[p].work = list[1]
      /\ helper'[p].free_self = helper[p].free_self
      /\ \A q \in Items \ {p} : helper'[q] = helper[q]
  BY <1>0 DEF Claim, QueueTypeOK
<1>b. \A q \in Items \ {p} : Uses(q)' = Uses(q)
  BY <1>a, UsesSame
<1>h. list # <<>> /\ 1 \in 1 .. Len(list) /\ list[1] \in Items /\ Listed(list[1])
      /\ list[1] \in done /\ list[1] \notin claimed
  BY <1>0 DEF Claim, Takes, QueueTypeOK, Listed
<1>2. Uses(p)' = Uses(p) \cup {list[1]}
  BY <1>0, <1>a DEF Uses, IsAt, Claim, HelperInv
<1>c. stage[list[1]] = "taken"
  BY <1>0, <1>h DEF ListInv, ItemInv, QueueTypeOK
<1>d. \A q \in Items : list[1] \notin Uses(q)
  <2> SUFFICES ASSUME NEW q \in Items, list[1] \in Uses(q) PROVE FALSE
    OBVIOUS
  <2>1. CASE IsAt(q, "func") /\ list[1] = q
    BY <1>0, <1>h, <2>1 DEF HelperInv
  <2>2. CASE IsAt(q, "ordered") /\ list[1] = helper[q].work
    BY <1>0, <1>h, <2>2 DEF HelperInv
  <2>3. CASE IsAt(q, "free") /\ list[1] = helper[q].work
    BY <1>0, <1>h, <2>3 DEF HelperInv
  <2>4. CASE helper[q].free_self /\ ~IsAt(q, "return") /\ list[1] = q
    BY <1>0, <1>h, <2>4 DEF HelperInv
  <2> QED
    BY <2>1, <2>2, <2>3, <2>4 DEF Uses
<1>1. QueueTypeOK'
  <2>1. claimed' \subseteq Items
    BY <1>0, <1>h DEF QueueTypeOK, Claim
  <2>2. helper' \in [Items -> [at : {"idle", "func", "scan", "ordered", "free",
                                   "free_self", "return"},
                             work : Items, free_self : BOOLEAN]]
    <3>1. Head(list) \in Items
      BY <1>0, <1>h DEF QueueTypeOK
    <3> QED
      BY <1>0, <3>1 DEF QueueTypeOK, Claim
  <2> QED
    BY <1>0, <2>1, <2>2 DEF QueueTypeOK, Claim, progress
<1>3. NoUseAfterFree'
  <2>1. \A q \in Items : \A x \in Uses(q)' : stage'[x] = "taken"
    BY <1>0, <1>b, <1>c, <1>2 DEF NoUseAfterFree, Claim
  <2>2. \A q, r \in Items : q # r => Uses(q)' \cap Uses(r)' = {}
    BY <1>0, <1>b, <1>d, <1>2 DEF NoUseAfterFree
  <2> QED
    BY <1>0, <2>1, <2>2 DEF NoUseAfterFree, Claim
<1>4. ListInv'
  BY <1>0 DEF Claim, progress, ListInv
<1>5. ItemInv'
  <2>1. claimed' \subseteq done'
    BY <1>0, <1>h DEF Claim, ItemInv
  <2> QED
    BY <1>0, <2>1 DEF Claim, ItemInv, Listed
<1>6. \A q \in Items : HelperInv(q)'
  <2>1. HelperInv(p)'
    BY <1>0, <1>a, <1>h DEF HelperInv, IsAt, Claim, Listed
  <2>2. ASSUME NEW q \in Items \ {p} PROVE HelperInv(q)'
    <3>1. HelperInv(q) /\ UNCHANGED <<list, ordered, done, stage>> /\ helper'[q] = helper[q]
      BY <1>0, <1>a, <2>2 DEF Claim
    <3>2. claimed \subseteq claimed'
      BY DEF Claim
    <3> QED
      BY <3>1, <3>2 DEF HelperInv, IsAt, Listed
  <2> QED
    BY <2>1, <2>2
<1> QED
  BY <1>1, <1>3, <1>4, <1>5, <1>6 DEF IInv

(* The ordered function returns and the item leaves the list. *)
LEMMA DropInv ==
    ASSUME IInv, NEW p \in Items, Drop(p)
    PROVE  IInv'
<1>0. QueueTypeOK /\ NoUseAfterFree /\ ListInv /\ ItemInv /\ (\A q \in Items : HelperInv(q))
  BY DEF IInv
<1>h. /\ list # <<>> /\ 1 \in 1 .. Len(list) /\ Len(list) \in Nat
      /\ list[1] \in Items /\ Listed(list[1])
      /\ helper[p].work = list[1] /\ list[1] \in claimed
  <2>1. list # <<>> /\ helper[p].work = list[1] /\ list[1] \in claimed
    BY <1>0 DEF Drop, HelperInv
  <2>2. 1 \in 1 .. Len(list) /\ Len(list) \in Nat /\ list[1] \in Items
    BY <1>0, <2>1 DEF QueueTypeOK
  <2> QED
    BY <2>1, <2>2 DEF Listed
<1>a. /\ helper'[p].at = AfterDrop(p, list[1]) /\ helper'[p].work = list[1]
      /\ helper'[p].free_self = (helper[p].free_self \/ list[1] = p)
      /\ \A q \in Items \ {p} : helper'[q] = helper[q]
  BY <1>0, <1>h DEF Drop, QueueTypeOK
<1>b. \A q \in Items \ {p} : Uses(q)' = Uses(q)
  BY <1>a, UsesSame
<1>c. /\ list' \in Seq(Items) /\ Len(list') = Len(list) - 1
      /\ \A i \in 1 .. Len(list) - 1 : list'[i] = list[i + 1]
  BY <1>0, <1>h, WithoutHead DEF Drop, QueueTypeOK
<1>d. served' = served + 1 /\ job[list[1]] = served + 1
  BY <1>0, <1>h DEF Drop, ListInv
<1>e. \A x \in Items : Listed(x)' <=> Listed(x) /\ x # list[1]
  <2> SUFFICES ASSUME NEW x \in Items PROVE Listed(x)' <=> Listed(x) /\ x # list[1]
    OBVIOUS
  <2>1. ASSUME Listed(x), x # list[1] PROVE Listed(x)'
    <3>1. PICK i \in 1 .. Len(list) : list[i] = x
      BY <2>1 DEF Listed
    <3>2. i - 1 \in 1 .. Len(list') /\ list'[i - 1] = x
      BY <1>c, <1>h, <2>1, <3>1
    <3> QED
      BY <3>2 DEF Listed
  <2>2. ASSUME Listed(x)' PROVE Listed(x) /\ x # list[1]
    <3>1. PICK i \in 1 .. Len(list') : list'[i] = x
      BY <2>2 DEF Listed
    <3>2. i + 1 \in 1 .. Len(list) /\ list[i + 1] = x /\ i + 1 # 1
      BY <1>c, <1>h, <3>1
    <3> QED
      BY <1>0, <1>h, <3>2 DEF Listed, QueueTypeOK
  <2> QED
    BY <2>1, <2>2
<1>2. Uses(p)' = Uses(p)
  <2>1. IsAt(p, "ordered") /\ ~(helper[p].free_self /\ list[1] = p)
    BY <1>0, <1>h DEF Drop, HelperInv, IsAt
  <2>2. CASE list[1] = p
    BY <1>a, <1>h, <2>1, <2>2 DEF Uses, IsAt, AfterDrop
  <2>3. CASE list[1] # p
    BY <1>a, <1>h, <2>1, <2>3 DEF Uses, IsAt, AfterDrop
  <2> QED
    BY <2>2, <2>3
<1>1. QueueTypeOK'
  <2>1. \A i, j \in 1 .. Len(list') : list'[i] = list'[j] => i = j
    <3> SUFFICES ASSUME NEW i \in 1 .. Len(list'), NEW j \in 1 .. Len(list'),
                        list'[i] = list'[j]
                 PROVE  i = j
      OBVIOUS
    <3>1. i + 1 \in 1 .. Len(list) /\ j + 1 \in 1 .. Len(list)
      BY <1>c, <1>h
    <3>2. list[i + 1] = list[j + 1]
      BY <1>c, <1>h
    <3>3. i + 1 = j + 1
      BY <1>0, <3>1, <3>2 DEF QueueTypeOK
    <3> QED
      BY <1>h, <3>3
  <2>2. served' \in 0 .. submitted'
    BY <1>0, <1>d, <1>h DEF Drop, ListInv, QueueTypeOK
  <2>3. helper' \in [Items -> [at : {"idle", "func", "scan", "ordered", "free",
                                   "free_self", "return"},
                             work : Items, free_self : BOOLEAN]]
    <3>1. AfterDrop(p, helper[p].work) \in {"scan", "free"}
      BY DEF AfterDrop
    <3>2. (helper[p].free_self \/ helper[p].work = p) \in BOOLEAN
      OBVIOUS
    <3>3. helper' = [helper EXCEPT ![p] = [at |-> AfterDrop(p, helper[p].work),
                                          work |-> helper[p].work,
                                          free_self |-> helper[p].free_self \/ helper[p].work = p]]
      BY DEF Drop
    <3>4. helper[p].work \in Items
      BY <1>0 DEF QueueTypeOK
    <3> QED
      BY <1>0, <3>1, <3>2, <3>3, <3>4 DEF QueueTypeOK
  <2> QED
    BY <1>0, <1>c, <2>1, <2>2, <2>3 DEF QueueTypeOK, Drop
<1>3. NoUseAfterFree'
  <2>1. \A q \in Items : \A x \in Uses(q)' : stage'[x] = "taken"
    BY <1>0, <1>b, <1>2 DEF NoUseAfterFree, Drop
  <2>2. \A q, r \in Items : q # r => Uses(q)' \cap Uses(r)' = {}
    BY <1>0, <1>b, <1>2 DEF NoUseAfterFree
  <2>3. \A i \in 1 .. Len(list') : stage'[list'[i]] # "free"
    <3>1. \A i \in 1 .. Len(list') : i + 1 \in 1 .. Len(list) /\ list'[i] = list[i + 1]
      BY <1>c, <1>h
    <3> QED
      BY <1>0, <3>1 DEF NoUseAfterFree, Drop
  <2> QED
    BY <2>1, <2>2, <2>3 DEF NoUseAfterFree
<1>4. ListInv'
  <2>1. submitted' = served' + Len(list')
    BY <1>0, <1>c, <1>d, <1>h DEF Drop, ListInv, QueueTypeOK
  <2>2. \A j \in 1 .. served' : j \in finished'
    BY <1>0, <1>d, <1>h DEF Drop, ListInv, ItemInv, QueueTypeOK
  <2>3. ASSUME NEW i \in 1 .. Len(list')
        PROVE  /\ stage'[list'[i]] # "free" /\ list'[i] \in ordered'
               /\ job'[list'[i]] = served' + i
               /\ served' + i \in finished' <=> list'[i] \in done'
    <3>1. i + 1 \in 1 .. Len(list) /\ list'[i] = list[i + 1] /\ served' + i = served + (i + 1)
      BY <1>0, <1>c, <1>d, <1>h DEF QueueTypeOK
    <3> QED
      BY <1>0, <3>1 DEF Drop, ListInv
  <2> QED
    BY <2>1, <2>2, <2>3 DEF ListInv
<1>5. ItemInv'
  <2>1. list[1] \in done
    BY <1>0, <1>h DEF ItemInv
  <2> QED
    BY <1>0, <1>e, <2>1 DEF Drop, ItemInv
<1>6. \A q \in Items : HelperInv(q)'
  <2>1. HelperInv(p)'
    <3>1. list[1] \in ordered
      BY <1>0, <1>h DEF ListInv
    <3> QED
      <4> PICK u \in Items : u = list[1]
        BY <1>h
      <4>1. ~Listed(u)' /\ ordered' = ordered
        BY <1>e DEF Drop
      <4>2. HelperInv(p) /\ IsAt(p, "ordered")
        BY <1>0 DEF Drop
      <4>3. CASE list[1] = p
        BY <1>a, <3>1, <4>1, <4>3 DEF HelperInv, IsAt, AfterDrop
      <4>4. CASE list[1] # p
        BY <1>a, <1>e, <3>1, <4>1, <4>2, <4>4 DEF HelperInv, IsAt, AfterDrop
      <4> QED
        BY <4>3, <4>4
  <2>2. ASSUME NEW q \in Items \ {p} PROVE HelperInv(q)'
    <3>1. ~(IsAt(q, "ordered") \/ (IsAt(q, "func") /\ q = list[1]))
      BY <1>0, <1>h, <2>2 DEF HelperInv, NoUseAfterFree, Uses, Drop, ItemInv
    <3>2. helper[q].work \in Items
      BY <1>0 DEF QueueTypeOK
    <3> QED
      <4>1. HelperInv(q) /\ UNCHANGED <<ordered, done, claimed, stage>> /\ helper'[q] = helper[q]
        BY <1>0, <1>a, <2>2 DEF Drop
      <4> PICK u \in Items : u = helper[q].work
        BY <3>2
      <4>2. (Listed(q)' <=> Listed(q) /\ q # list[1]) /\ (Listed(u)' => Listed(u))
        BY <1>e
      <4> QED
        BY <3>1, <4>1, <4>2 DEF HelperInv, IsAt
  <2> QED
    BY <2>1, <2>2
<1> QED
  BY <1>1, <1>3, <1>4, <1>5, <1>6 DEF IInv

-----------------------------------------------------------------------------
(* Every step keeps the invariant. *)
LEMMA NextInv == IInv /\ [Next]_vars => IInv'
<1> SUFFICES ASSUME IInv, [Next]_vars PROVE IInv'
  OBVIOUS
<1>1. CASE UNCHANGED vars
  <2>1. UNCHANGED <<stage, ordered, list, done, claimed, job, helper, submitted, finished, served>>
    BY <1>1 DEF vars, items, progress
  <2>2. QueueTypeOK' = QueueTypeOK /\ ListInv' = ListInv /\ ItemInv' = ItemInv
    BY <2>1 DEF QueueTypeOK, ListInv, ItemInv, Listed
  <2>3. \A q \in Items : Uses(q)' = Uses(q) /\ HelperInv(q)' = HelperInv(q)
    BY <2>1 DEF Uses, HelperInv, IsAt, Listed
  <2>4. NoUseAfterFree' = NoUseAfterFree
    BY <2>1, <2>3 DEF NoUseAfterFree
  <2> QED
    BY <2>2, <2>3, <2>4 DEF IInv
<1>2. ASSUME NEW w \in Items,
             AddWork(w) \/ AddOrderedWork(w) \/ QueueWork(w) \/ Execute(w)
      PROVE  IInv'
  BY <1>2, AddWorkInv, AddOrderedWorkInv, QueueWorkInv, ExecuteInv
<1>3. ASSUME NEW p \in Items, HelperStep(p) PROVE IInv'
  BY <1>3, UnorderedFuncInv, OrderedFuncInv, ClaimInv, StopInv, DropInv,
     FreeOtherInv,
     FreeSelfInv, ReturnInv DEF HelperStep
<1> QED
  BY <1>1, <1>2, <1>3 DEF Next

(* The inductive invariant holds in every behaviour.                       *)
LEMMA QueueInv == Spec => []IInv
  BY InitInv, NextInv, PTL DEF Spec

(* An item is listed at most once, whatever is recycled while its helper   *)
(* runs: type correctness of the queue.                                    *)
THEOREM QueueTypeCorrect == Spec => []QueueTypeOK
<1>1. IInv => QueueTypeOK
  BY DEF IInv
<1> QED
  BY <1>1, QueueInv, PTL

(* run_ordered_work never touches an item after it was freed and never     *)
(* frees one twice, for every number of items and workers.                 *)
THEOREM FreedOnce == Spec => []NoUseAfterFree
<1>1. IInv => NoUseAfterFree
  BY DEF IInv
<1> QED
  BY <1>1, QueueInv, PTL

-----------------------------------------------------------------------------
(* Who still has to do something: a taken item is used by a helper or is   *)
(* listed and done; a claimed first item is served; and when the first     *)
(* item is ready, some helper is going to look at the list again.          *)
FlushInv ==
    /\ \A w \in Items : stage[w] = "taken" =>
           (\E p \in Items : w \in Uses(p)) \/ (Listed(w) /\ w \in done)
    /\ list # <<>> /\ list[1] \in claimed => \E p \in Items : IsAt(p, "ordered")
    /\ list # <<>> /\ list[1] \in done \ claimed =>
           \E p \in Items : IsAt(p, "scan") \/ IsAt(p, "free")
    /\ \A i \in 1 .. Len(list) : list[i] \in claimed => i = 1

(* Every step keeps FlushInv.                                              *)
LEMMA FlushStep ==
    ASSUME IInv, IInv', FlushInv, [Next]_vars
    PROVE  FlushInv'
<1>0. QueueTypeOK /\ NoUseAfterFree /\ ListInv /\ ItemInv /\ \A q \in Items : HelperInv(q)
  BY DEF IInv
<1>n. Len(list) \in Nat /\ (list # <<>> => 1 \in 1 .. Len(list) /\ list[1] \in Items)
      /\ \A i \in 1 .. Len(list) : list[i] \in Items
  BY <1>0 DEF QueueTypeOK
<1>1. CASE UNCHANGED vars
  <2>1. UNCHANGED <<stage, list, done, claimed, helper>>
    BY <1>1 DEF vars, items
  <2>2. \A q \in Items : Uses(q)' = Uses(q)
    BY <2>1, UsesSame
  <2> QED
    BY <2>1, <2>2 DEF FlushInv, IsAt, Listed
<1>2. ASSUME NEW w \in Items, AddWork(w) PROVE FlushInv'
  <2>1. \A q \in Items : Uses(q)' = Uses(q)
    BY <1>2, UsesSame DEF AddWork
  <2>2. \A i \in 1 .. Len(list) : list[i] # w
    BY <1>0, <1>2 DEF AddWork, ListInv
  <2>3. stage'[w] # "taken" /\ \A x \in Items \ {w} : stage'[x] = stage[x] /\ (x \in done' <=> x \in done)
    BY <1>0, <1>2 DEF AddWork, Stage, QueueTypeOK
  <2>4. UNCHANGED <<list, helper>> /\ claimed' = claimed \ {w} /\ done' = done \ {w}
    BY <1>2 DEF AddWork
  <2> QED
    BY <1>n, <2>1, <2>2, <2>3, <2>4 DEF FlushInv, IsAt, Listed
<1>3. ASSUME NEW w \in Items, AddOrderedWork(w) PROVE FlushInv'
  <2>1. \A q \in Items : Uses(q)' = Uses(q)
    BY <1>3, UsesSame DEF AddOrderedWork
  <2>2. \A i \in 1 .. Len(list) : list[i] # w
    BY <1>0, <1>3 DEF AddOrderedWork, ListInv
  <2>3. stage'[w] # "taken" /\ \A x \in Items \ {w} : stage'[x] = stage[x] /\ (x \in done' <=> x \in done)
    BY <1>0, <1>3 DEF AddOrderedWork, Stage, QueueTypeOK
  <2>4. UNCHANGED helper /\ claimed' = claimed \ {w} /\ done' = done \ {w}
    BY <1>3 DEF AddOrderedWork
  <2>5. /\ Len(list') = Len(list) + 1 /\ list'[Len(list) + 1] = w
        /\ \A i \in 1 .. Len(list) : list'[i] = list[i]
    BY <1>0, <1>3, AppendLast DEF AddOrderedWork, QueueTypeOK
  <2>6. \A x \in Items : Listed(x) => Listed(x)'
    BY <1>n, <2>5 DEF Listed
  <2>7. \A i \in 1 .. Len(list') : list'[i] \in claimed' => i = 1
    BY <1>n, <2>2, <2>4, <2>5 DEF FlushInv
  <2>8. CASE list = <<>>
    BY <1>n, <2>1, <2>3, <2>4, <2>5, <2>6, <2>7, <2>8 DEF FlushInv, IsAt
  <2>9. CASE list # <<>>
    BY <1>n, <2>1, <2>2, <2>3, <2>4, <2>5, <2>6, <2>7, <2>9 DEF FlushInv, IsAt
  <2> QED
    BY <2>8, <2>9
<1>4. ASSUME NEW w \in Items, QueueWork(w) PROVE FlushInv'
  <2>1. \A q \in Items : Uses(q)' = Uses(q)
    BY <1>4, UsesSame DEF QueueWork
  <2>2. UNCHANGED <<list, done, claimed, helper>> /\ \A x \in Items : stage'[x] = "taken" => stage[x] = "taken"
    BY <1>0, <1>4 DEF QueueWork, Stage, QueueTypeOK
  <2> QED
    BY <2>1, <2>2 DEF FlushInv, IsAt, Listed
<1>5. ASSUME NEW w \in Items, Execute(w) PROVE FlushInv'
  <2>1. /\ helper'[w].at = "func" /\ IsAt(w, "idle")
        /\ \A q \in Items \ {w} : helper'[q] = helper[q]
    BY <1>0, <1>5 DEF Execute, Idle, QueueTypeOK
  <2>2. w \in Uses(w)' /\ \A q \in Items \ {w} : Uses(q)' = Uses(q)
    BY <2>1, UsesSame DEF Uses, IsAt
  <2>3. Uses(w) = {}
    BY <1>0, <2>1 DEF Uses, HelperInv, IsAt
  <2>4. UNCHANGED <<list, done, claimed>> /\ \A x \in Items \ {w} : stage'[x] = stage[x]
    BY <1>0, <1>5 DEF Execute, Stage, QueueTypeOK
  <2> QED
    BY <2>1, <2>2, <2>3, <2>4 DEF FlushInv, IsAt, Listed
<1>6. ASSUME NEW p \in Items, HelperStep(p) PROVE FlushInv'
  <2>1. CASE UnorderedFunc(p)
    <3>1. /\ helper'[p].at = "return" /\ helper'[p].free_self = helper[p].free_self
          /\ \A q \in Items \ {p} : helper'[q] = helper[q]
      BY <1>0, <2>1, HelperSet DEF UnorderedFunc
    <3>2. \A q \in Items \ {p} : Uses(q)' = Uses(q)
      BY <3>1, UsesSame
    <3>3. IsAt(p, "func") /\ Uses(p) = {p}
      BY <1>0, <2>1 DEF UnorderedFunc, Uses, HelperInv, IsAt
    <3>4. UNCHANGED <<list, done, claimed>> /\ stage'[p] = "free" /\ \A x \in Items \ {p} : stage'[x] = stage[x]
      BY <1>0, <2>1 DEF UnorderedFunc, Stage, QueueTypeOK
    <3> QED
      BY <3>1, <3>2, <3>3, <3>4 DEF FlushInv, IsAt, Listed
  <2>2. CASE OrderedFunc(p)
    <3>1. /\ helper'[p].at = "scan" /\ helper'[p].free_self = helper[p].free_self
          /\ \A q \in Items \ {p} : helper'[q] = helper[q]
      BY <1>0, <2>2, HelperSet DEF OrderedFunc
    <3>2. \A q \in Items \ {p} : Uses(q)' = Uses(q)
      BY <3>1, UsesSame
    <3>3. IsAt(p, "func") /\ Uses(p) = {p} /\ Listed(p)
      BY <1>0, <2>2 DEF OrderedFunc, Uses, HelperInv, IsAt
    <3>4. UNCHANGED <<list, stage, claimed>> /\ done' = done \cup {p}
      BY <2>2 DEF OrderedFunc
    <3> QED
      BY <3>1, <3>2, <3>3, <3>4 DEF FlushInv, IsAt, Listed
  <2>3. CASE Claim(p)
    <3>1. /\ helper'[p].at = "ordered" /\ helper'[p].free_self = helper[p].free_self
          /\ \A q \in Items \ {p} : helper'[q] = helper[q]
      BY <1>0, <2>3 DEF Claim, QueueTypeOK
    <3>2. \A q \in Items \ {p} : Uses(q)' = Uses(q)
      BY <3>1, UsesSame
    <3>3. IsAt(p, "scan") /\ Uses(p) \subseteq Uses(p)'
      BY <2>3, <3>1 DEF Claim, Uses, IsAt
    <3>4. UNCHANGED <<list, stage, done>> /\ claimed' = claimed \cup {list[1]} /\ list # <<>>
      BY <1>0, <2>3 DEF Claim, QueueTypeOK
    <3>5. \A i \in 1 .. Len(list) : list[i] = list[1] => i = 1
      BY <1>0, <1>n, <3>4 DEF QueueTypeOK
    <3> QED
      BY <3>1, <3>2, <3>3, <3>4, <3>5 DEF FlushInv, IsAt, Listed
  <2>4. CASE Stop(p)
    <3> DEFINE to == IF helper[p].free_self THEN "free_self" ELSE "return"
    <3>t. to \in {"free_self", "return"} /\ (helper[p].free_self <=> to = "free_self")
      OBVIOUS
    <3>s. MoveTo(p, to) /\ IsAt(p, "scan") /\ UNCHANGED items
      BY <2>4 DEF Stop
    <3>h. list # <<>> => ~(list[1] \in done /\ list[1] \notin claimed)
      BY <1>0, <2>4 DEF Stop, Takes, QueueTypeOK
    <3> HIDE DEF to
    <3>1. /\ helper'[p].at = to /\ helper'[p].free_self = helper[p].free_self
          /\ \A q \in Items \ {p} : helper'[q] = helper[q]
      BY <1>0, <3>s, HelperSet
    <3>2. \A q \in Items \ {p} : Uses(q)' = Uses(q)
      BY <3>1, UsesSame
    <3>3. Uses(p) \subseteq Uses(p)'
      BY <3>1, <3>t, <3>s DEF Uses, IsAt
    <3>4. UNCHANGED <<list, stage, done, claimed>>
      BY <3>s DEF items
    <3> QED
      BY <3>1, <3>2, <3>3, <3>4, <3>s, <3>t, <3>h DEF FlushInv, IsAt, Listed
  <2>5. CASE Drop(p)
    <3>h. list # <<>> /\ helper[p].work = list[1] /\ IsAt(p, "ordered")
      BY <1>0, <2>5 DEF Drop, HelperInv
    <3>1. /\ helper'[p].at = AfterDrop(p, list[1]) /\ helper'[p].work = list[1]
          /\ helper'[p].free_self = (helper[p].free_self \/ list[1] = p)
          /\ \A q \in Items \ {p} : helper'[q] = helper[q]
      BY <1>0, <2>5, <3>h DEF Drop, QueueTypeOK
    <3>a. helper'[p].at \in {"scan", "free"}
      BY <3>1 DEF AfterDrop
    <3>2. \A q \in Items \ {p} : Uses(q)' = Uses(q)
      BY <3>1, UsesSame
    <3>3. list[1] \in Uses(p)' /\ Uses(p) \subseteq Uses(p)'
      <4>1. CASE list[1] = p
        BY <3>1, <3>h, <4>1 DEF Uses, IsAt, AfterDrop
      <4>2. CASE list[1] # p
        BY <3>1, <3>h, <4>2 DEF Uses, IsAt, AfterDrop
      <4> QED
        BY <4>1, <4>2
    <3>4. UNCHANGED <<stage, done, claimed>>
      BY <2>5 DEF Drop
    <3>5. /\ Len(list') = Len(list) - 1
          /\ \A i \in 1 .. Len(list) - 1 : list'[i] = list[i + 1]
      BY <1>0, <2>5, <3>h, WithoutHead DEF Drop, QueueTypeOK
    <3>6. \A i \in 1 .. Len(list') : list'[i] \notin claimed'
      <4> SUFFICES ASSUME NEW i \in 1 .. Len(list'), list'[i] \in claimed' PROVE FALSE
        OBVIOUS
      <4>1. i + 1 \in 1 .. Len(list) /\ list[i + 1] \in claimed /\ i + 1 # 1
        BY <1>n, <3>4, <3>5
      <4> QED
        BY <4>1 DEF FlushInv
    <3>7. \A x \in Items : Listed(x) => Listed(x)' \/ x = list[1]
      <4> SUFFICES ASSUME NEW x \in Items, Listed(x), x # list[1] PROVE Listed(x)'
        OBVIOUS
      <4>1. PICK i \in 1 .. Len(list) : list[i] = x
        BY DEF Listed
      <4>2. i - 1 \in 1 .. Len(list') /\ list'[i - 1] = x
        BY <1>n, <3>5, <4>1
      <4> QED
        BY <4>2 DEF Listed
    <3>8. list' # <<>> => 1 \in 1 .. Len(list')
      BY <3>5, <1>n DEF IInv, QueueTypeOK
    <3> QED
      BY <3>a, <3>2, <3>3, <3>4, <3>6, <3>7, <3>8 DEF FlushInv, IsAt
  <2>6. CASE FreeOther(p)
    <3>1. /\ helper'[p].at = "scan" /\ helper'[p].free_self = helper[p].free_self
          /\ \A q \in Items \ {p} : helper'[q] = helper[q]
      BY <1>0, <2>6, HelperSet DEF FreeOther
    <3>2. \A q \in Items \ {p} : Uses(q)' = Uses(q)
      BY <3>1, UsesSame
    <3>3. IsAt(p, "free") /\ Uses(p) \subseteq Uses(p)' \cup {helper[p].work} /\ helper[p].work \in Items
      BY <1>0, <2>6, <3>1 DEF FreeOther, Uses, IsAt, QueueTypeOK
    <3>4. /\ UNCHANGED <<list, done, claimed>> /\ stage'[helper[p].work] = "free"
          /\ \A x \in Items \ {helper[p].work} : stage'[x] = stage[x]
      BY <1>0, <2>6, <3>3 DEF FreeOther, Stage, QueueTypeOK
    <3> QED
      BY <3>1, <3>2, <3>3, <3>4 DEF FlushInv, IsAt, Listed
  <2>7. CASE FreeSelf(p)
    <3>1. /\ helper'[p].at = "return" /\ helper'[p].free_self = helper[p].free_self
          /\ \A q \in Items \ {p} : helper'[q] = helper[q]
      BY <1>0, <2>7, HelperSet DEF FreeSelf
    <3>2. \A q \in Items \ {p} : Uses(q)' = Uses(q)
      BY <3>1, UsesSame
    <3>3. IsAt(p, "free_self") /\ Uses(p) \subseteq {p}
      BY <2>7 DEF FreeSelf, Uses, IsAt
    <3>4. UNCHANGED <<list, done, claimed>> /\ stage'[p] = "free" /\ \A x \in Items \ {p} : stage'[x] = stage[x]
      BY <1>0, <2>7 DEF FreeSelf, FreedSelf, QueueTypeOK
    <3> QED
      BY <3>1, <3>2, <3>3, <3>4 DEF FlushInv, IsAt, Listed
  <2>8. CASE Return(p)
    <3>1. helper'[p].at = "idle" /\ \A q \in Items \ {p} : helper'[q] = helper[q]
      BY <1>0, <2>8 DEF Return, Idle, QueueTypeOK
    <3>2. \A q \in Items \ {p} : Uses(q)' = Uses(q)
      BY <3>1, UsesSame
    <3>3. IsAt(p, "return") /\ Uses(p) = {}
      BY <2>8 DEF Return, Uses, IsAt
    <3>4. UNCHANGED <<list, done, claimed, stage>>
      BY <2>8 DEF Return, items
    <3> QED
      BY <3>1, <3>2, <3>3, <3>4 DEF FlushInv, IsAt, Listed
  <2> QED
    BY <1>6, <2>1, <2>2, <2>3, <2>4, <2>5, <2>6, <2>7, <2>8 DEF HelperStep
<1> QED
  BY <1>1, <1>2, <1>3, <1>4, <1>5, <1>6 DEF Next

(* A flush of the queue with no concurrent caller leaves no ordered        *)
(* function unrun and no item unfreed: the last helper to stop has seen    *)
(* the whole list served.                                                  *)
THEOREM FlushIsComplete == Spec => []FlushFinishesAll
<1>1. Init => FlushInv
  BY DEF Init, FlushInv
<1>2. IInv /\ IInv' /\ FlushInv /\ [Next]_vars => FlushInv'
  BY FlushStep
<1>3. IInv /\ FlushInv => FlushFinishesAll
  <2> SUFFICES ASSUME IInv, FlushInv, Running = {},
                      \A w \in Items : stage[w] \in {"free", "taken"}
               PROVE  list = <<>> /\ \A w \in Items : stage[w] = "free"
    BY DEF FlushFinishesAll
  <2>0. QueueTypeOK /\ ListInv /\ \A q \in Items : HelperInv(q)
    BY DEF IInv
  <2>1. \A p \in Items : IsAt(p, "idle") /\ Uses(p) = {}
    BY <2>0 DEF Running, Uses, HelperInv, IsAt
  <2>2. list = <<>>
    <3> SUFFICES ASSUME list # <<>> PROVE FALSE
      OBVIOUS
    <3>1. 1 \in 1 .. Len(list) /\ list[1] \in Items
      BY <2>0 DEF QueueTypeOK
    <3>2. list[1] \in done
      BY <2>0, <2>1, <3>1 DEF ListInv, FlushInv
    <3> QED
      BY <2>1, <3>1, <3>2 DEF FlushInv, IsAt
  <2>3. \A w \in Items : ~Listed(w)
    BY <2>2 DEF Listed
  <2> QED
    BY <2>1, <2>2, <2>3 DEF FlushInv
<1> QED
  BY <1>1, <1>2, <1>3, QueueInv, PTL DEF Spec

-----------------------------------------------------------------------------
(* The job that is served is the one after the last that was served. *)
LEMMA CurrentJob ==
    ASSUME IInv
    PROVE  /\ \A p \in Items : IsAt(p, "ordered") => Current = served + 1
           /\ (\A p \in Items : ~IsAt(p, "ordered")) => Current = 0
<1> DEFINE serving == {p \in Items : IsAt(p, "ordered")}
           q == CHOOSE p \in serving : TRUE
<1>1. CASE serving = {}
  BY <1>1 DEF Current
<1>2. CASE serving # {}
  <2>1. q \in Items /\ IsAt(q, "ordered")
    BY <1>2
  <2>2. Current = job[helper[q].work]
    BY <1>2 DEF Current
  <2> HIDE DEF q
  <2>3. helper[q].work = list[1] /\ list # <<>>
    BY <2>1 DEF IInv, HelperInv
  <2>4. 1 \in 1 .. Len(list)
    BY <2>3 DEF IInv, QueueTypeOK
  <2>5. Current = served + 1
    BY <2>2, <2>3, <2>4 DEF IInv, ListInv
  <2> QED
    BY <2>1, <2>5
<1> QED
  BY <1>1, <1>2

(* The same after a step.                                                  *)
LEMMA CurrentNext ==
    ASSUME IInv'
    PROVE  /\ \A p \in Items : IsAt(p, "ordered")' => Current' = served' + 1
           /\ (\A p \in Items : ~IsAt(p, "ordered")') => Current' = 0
<1> DEFINE serving == {p \in Items : helper'[p].at = "ordered"}
           q == CHOOSE p \in serving : TRUE
<1>1. CASE serving = {}
  BY <1>1 DEF Current, IsAt
<1>2. CASE serving # {}
  <2>1. q \in Items /\ helper'[q].at = "ordered"
    BY <1>2
  <2>2. Current' = job'[helper'[q].work]
    BY <1>2 DEF Current, IsAt
  <2> HIDE DEF q
  <2>3. helper'[q].work = list'[1] /\ list' # <<>>
    BY <2>1 DEF IInv, HelperInv, IsAt
  <2>4. 1 \in 1 .. Len(list')
    BY <2>3 DEF IInv, QueueTypeOK
  <2>5. Current' = served' + 1
    BY <2>2, <2>3, <2>4 DEF IInv, ListInv
  <2> QED
    BY <2>1, <2>5 DEF IsAt
<1> QED
  BY <1>1, <1>2 DEF IsAt

(* A step that changes neither what was served nor whether a helper        *)
(* serves.                                                                 *)
LEMMA CurrentSame ==
    ASSUME IInv, IInv', served' = served,
           \A p \in Items : IsAt(p, "ordered")' <=> IsAt(p, "ordered")
    PROVE  Current' = Current
<1>1. CASE \E p \in Items : IsAt(p, "ordered")
  BY <1>1, CurrentJob, CurrentNext
<1>2. CASE \A p \in Items : ~IsAt(p, "ordered")
  BY <1>2, CurrentJob, CurrentNext
<1> QED
  BY <1>1, <1>2

svc == <<submitted, finished, Current, served>>

(* Every step of the queue is a step of OrderedService or changes          *)
(* nothing of it.                                                          *)
LEMMA ServiceStep ==
    ASSUME IInv, IInv', [Next]_vars
    PROVE  [Service!Next]_svc
<1>0. QueueTypeOK /\ ListInv /\ ItemInv /\ \A q \in Items : HelperInv(q)
  BY DEF IInv
<1>n. /\ submitted \in 0 .. MaxJobs /\ served \in 0 .. submitted /\ MaxJobs \in Nat
      /\ Len(list) \in Nat
  BY <1>0, JobsAssumption DEF QueueTypeOK
<1>1. CASE UNCHANGED vars
  <2>1. UNCHANGED <<submitted, finished, served, helper>>
    BY <1>1 DEF vars, progress
  <2>2. Current' = Current
    BY <2>1, CurrentSame DEF IsAt
  <2> QED
    BY <2>1, <2>2 DEF svc
<1>2. ASSUME NEW w \in Items, AddWork(w) \/ QueueWork(w) PROVE UNCHANGED svc
  <2>1. UNCHANGED <<submitted, finished, served, helper>>
    BY <1>2 DEF AddWork, QueueWork, progress
  <2>2. Current' = Current
    BY <2>1, CurrentSame DEF IsAt
  <2> QED
    BY <2>1, <2>2 DEF svc
<1>3. ASSUME NEW w \in Items, AddOrderedWork(w) PROVE Service!Submit
  <2>1. /\ UNCHANGED <<finished, served, helper>>
        /\ submitted < MaxJobs /\ submitted' = submitted + 1
    BY <1>3 DEF AddOrderedWork
  <2>2. Current' = Current
    BY <2>1, CurrentSame DEF IsAt
  <2> QED
    BY <2>1, <2>2 DEF Service!Submit
<1>4. ASSUME NEW w \in Items, Execute(w) PROVE UNCHANGED svc
  <2>1. /\ UNCHANGED <<submitted, finished, served>>
        /\ helper'[w].at = "func" /\ IsAt(w, "idle")
        /\ \A q \in Items \ {w} : helper'[q] = helper[q]
    BY <1>0, <1>4 DEF Execute, Idle, QueueTypeOK, progress
  <2>2. Current' = Current
    BY <2>1, CurrentSame DEF IsAt
  <2> QED
    BY <2>1, <2>2 DEF svc
<1>5. ASSUME NEW p \in Items, HelperStep(p) PROVE Service!Next \/ UNCHANGED svc
  <2>1. CASE UnorderedFunc(p)
    <3>1. /\ UNCHANGED <<submitted, finished, served>>
          /\ helper'[p].at = "return" /\ IsAt(p, "func")
          /\ \A q \in Items \ {p} : helper'[q] = helper[q]
      BY <1>0, <2>1, HelperSet DEF UnorderedFunc, progress
    <3>2. Current' = Current
      BY <3>1, CurrentSame DEF IsAt
    <3> QED
      BY <3>1, <3>2 DEF svc
  <2>2. CASE OrderedFunc(p)
    <3>1. /\ UNCHANGED <<submitted, served>> /\ finished' = finished \cup {job[p]}
          /\ helper'[p].at = "scan" /\ IsAt(p, "func")
          /\ \A q \in Items \ {p} : helper'[q] = helper[q]
      BY <1>0, <2>2, HelperSet DEF OrderedFunc
    <3>2. Current' = Current
      BY <3>1, CurrentSame DEF IsAt
    <3>3. PICK k \in 1 .. Len(list) : list[k] = p
      BY <1>0, <2>2 DEF OrderedFunc, HelperInv, Listed
    <3>4. job[p] = served + k /\ job[p] \notin finished
      BY <1>0, <2>2, <3>3 DEF OrderedFunc, HelperInv, ListInv
    <3>5. job[p] \in (1 .. submitted) \ finished /\ job[p] \in 1 .. MaxJobs
      BY <1>0, <1>n, <3>4 DEF ListInv
    <3>6. Service!Finish(job[p])
      BY <3>1, <3>2, <3>5 DEF Service!Finish
    <3> QED
      BY <3>5, <3>6 DEF Service!Next
  <2>3. CASE Claim(p)
    <3>1. /\ UNCHANGED <<submitted, finished, served>> /\ IsAt(p, "ordered")'
          /\ list # <<>> /\ list[1] \in done /\ list[1] \notin claimed
      BY <1>0, <2>3 DEF Claim, Takes, progress, IsAt, QueueTypeOK
    <3>2. \A q \in Items : ~IsAt(q, "ordered")
      BY <1>0, <3>1 DEF HelperInv
    <3>3. Current = 0 /\ Current' = served + 1
      BY <3>1, <3>2, CurrentJob, CurrentNext
    <3>4. 1 \in 1 .. Len(list)
      BY <1>0, <3>1 DEF QueueTypeOK
    <3>5. served + 1 \in finished
      BY <1>0, <3>1, <3>4 DEF ListInv
    <3>6. Service!Begin
      BY <3>1, <3>3, <3>5 DEF Service!Begin
    <3> QED
      BY <3>6 DEF Service!Next
  <2>4. CASE Stop(p)
    <3> DEFINE to == IF helper[p].free_self THEN "free_self" ELSE "return"
    <3>t. to # "ordered"
      OBVIOUS
    <3>s. MoveTo(p, to) /\ IsAt(p, "scan") /\ UNCHANGED <<submitted, finished, served>>
      BY <2>4 DEF Stop, progress
    <3> HIDE DEF to
    <3>1. helper'[p].at = to /\ \A q \in Items \ {p} : helper'[q] = helper[q]
      BY <1>0, <3>s, HelperSet
    <3>2. Current' = Current
      BY <3>1, <3>s, <3>t, CurrentSame DEF IsAt
    <3> QED
      BY <3>s, <3>2 DEF svc
  <2>5. CASE Drop(p)
    <3>1. /\ UNCHANGED <<submitted, finished>> /\ served' = job[helper[p].work]
          /\ IsAt(p, "ordered") /\ helper'[p].at = AfterDrop(p, helper[p].work)
          /\ \A q \in Items \ {p} : helper'[q] = helper[q]
      BY <1>0, <2>5 DEF Drop, QueueTypeOK
    <3>2. list # <<>> /\ helper[p].work = list[1]
      BY <1>0, <3>1 DEF HelperInv
    <3>3. 1 \in 1 .. Len(list)
      BY <1>0, <3>2 DEF QueueTypeOK
    <3>4. served' = served + 1
      BY <1>0, <3>1, <3>2, <3>3 DEF ListInv
    <3>5. Current = served + 1
      BY <3>1, CurrentJob
    <3>6. ASSUME NEW q \in Items, q # p PROVE ~IsAt(q, "ordered")
      <4> SUFFICES ASSUME IsAt(q, "ordered") PROVE FALSE
        OBVIOUS
      <4>1. helper[q].work = list[1]
        BY <1>0 DEF HelperInv
      <4> QED
        BY <3>1, <3>2, <3>6, <4>1 DEF IInv, NoUseAfterFree, Uses
    <3>7. \A q \in Items : ~IsAt(q, "ordered")'
      BY <3>1, <3>6 DEF IsAt, AfterDrop
    <3>8. Current' = 0
      BY <3>7, CurrentNext
    <3>9. Service!End
      BY <1>n, <3>1, <3>4, <3>5, <3>8 DEF Service!End
    <3> QED
      BY <3>9 DEF Service!Next
  <2>6. CASE FreeOther(p) \/ FreeSelf(p)
    <3>1. /\ UNCHANGED <<submitted, finished, served>>
          /\ helper'[p].at # "ordered" /\ ~IsAt(p, "ordered")
          /\ \A q \in Items \ {p} : helper'[q] = helper[q]
      BY <1>0, <2>6, HelperSet DEF FreeOther, FreeSelf, progress, IsAt
    <3>2. Current' = Current
      BY <3>1, CurrentSame DEF IsAt
    <3> QED
      BY <3>1, <3>2 DEF svc
  <2>7. CASE Return(p)
    <3>1. /\ UNCHANGED <<submitted, finished, served>>
          /\ helper'[p].at = "idle" /\ IsAt(p, "return")
          /\ \A q \in Items \ {p} : helper'[q] = helper[q]
      BY <1>0, <2>7 DEF Return, Idle, QueueTypeOK, progress
    <3>2. Current' = Current
      BY <3>1, CurrentSame DEF IsAt
    <3> QED
      BY <3>1, <3>2 DEF svc
  <2> QED
    BY <1>5, <2>1, <2>2, <2>3, <2>4, <2>5, <2>6, <2>7 DEF HelperStep
<1> QED
  BY <1>1, <1>2, <1>3, <1>4, <1>5 DEF Next, Service!Next

(* The queue runs ordered functions one at a time, in the order of         *)
(* btrfs_queue_work and each after its own function, however many items    *)
(* and workers there are and whatever is recycled meanwhile.               *)
THEOREM QueueServesInOrder == Spec => ServesInOrder
<1>1. Init => Service!Init
  <2> SUFFICES ASSUME Init PROVE Service!Init
    OBVIOUS
  <2>1. IInv /\ \A p \in Items : ~IsAt(p, "ordered")
    BY InitInv DEF Init, IsAt, Idle
  <2>2. Current = 0
    BY <2>1, CurrentJob
  <2> QED
    BY <2>2 DEF Init, Service!Init
<1>2. IInv /\ IInv' /\ [Next]_vars => [Service!Next]_<<submitted, finished, Current, served>>
  BY ServiceStep DEF svc
<1> QED
  BY <1>1, <1>2, QueueInv, PTL DEF Spec, ServesInOrder, Service!Spec
=============================================================================
