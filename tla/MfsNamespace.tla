---------------------------- MODULE MfsNamespace ----------------------------
(***************************************************************************)
(* Creating and removing files of a multi-filesystem (inode.c).            *)
(*                                                                         *)
(* Directories live on partition 0.  btrfs_create_mfs places a new file    *)
(* round robin on one of the partitions.  On a remote partition it links a *)
(* second inode into that filesystem's root directory, after it linked a   *)
(* shadow into the directory of the caller.  Every directory hands out     *)
(* index numbers from a counter in memory, index_cnt.                      *)
(*                                                                         *)
(* An index item is not put into the tree, nor deleted from it, by the     *)
(* call: both are queued in the delayed node of the directory, which may   *)
(* outlive the directory's inode, and applied by a worker or the commit.   *)
(*                                                                         *)
(* The VFS locks the directory for the length of a call.  It does not lock *)
(* the root directory of the remote partition: kern_path_create, called    *)
(* with the bare name, locks the current directory of the caller.          *)
(***************************************************************************)
EXTENDS Integers, Sequences, FiniteSets, FiniteSetsExt

CONSTANTS
  Tasks, Dirs, Names,
  Files,        \* the paths that are used, each a directory and a name
  Cwd,          \* the current directory of each task, none of Dirs
  Parts,        \* BTRFS_SUPER_INFO_COUNT
  Width,        \* the number of index values, 2^64 in the code
  MaxCreates,   \* bound on the files that are placed
  MaxEvents     \* bound on the links that fail for want of space or memory, the
                \* unlinks, the evictions of a directory and the remounts

ASSUME NamespaceAssumption ==
  /\ IsFiniteSet(Tasks)
  /\ Files \subseteq Dirs \X Names
  /\ Parts \in Nat /\ Parts > 1
  /\ \A d \in Dirs : d \notin 1 .. (Parts - 1)
  /\ MaxCreates \in Nat
  /\ Width \in Nat /\ Width > 2 * MaxCreates + 4
  /\ \A t \in Tasks : Cwd[t] \notin Dirs
  /\ MaxEvents \in Nat

DirOf(f) == f[1]
NameOf(f) == f[2]
Roots == 1 .. (Parts - 1)  \* the root directories of the remote partitions
Indexed == Dirs \cup Roots

NotLoaded == Width - 1     \* index_cnt of an inode that was just read, -1
NoIndex == Width           \* no such number
START_INDEX == 2           \* BTRFS_DIR_START_INDEX

VARIABLES
  created,      \* global_create_count
  placed,       \* history: the values of it that creates read
  counter,      \* index_cnt of each directory
  items,        \* the index items of each directory that are in the tree
  node,         \* the delayed node of each directory, see NoNode
  names,        \* the names in the root directory of each remote partition
  aborted,      \* what a link in the directory ran into, its transaction aborted
  file,         \* what is known of each path
  task,
  events,       \* how many of these there were
  remounted,    \* history: this is not the first mount
  tainted       \* history: directories that were given a counter not past
                \* the numbers in use, see Phantoms

dirVars == <<counter, items, node, names, aborted>>
history == <<remounted, tainted>>
vars == <<created, placed, dirVars, file, task, events, history>>

(* ref: index in the inode ref on disk; cached: dir_index of the inode in     *)
(* memory; dentry: in the dentry cache, with an associated_dentry or without. *)
Absent == [linked |-> FALSE, ref |-> NoIndex, cached |-> NoIndex, dentry |-> "none"]
(* ins, del: the index items to insert and the numbers to delete; cnt: the    *)
(* node's index_cnt.                                                          *)
NoNode == [ins |-> {}, del |-> {}, cnt |-> 0]
Idle == [pc |-> "idle", file |-> <<>>, n |-> 0, index |-> NoIndex]

Init ==
  /\ created = 0
  /\ placed = <<>>
  /\ counter = [d \in Indexed |-> NotLoaded]
  /\ items = [d \in Indexed |-> {}]
  /\ node = [d \in Indexed |-> NoNode]
  /\ names = [r \in Roots |-> {}]
  /\ aborted = [d \in Indexed |-> "no"]
  /\ file = [f \in Files |-> Absent]
  /\ task = [t \in Tasks |-> Idle]
  /\ events = 0
  /\ remounted = FALSE
  /\ tainted = {}

(* Locks: a directory while a call is in it, the current directory between   *)
(* kern_path_create and done_path_create.                                    *)
DirFree(d) == \A t \in Tasks : task[t].pc # "idle" => DirOf(task[t].file) # d
CwdFree(c) == \A t \in Tasks :
                Cwd[t] = c => task[t].pc \in {"idle", "count", "local", "path"}

Goto(t, pc) == task' = [task EXCEPT ![t].pc = pc]
Return(t) == task' = [task EXCEPT ![t] = Idle]

(* One more than the highest index in the tree; a directory whose tree holds *)
(* the number -1 is left as it is.  What is only queued does not count.       *)
MutPlus1(i) == i + 1
Plus1(i) == (i + 1) % Width
InTree(d, i) == \E item \in items[d] : item.index = i
Pending(d, i) == \E item \in node[d].ins : item.index = i
MutFirstFree(d) == IF items[d] = {} THEN START_INDEX
                   ELSE Max({i.index : i \in items[d]})
FirstFree(d) == CASE items[d] = {} -> START_INDEX
                  [] InTree(d, NotLoaded) -> counter[d]
                  [] OTHER -> Plus1(Max({i.index : i \in items[d]}))

(* The counter, read from the delayed node or the tree if it is not loaded.   *)
Loaded(d) == IF counter[d] # NotLoaded THEN counter[d]
             ELSE IF node[d].cnt # 0 THEN node[d].cnt ELSE FirstFree(d)

(* Queue an index item.  A number that is in the tree is found by the flush.  *)
QueueItem(d, item) ==
  [node EXCEPT ![d].ins = @ \cup {item},
               ![d].cnt = IF item.index >= @ THEN Plus1(item.index) ELSE @]

(* Numbers of a directory that unlink has deleted, or will delete, in place   *)
(* of a shadow's: no item has them, or not the shadow's.                      *)
Phantoms(d) == {k \in node[d].del : ~InTree(d, k)}
               \cup {file[f].cached : f \in {g \in Files : DirOf(g) = d
                          /\ file[g].cached \notin {NoIndex, file[g].ref}}}
ReadBehind(d, i) == counter[d] = NotLoaded /\ \E k \in Phantoms(d) : k >= i

(* The directories of the callers are in one filesystem.                      *)
LocalWrites == \A d \in Dirs : aborted[d] = "no"

---------------------------------------------------------------------------
(* Create: the name is not in the directory.  A negative dentry that is still *)
(* associated with a remote one makes the call return at once.                *)
CreateCall(t, f) ==
  /\ task[t].pc = "idle" /\ DirFree(DirOf(f))
  /\ ~file[f].linked /\ file[f].dentry # "associated"
  /\ LocalWrites
  /\ created < MaxCreates
  /\ created' = created + 1
  /\ task' = [task EXCEPT ![t] = [Idle EXCEPT !.pc = "count", !.file = f]]
  /\ file' = [file EXCEPT ![f].dentry = "plain"]
  /\ UNCHANGED <<placed, dirVars, events, history>>

MutReadCount(t) ==
  /\ task[t].pc = "count"
  /\ placed' = Append(placed, created - 1)
  /\ task' = [task EXCEPT ![t].n = created - 1,
                          ![t].pc = IF (created - 1) % Parts = 0 THEN "local" ELSE "path"]
  /\ UNCHANGED <<created, dirVars, file, events, history>>

(* The second access to the counter, and the placement it decides.            *)
ReadCount(t) ==
  /\ task[t].pc = "count"
  /\ placed' = Append(placed, created)
  /\ task' = [task EXCEPT ![t].n = created,
                          ![t].pc = IF created % Parts = 0 THEN "local" ELSE "path"]
  /\ UNCHANGED <<created, dirVars, file, events, history>>

(* btrfs_create_common in the directory of the caller.                        *)
LinkLocal(f) ==
  LET d == DirOf(f)  i == Loaded(d) IN
  /\ counter' = [counter EXCEPT ![d] = Plus1(i)]
  /\ IF Pending(d, i)
     THEN /\ aborted' = [aborted EXCEPT ![d] = "index"]
          /\ UNCHANGED <<node, file>>
     ELSE /\ node' = QueueItem(d, [index |-> i, file |-> f])
          /\ file' = [file EXCEPT ![f] = [@ EXCEPT !.linked = TRUE, !.ref = i, !.cached = i]]
          /\ UNCHANGED aborted
  /\ tainted' = IF ReadBehind(d, i) THEN tainted \cup {d} ELSE tainted
  /\ UNCHANGED <<items, names>>

Counted == events < MaxEvents /\ events' = events + 1

LinkOrFail(f) ==
  \/ LocalWrites /\ LinkLocal(f) /\ UNCHANGED events
  \/ LocalWrites /\ Counted /\ UNCHANGED <<dirVars, file, tainted>>
  \/ ~LocalWrites /\ UNCHANGED <<dirVars, file, events, tainted>>

CreateLocal(t) ==
  /\ task[t].pc = "local"
  /\ LinkOrFail(task[t].file)
  /\ Return(t)
  /\ UNCHANGED <<created, placed, remounted>>

PathCreate(t) ==
  /\ task[t].pc = "path" /\ CwdFree(Cwd[t])
  /\ Goto(t, "shadow")
  /\ UNCHANGED <<created, placed, dirVars, file, events, history>>

(* The result of linking the shadow is overwritten by the result of linking   *)
(* the remote inode.                                                          *)
CreateShadow(t) ==
  /\ task[t].pc = "shadow"
  /\ LinkOrFail(task[t].file)
  /\ Goto(t, "index")
  /\ UNCHANGED <<created, placed, remounted>>

MutCountLocal(i) == i
CountLocal(i) == Plus1(i)

(* btrfs_set_inode_index_mfs: one number of each directory, both counted up.  *)
(* When the local directory's counter is not loaded and its delayed node has  *)
(* none, it is the counter of the remote directory that is read, behind the   *)
(* items that are queued for it.                                              *)
SetIndex(t) ==
  LET f == task[t].file  d == DirOf(f)  r == task[t].n % Parts
      own == IF counter[d] = NotLoaded /\ node[d].cnt # 0 THEN node[d].cnt
                                                         ELSE counter[d]
      asked == own = NotLoaded
      index == IF asked THEN FirstFree(r) ELSE counter[r]
      passed == asked /\ \E item \in node[r].ins : item.index >= index IN
  /\ task[t].pc = "index" /\ aborted[r] = "no"
  /\ task' = [task EXCEPT ![t].pc = "count remote", ![t].index = index]
  /\ counter' = [counter EXCEPT ![d] = CountLocal(own), ![r] = index]
  /\ file' = [file EXCEPT ![f].cached = IF file[f].linked THEN own ELSE @]
  /\ tainted' = tainted \cup (IF asked \/ ReadBehind(d, own) THEN {d} ELSE {})
                        \cup (IF passed THEN {r} ELSE {})
  /\ UNCHANGED <<created, placed, items, node, names, aborted, events, remounted>>

(* The compiler may keep the value it read or load the counter again.         *)
CountRemote(t) ==
  LET r == task[t].n % Parts IN
  /\ task[t].pc = "count remote"
  /\ \E old \in {task[t].index, counter[r]} :
       counter' = [counter EXCEPT ![r] = Plus1(old)]
  /\ Goto(t, "link")
  /\ UNCHANGED <<created, placed, items, node, names, aborted, file, events, history>>

(* done_path_create and the association of the two dentries, whatever became *)
(* of the remote inode.                                                       *)
Associate(t) ==
  /\ file' = [file EXCEPT ![task[t].file].dentry = "associated"]
  /\ Return(t)

LinkRemote(t) ==
  LET f == task[t].file  r == task[t].n % Parts  i == task[t].index IN
  /\ task[t].pc = "link"
  /\ CASE NameOf(f) \in names[r] ->
            /\ aborted' = [aborted EXCEPT ![r] = "name"]
            /\ UNCHANGED <<node, names>>
       [] Pending(r, i) /\ NameOf(f) \notin names[r] ->
            /\ aborted' = [aborted EXCEPT ![r] = "index"]
            /\ UNCHANGED <<node, names>>
       [] OTHER ->
            /\ node' = QueueItem(r, [index |-> i, file |-> f])
            /\ names' = [names EXCEPT ![r] = @ \cup {NameOf(f)}]
            /\ UNCHANGED aborted
  /\ Associate(t)
  /\ UNCHANGED <<created, placed, counter, items, events, history>>

(* No transaction on the remote filesystem; or its inode number is in use,    *)
(* and the number is given back.                                              *)
RemoteFails(t) ==
  LET r == task[t].n % Parts IN
  /\ \/ /\ task[t].pc = "index" /\ aborted[r] # "no"
        /\ UNCHANGED <<counter, events>>
     \/ /\ task[t].pc = "index" /\ aborted[r] = "no" /\ Counted
        /\ UNCHANGED counter
     \/ /\ task[t].pc = "link" /\ Counted
        /\ counter' = [counter EXCEPT ![r] = (@ + Width - 1) % Width]
  /\ Associate(t)
  /\ UNCHANGED <<created, placed, items, node, names, aborted, history>>

(* btrfs_unlink with its transaction.  The number in memory is taken for the *)
(* number of the item: an insertion that is queued under it is dropped, else  *)
(* its deletion is queued, whether or not the tree has such an item.  Nothing *)
(* is done about the remote inode.                                            *)
Unlink(t, f) ==
  LET d == DirOf(f)
      index == IF file[f].cached # 0 THEN file[f].cached ELSE file[f].ref
      removed == [file EXCEPT ![f] = [Absent EXCEPT !.dentry = file[f].dentry]] IN
  /\ task[t].pc = "idle" /\ DirFree(d) /\ LocalWrites
  /\ file[f].linked /\ file[f].dentry # "none"
  /\ \/ /\ Pending(d, index)
        /\ node' = [node EXCEPT ![d].ins = {item \in @ : item.index # index}]
        /\ file' = removed /\ UNCHANGED aborted
     \/ /\ ~Pending(d, index) /\ index \notin node[d].del
        /\ node' = [node EXCEPT ![d].del = @ \cup {index}]
        /\ file' = removed /\ UNCHANGED aborted
     \/ /\ ~Pending(d, index) /\ index \in node[d].del
        /\ aborted' = [aborted EXCEPT ![d] = "index"]
        /\ UNCHANGED <<node, file>>
  /\ Counted
  /\ UNCHANGED <<created, placed, counter, items, names, task, history>>

---------------------------------------------------------------------------
(* A delayed node is flushed by workers and by the commit, whatever is going  *)
(* on in the directory: each of them does the insertions, then the deletions, *)
(* in the order of the numbers, with the node unlocked in between.  As one of *)
(* them may be behind another, and items are queued meanwhile, either may be  *)
(* next.  An insertion fails if the tree has its number; what is not in the   *)
(* tree is not deleted.                                                       *)
CanFlush(d) == IF d \in Dirs THEN LocalWrites ELSE aborted[d] = "no"

InsertDelayed(d) ==
  /\ CanFlush(d)
  /\ \E item \in node[d].ins :
       /\ \A other \in node[d].ins : item.index <= other.index
       /\ IF InTree(d, item.index)
          THEN /\ aborted' = [aborted EXCEPT ![d] = "index"]
               /\ UNCHANGED <<items, node>>
          ELSE /\ items' = [items EXCEPT ![d] = @ \cup {item}]
               /\ node' = [node EXCEPT ![d].ins = @ \ {item}]
               /\ UNCHANGED aborted
  /\ UNCHANGED <<created, placed, counter, names, file, task, events, history>>

DeleteDelayed(d) ==
  /\ CanFlush(d)
  /\ \E k \in node[d].del :
       /\ \A other \in node[d].del : k <= other
       /\ items' = [items EXCEPT ![d] = {item \in @ : item.index # k}]
       /\ node' = [node EXCEPT ![d].del = @ \ {k}]
  /\ UNCHANGED <<created, placed, counter, names, aborted, file, task, events, history>>

(* The caches of the VFS.                                                     *)
Lookup(f) ==
  /\ DirFree(DirOf(f)) /\ file[f].linked /\ file[f].dentry = "none"
  /\ file' = [file EXCEPT ![f].dentry = "plain",
                          ![f].cached = IF @ = NoIndex THEN file[f].ref ELSE @]
  /\ UNCHANGED <<created, placed, dirVars, task, events, history>>

DropDentry(f) ==
  /\ DirFree(DirOf(f)) /\ file[f].dentry # "none"
  /\ file' = [file EXCEPT ![f].dentry = "none"]
  /\ UNCHANGED <<created, placed, dirVars, task, events, history>>

EvictInode(f) ==
  /\ file[f].dentry = "none" /\ file[f].cached # NoIndex
  /\ file' = [file EXCEPT ![f].cached = NoIndex]
  /\ UNCHANGED <<created, placed, dirVars, task, events, history>>

(* The inode of a file may outlive that of its directory, and so does the     *)
(* delayed node until it is flushed or when the inode item is queued in it.   *)
EvictDir(d) ==
  /\ DirFree(d) /\ (counter[d] # NotLoaded \/ node[d].cnt # 0)
  /\ \A f \in Files : DirOf(f) = d => file[f].dentry = "none"
  /\ counter' = [counter EXCEPT ![d] = NotLoaded]
  /\ \/ UNCHANGED node
     \/ /\ node[d].ins = {} /\ node[d].del = {}
        /\ node' = [node EXCEPT ![d] = NoNode]
  /\ Counted
  /\ UNCHANGED <<created, placed, items, names, aborted, file, task, history>>

(* The last commit of a mount leaves nothing queued.                          *)
Remount ==
  /\ \A t \in Tasks : task[t].pc = "idle"
  /\ \A d \in Indexed : /\ aborted[d] = "no"
                        /\ node[d] = [NoNode EXCEPT !.cnt = node[d].cnt]
  /\ remounted' = TRUE
  /\ counter' = [d \in Indexed |-> NotLoaded]
  /\ node' = [d \in Indexed |-> NoNode]
  /\ file' = [f \in Files |-> [file[f] EXCEPT !.cached = NoIndex, !.dentry = "none"]]
  /\ Counted
  /\ UNCHANGED <<created, placed, items, names, aborted, task, tainted>>

Work(t) == \/ ReadCount(t) \/ CreateLocal(t) \/ CreateShadow(t) \/ SetIndex(t)
           \/ CountRemote(t) \/ LinkRemote(t) \/ RemoteFails(t)

Next ==
  \/ \E t \in Tasks : \/ Work(t) \/ PathCreate(t)
                      \/ \E f \in Files : CreateCall(t, f) \/ Unlink(t, f)
  \/ \E f \in Files : Lookup(f) \/ DropDentry(f) \/ EvictInode(f)
  \/ \E d \in Indexed : InsertDelayed(d) \/ DeleteDelayed(d)
  \/ \E d \in Dirs : EvictDir(d)
  \/ Remount

Spec == Init /\ [][Next]_vars

---------------------------------------------------------------------------
Entry == [linked : BOOLEAN, ref : 0 .. Width, cached : 0 .. Width,
          dentry : {"none", "plain", "associated"}]
Call == [pc : {"idle", "count", "local", "path", "shadow", "index", "count remote", "link"},
         file : Files \cup {<<>>}, n : 0 .. MaxCreates, index : 0 .. Width]

Item == [index : 0 .. NotLoaded, file : Files]
DelayedNode == [ins : SUBSET Item, del : SUBSET (0 .. Width), cnt : 0 .. NotLoaded]

(* Types of the variables.                                                    *)
NamespaceTypeOK ==
  /\ created \in 0 .. MaxCreates
  /\ placed \in Seq(1 .. MaxCreates)
  /\ counter \in [Indexed -> 0 .. NotLoaded]
  /\ items \in [Indexed -> SUBSET Item]
  /\ node \in [Indexed -> DelayedNode]
  /\ names \in [Roots -> SUBSET Names]
  /\ aborted \in [Indexed -> {"no", "name", "index"}]
  /\ file \in [Files -> Entry]
  /\ task \in [Tasks -> Call]
  /\ events \in 0 .. MaxEvents
  /\ remounted \in BOOLEAN
  /\ tainted \subseteq Indexed

(* An index number is never handed out twice in a directory of partition 0,   *)
(* though two functions count index_cnt up, unlink deletes under other        *)
(* numbers, and the counter is read again after an eviction from the delayed  *)
(* node or a tree with deletions to come: neither an insertion, nor the flush *)
(* of one, nor a deletion finds its number there, and what is queued is above *)
(* all that is in the tree, which is why a flush inserts several items at one *)
(* place (delayed-inode.c:667-674).  This is not so of a directory whose      *)
(* counter was wrapped because a shadow could not be linked, or was read      *)
(* again behind a number that a shadow's unlink has deleted or will delete.   *)
(* Nor is it, within one mount, in a remote root directory as long as all     *)
(* tasks share a current directory, whose lock is the only thing that orders  *)
(* their accesses to the counter of the remote directory, and its counter was *)
(* not read from the tree behind items that were still queued.                *)
IndexFree ==
  /\ \A d \in Dirs \ tainted :
       /\ aborted[d] = "no"
       /\ \A x \in items[d], y \in node[d].ins : x.index < y.index
  /\ (~remounted /\ Cardinality({Cwd[t] : t \in Tasks}) = 1)
       => \A r \in Roots \ tainted : aborted[r] # "index"

(* What is in a directory is found by reading it, before and after any flush: *)
(* unlink of a shadow deletes under a number that is not the shadow's, and    *)
(* the deletion may wait behind later insertions, but it never takes the item *)
(* of another file, unless a file was given a number not past such a number.  *)
Listed(d) == {item \in items[d] : item.index \notin node[d].del} \cup node[d].ins
LinkedIsListed ==
  \A f \in Files : file[f].linked /\ DirOf(f) \notin tainted
     => [index |-> file[f].ref, file |-> f] \in Listed(DirOf(f))

(* Counting and reading the count are two steps, so that creates at the same  *)
(* time may get the same partition; still the rotation is never ahead and     *)
(* lags by no more than the creates of the other tasks.                       *)
SpreadIsBounded ==
  \A v \in 0 .. created - 1 :
    LET lag == v - Cardinality({k \in 1 .. Len(placed) : placed[k] \in 1 .. v})
    IN  lag \in 0 .. Cardinality(Tasks) - 1

(* An index that a directory lists belongs to a file in it.                   *)
ListedIsLinked ==
  \A d \in Dirs : \A item \in Listed(d) : file[item.file].linked
=============================================================================
