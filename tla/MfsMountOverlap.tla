--------------------------- MODULE MfsMountOverlap ---------------------------
(***************************************************************************)
(* What holds of two tasks that mount and unmount at the same time.        *)
(*                                                                         *)
(* Entry p of global_fs_info_list is the fs_info of the mount that wrote   *)
(* it last.  btrfs_mount_root follows the entry after other tasks could    *)
(* have replaced it, so what it frees or hands to sget need not be its     *)
(* own.  That nothing in use is freed is due to the super blocks of the    *)
(* other partitions, which stay locked: only one task at a time gets past  *)
(* the last partition, and while it is there the other one can only wait   *)
(* in btrfs_mount_root or take the mount down that came before.            *)
(*                                                                         *)
(* Base relates the fs_infos, the super blocks and the place of each task. *)
(* Order(t, u) says how far t has come with its mount and u with an        *)
(* unmount, as long as neither is stuck.  Overlap is inductive.            *)
(***************************************************************************)
EXTENDS MfsMount

Id(m, q) == <<m, q>>
MountOf(s) == s[1]
(* The partition that is opened after the last one.                        *)
K == Last - 1

-----------------------------------------------------------------------------

(* In btrfs_mount_root; past the last partition, whose super block is made; *)
(* before that; and in btrfs_kill_super.                                    *)
Opening(t) == task[t].pc \in {"alloc", "open", "sget", "fill"}
Beyond(t) == Opening(t) /\ (task[t].part < Last \/ task[t].pc = "fill")
Early(t) == task[t].pc \in {"open", "sget"} /\ task[t].part = Last
Closing(t) == task[t].pc \in {"compare", "umount"}

(* The mount that a task makes or takes down. *)
Own(t) == IF Opening(t) THEN task[t].mount ELSE task[t].sb[1]
Level(t) == PartOf(task[t].sb)

(* A task that will not return. *)
Gone(t) == task[t].pc = "oops" \/ (Closing(t) /\ ~Alive(task[t].sb))

Unused(i) == \A s \in Ids : Alive(s) => super[s].info # i

(* A super block and the fs_info that it points to.                         *)
SuperKnown == \A s \in Ids : super[s].state # "none" =>
  super[s].info \in Ids /\ super[s].info[2] = s[2]
SuperNew == \A s \in Ids : super[s].state = "none" => super[s].info = None
FirstFree == \A s \in Ids : super[s].state = "free" => s[2] = 0
ListKnown == \A p \in Partitions : list[p] # None =>
  list[p] \in Ids /\ list[p][2] = p /\ info[list[p]].state # "none"
InfoNew == \A i \in Ids : info[i].state = "none" => info[i].sb = None /\ ~info[i].devices
SbKnown == \A i \in Ids : info[i].sb # None =>
  info[i].sb \in Ids /\ super[info[i].sb].info = i

(* The fs_info of a super block in use has not been freed.                  *)
Kept == \A s \in Ids : Alive(s) => info[super[s].info].state = "live"

(* No two super blocks in use share an fs_info.                             *)
Apart == \A s, r \in Ids :
  Alive(s) /\ Alive(r) /\ super[s].info = super[r].info => s = r

(* What the mounts have not made yet.                                       *)
Unmade == \A i \in Ids : i[1] > mounts => info[i].state = "none" /\ super[i].state = "none"
MountNew == \A t \in Tasks : Opening(t) => task[t].mount <= mounts
InfosAhead == \A t \in Tasks, q \in Partitions :
  Opening(t) /\ (q < task[t].part \/ (q = task[t].part /\ task[t].pc = "alloc"))
    => info[Id(task[t].mount, q)].state = "none"
SupersAhead == \A t \in Tasks, q \in Partitions :
  Opening(t) /\ (q < task[t].part \/ (q = task[t].part /\ task[t].pc # "fill"))
    => super[Id(task[t].mount, q)].state = "none"

(* The mounts that tasks make and take down.                                *)
Closed == \A t \in Tasks : Closing(t) =>
  task[t].sb \in Ids /\ super[task[t].sb].state \in {"locked", "dead"}
AtOwn == \A t \in Tasks : task[t].pc = "umount" => task[t].cur = Level(t)
OwnApart == \A t, u \in Tasks :
  (Opening(t) \/ Closing(t)) /\ (Opening(u) \/ Closing(u)) /\ Own(t) = Own(u) => t = u
OwnBusy == \A t \in Tasks, x \in Ids :
  (Opening(t) \/ Closing(t)) /\ super[x].state = "free" => Own(t) # x[1]

(* In btrfs_fill_super_partition the super block is locked and no fs_info   *)
(* knows it.                                                                *)
FillLocked == \A t \in Tasks : task[t].pc = "fill" =>
  super[Id(task[t].mount, task[t].part)].state = "locked"
FillUnknown == \A t \in Tasks, i \in Ids : task[t].pc = "fill" =>
  info[i].sb # Id(task[t].mount, task[t].part)

(* The entry that a task hands to sget lost its devices to another one only *)
(* if that one has yet to open them, and no super block uses it.            *)
OpenedBy == \A t \in Tasks :
  task[t].pc = "sget" /\ ~Stale(task[t].part) /\ ~info[list[task[t].part]].devices
    => \E u \in Tasks : task[u].pc = "oops"
                        \/ (task[u].pc = "open" /\ task[u].part = task[t].part)
OpenedUnused == \A t \in Tasks :
  task[t].pc = "sget" /\ ~Stale(task[t].part) /\ ~info[list[task[t].part]].devices
    => Unused(list[task[t].part])

(* Past the last partition the entry is the task's own.                     *)
MineListed == \A t \in Tasks :
  task[t].pc \in {"open", "sget"} /\ task[t].part < Last =>
    LET i == Id(task[t].mount, task[t].part) IN
    /\ list[task[t].part] = i
    /\ info[i].state = "live"
    /\ task[t].pc = "sget" => info[i].devices
MineUnused == \A t \in Tasks :
  task[t].pc \in {"open", "sget"} /\ task[t].part < Last =>
    Unused(Id(task[t].mount, task[t].part))

(* Only one task is past the last partition. *)
OneOf(t, u) == Beyond(t) /\ Beyond(u) => t = u
OneBeyond == \A t, u \in Tasks : OneOf(t, u)

(* The devices of a super block of an earlier partition are set: sget      *)
(* finds it.                                                               *)
Seen == \A s \in Ids : Alive(s) /\ PartOf(s) < Last => info[super[s].info].devices

Base ==
  /\ SuperKnown /\ SuperNew /\ FirstFree /\ ListKnown
  /\ InfoNew /\ SbKnown /\ Kept /\ Apart
  /\ Unmade /\ MountNew /\ InfosAhead /\ SupersAhead
  /\ Closed /\ AtOwn /\ OwnApart /\ OwnBusy
  /\ FillLocked /\ FillUnknown /\ OpenedBy /\ OpenedUnused
  /\ MineListed /\ MineUnused /\ OneBeyond /\ Seen

-----------------------------------------------------------------------------
Living == {s \in Ids : Alive(s)}
Returned == {s \in Ids : super[s].state = "free"}

(* The mounts whose super block of the last partition another mount finds. *)
Found == {y \in 1 .. MaxMounts :
  LET s == Id(y, Last) IN
  /\ Alive(s)
  /\ \/ info[super[s].info].devices
     \/ /\ list[Last] = super[s].info
        /\ \E v \in Tasks : task[v].pc = "open" /\ task[v].part = Last}

(* The super blocks that the array leads to; the entries of the last two   *)
(* partitions.                                                             *)
Armed == {s \in Ids : /\ list[PartOf(s)] # None
                      /\ info[list[PartOf(s)]].state = "live" /\ info[list[PartOf(s)]].sb = s}
Sterile == list[K] = None \/ info[list[K]].sb = None
LastStale == Stale(Last)
AtLast == {s \in Ids : super[s].info = list[Last]}

(* A mount has not come down to partition c.                                *)
Above(t, c) == Opening(t) =>
  task[t].part > c \/ (task[t].part = c /\ task[t].pc # "fill")

(* An unmount of partition p before it takes the first super block down,    *)
(* and while it takes those down that are above p.                          *)
Starting(u) == /\ Closing(u) /\ Level(u) < Last
               /\ \/ task[u].pc = "compare" /\ task[u].cur <= Level(u) /\ task[u].sb \in Armed
                  \/ task[u].pc = "umount" /\ task[u].part = Last
Amid(u) == task[u].pc = "umount" /\ task[u].part < Last /\ task[u].part > Level(u)
Taking(u) == Starting(u) \/ Amid(u)
Cut(t, u) == task[t].pc = "umount" /\ Level(t) > Level(u)
Chain(u, l) == \A q \in Partitions : Level(u) < q /\ q <= l => Id(MountOf(task[u].sb), q) \in Living

(* A mount past the last partition keeps others out.                        *)
FoundBeyond(t) ==
  Beyond(t) /\ Id(task[t].mount, Last) \in Living => task[t].mount \in Found
FoundClosing(t) == Closing(t) /\ Level(t) = Last => MountOf(task[t].sb) \in Found

(* Or an unmount has just taken its last partition away.                    *)
LastLost(t, u) ==
  Beyond(t) /\ Id(task[t].mount, Last) \notin Living =>
    /\ u # t /\ task[u].pc = "umount" /\ task[u].part = K /\ K > 0 /\ Level(u) = 0
    /\ Sterile /\ Id(MountOf(task[u].sb), K) \in Living

(* The partitions that the mount has opened are there.                      *)
Rising(t) == \A q \in Partitions :
  Beyond(t) /\ task[t].part < q /\ q < Last => Id(task[t].mount, q) \in Living

(* What an unmount takes down is not what a mount opens.                    *)
Lower(t, u) == t # u /\ Closing(u) => Above(t, Level(u))

Aimed(u) == Taking(u) => task[u].sb \in Armed

(* Before an unmount begins, and while it goes down.                        *)
StartChain(t, u) == t # u /\ Starting(u) /\ ~Cut(t, u) => Chain(u, K)
StartQuiet(t, u) == t # u /\ Starting(u) /\ ~Cut(t, u) =>
  \/ MountOf(task[u].sb) \in Found /\ ~Beyond(t)
  \/ Level(u) = 0 /\ K > 0 /\ Sterile /\ Above(t, K)
  \/ Level(u) = 0 /\ Early(t) /\ LastStale

MiddleChain(t, u) == t # u /\ Amid(u) /\ ~Cut(t, u) => Chain(u, task[u].part)
MiddleAbove(t, u) == t # u /\ Amid(u) /\ ~Cut(t, u) => Above(t, task[u].part)

(* Two unmounts.                                                            *)
CrossAt(t, u) ==
  t # u /\ Taking(u) /\ task[t].pc = "umount" /\ Level(t) > Level(u)
    => task[t].part >= Level(u)
CrossAmid(t, u) ==
  t # u /\ Taking(u) /\ Closing(t) /\ Level(t) > Level(u) /\ Level(t) < Last
  /\ (Starting(t) \/ task[t].pc = "umount") => Amid(u) /\ task[u].part < Level(t)

(* No mount completes while another one is mounted.                         *)
NoFirst(t) == \A x \in Returned : ~(task[t].pc = "fill" /\ task[t].part = 0)

(* A mounted super block that the array leads to: its unmount will begin.   *)
Untaken(t) == ~(task[t].pc = "umount" /\ Level(t) = Last)
Led(x, t, u) == x \in Returned /\ x \in Armed /\ Untaken(t) /\ Untaken(u)

LedIntact(t, u) == \A x \in Ids, q \in Partitions :
  Led(x, t, u) /\ q < Last => Id(MountOf(x), q) \in Living
LedBeyond(t, u) == \A x \in Ids : Led(x, t, u) /\ Beyond(t) =>
  task[t].part = Last \/ (task[t].part = K /\ task[t].pc # "fill")
LedClosing(t, u) == \A x \in Ids : Led(x, t, u) /\ Closing(t) =>
  Level(t) = Last \/ (Level(t) = 0 /\ task[t].pc = "compare")

(* While b waits for the last partition a has taken it, or gives it up.    *)
Waiting(a, b) == a # b /\ Early(b) /\
  \/ Early(a)
  \/ Beyond(a) /\ (task[a].part = Last => Id(task[a].mount, Last) \in AtLast)
  \/ task[a].pc = "compare" /\ Level(a) = Last /\ task[a].sb \in AtLast
  \/ LastStale /\ \/ task[a].pc = "idle"
                  \/ task[a].pc = "alloc" /\ task[a].part = Last
                  \/ task[a].pc = "compare" /\ task[a].cur <= Last
LedQuiet(t, u) == \A x \in Ids : Led(x, t, u) =>
  \/ MountOf(x) \in Found /\ ~Beyond(t) /\ ~Beyond(u)
  \/ K > 0 /\ Sterile
  \/ Waiting(t, u) \/ Waiting(u, t)

Order(t, u) ==
  /\ FoundBeyond(t) /\ FoundClosing(t) /\ LastLost(t, u)
  /\ Rising(t) /\ Lower(t, u) /\ Aimed(u)
  /\ StartChain(t, u) /\ StartQuiet(t, u) /\ MiddleChain(t, u)
  /\ MiddleAbove(t, u) /\ CrossAt(t, u) /\ CrossAmid(t, u)
  /\ NoFirst(t) /\ LedIntact(t, u) /\ LedBeyond(t, u)
  /\ LedClosing(t, u) /\ LedQuiet(t, u)

(* With no third task, and none that is stuck.                             *)
Overlap ==
  /\ Base
  /\ (\A v \in Tasks : ~Gone(v)) =>
       \A t, u \in Tasks : (\A v \in Tasks : v = t \/ v = u) => Order(t, u)
=============================================================================
