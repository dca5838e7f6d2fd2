------------------------------ MODULE MfsMount ------------------------------
(***************************************************************************)
(* Mounting and unmounting a multi-filesystem (super.c).                   *)
(*                                                                         *)
(* One device holds Parts filesystems.  btrfs_mount_root opens them all,   *)
(* the last one first, and keeps the fs_info of each in the array          *)
(* global_fs_info_list, which no lock protects and which is shared by all  *)
(* mounts.  Only the super block of partition 0 is returned to the VFS;    *)
(* the others stay locked (s_umount) as sget returned them.  When          *)
(* partition 0 is unmounted btrfs_kill_super finds it in the array and     *)
(* takes the super blocks of all other entries down.                       *)
(***************************************************************************)
EXTENDS Integers, FiniteSets

CONSTANTS
  Tasks,
  Parts,        \* BTRFS_SUPER_INFO_COUNT
  MaxMounts,    \* bound on the calls of btrfs_mount_root
  MaxFaults,    \* bound on the steps of a mount that fail
  None

ASSUME MountAssumption ==
  /\ Parts \in Nat /\ Parts > 1
  /\ MaxMounts \in Nat /\ MaxFaults \in Nat
  /\ None \notin (1 .. MaxMounts) \X (0 .. (Parts - 1))

Partitions == 0 .. (Parts - 1)
Last == Parts - 1
Ids == (1 .. MaxMounts) \X Partitions  \* what a mount allocates for a partition
PartOf(s) == s[2]

VARIABLES
  list,       \* global_fs_info_list
  info,       \* the fs_infos
  super,      \* the super blocks
  task,
  mounts,     \* calls of btrfs_mount_root so far
  failed,     \* history: the steps of a mount that failed, each with its partition
  overlapped  \* history: a mount began while the device was mounted, or by two

vars == <<list, info, super, task, mounts, failed, overlapped>>

(* sb: written by open_ctree_partition; devices: fs_devices is set.           *)
NoInfo == [state |-> "none", sb |-> None, devices |-> FALSE]
(* state: "locked" while its s_umount is held.                                *)
NoSuper == [state |-> "none", root |-> FALSE, info |-> None]
Idle == [pc |-> "idle", mount |-> 0, part |-> 0, sb |-> None, cur |-> 0]

Init ==
  /\ list = [p \in Partitions |-> None]
  /\ info = [i \in Ids |-> NoInfo]
  /\ super = [s \in Ids |-> NoSuper]
  /\ task = [t \in Tasks |-> Idle]
  /\ mounts = 0
  /\ failed = {}
  /\ overlapped = FALSE

Alive(s) == super[s].state \in {"locked", "free"}
Mounted(s) == super[s].state = "free" /\ PartOf(s) = 0
Stale(p) == list[p] = None \/ info[list[p]].state = "freed"

Goto(t, pc) == task' = [task EXCEPT ![t].pc = pc]
Return(t) == task' = [task EXCEPT ![t] = Idle]
(* Access through a null pointer or to freed memory.                          *)
Oops(t) == /\ Goto(t, "oops")
           /\ UNCHANGED <<list, info, super>>
Failure(where, p) ==
  /\ Cardinality(failed) < MaxFaults
  /\ failed' = failed \cup {<<where, p>>}

---------------------------------------------------------------------------
(* btrfs_mount_root.                                                          *)
MountCall(t) ==
  /\ task[t].pc = "idle" /\ mounts < MaxMounts
  /\ mounts' = mounts + 1
  /\ task' = [task EXCEPT ![t] = [Idle EXCEPT !.pc = "alloc", !.mount = mounts + 1,
                                              !.part = Last]]
  /\ overlapped' = \/ overlapped
                   \/ \E s \in Ids : Mounted(s)
                   \/ \E u \in Tasks \ {t} : task[u].pc # "idle"
  /\ UNCHANGED <<list, info, super, failed>>

Alloc(t) ==
  LET i == <<task[t].mount, task[t].part>> IN
  /\ task[t].pc = "alloc"
  /\ list' = [list EXCEPT ![task[t].part] = i]
  /\ info' = [info EXCEPT ![i].state = "live"]
  /\ Goto(t, "open")
  /\ UNCHANGED <<super, mounts, failed, overlapped>>

(* The array gets the null pointer; partitions opened before stay open.       *)
AllocFails(t) ==
  /\ task[t].pc = "alloc"
  /\ Failure("alloc", task[t].part)
  /\ list' = [list EXCEPT ![task[t].part] = None]
  /\ Return(t)
  /\ UNCHANGED <<info, super, mounts, overlapped>>

(* Finding and opening the devices, for the fs_info then in the array.  On an *)
(* error btrfs_free_fs_info is called with a variable that is still null.     *)
OpenDevices(t) ==
  LET p == task[t].part IN
  /\ task[t].pc = "open"
  /\ IF Stale(p)
     THEN Oops(t)
     ELSE /\ info' = [info EXCEPT ![list[p]].devices = TRUE]
          /\ Goto(t, "sget")
          /\ UNCHANGED <<list, super>>
  /\ UNCHANGED <<mounts, failed, overlapped>>

OpenFails(t) ==
  /\ task[t].pc = "open"
  /\ Failure("open", task[t].part)
  /\ Oops(t)
  /\ UNCHANGED <<mounts, overlapped>>

(* btrfs_test_super on the super blocks there are.                            *)
Matching(p) == {s \in Ids : /\ Alive(s) /\ PartOf(s) = p
                            /\ info[super[s].info].devices /\ info[list[p]].devices}

MutFree(s) == TRUE
Free(s) == super[s].state = "free"

(* The next partition; after the last one the VFS is given the super block    *)
(* and unlocks it.                                                            *)
Advance(t, s, supers) ==
  LET p == task[t].part IN
  IF p = 0
  THEN /\ super' = [supers EXCEPT ![s].state = "free"]
       /\ Return(t)
  ELSE /\ super' = supers
       /\ task' = [task EXCEPT ![t].pc = "alloc", ![t].part = p - 1]

(* sget waits for the lock of one of the super blocks that it finds.  When it *)
(* has one that is mounted the fs_info in the array is freed.                 *)
Sget(t) ==
  LET p == task[t].part  s == <<task[t].mount, p>> IN
  /\ task[t].pc = "sget"
  /\ IF Stale(p)
     THEN Oops(t)
     ELSE /\ UNCHANGED list
          /\ \/ /\ Matching(p) = {}
                /\ super' = [super EXCEPT ![s] = [state |-> "locked", root |-> FALSE,
                                                  info |-> list[p]]]
                /\ Goto(t, "fill")
                /\ UNCHANGED info
             \/ \E old \in Matching(p) :
                /\ Free(old)
                /\ info' = [info EXCEPT ![list[p]].state = "freed"]
                /\ Advance(t, old, [super EXCEPT ![old].state = "locked"])
  /\ UNCHANGED <<mounts, failed, overlapped>>

(* deactivate_locked_super, and the VFS at an unmount, call btrfs_kill_super. *)
KillSuper(t, s) ==
  task' = [task EXCEPT ![t] = [Idle EXCEPT !.pc = "compare", !.sb = s]]

(* btrfs_fill_super_partition.  Its first step leaves sb of the fs_info null. *)
Fill(t) ==
  LET s == <<task[t].mount, task[t].part>> IN
  /\ task[t].pc = "fill"
  /\ IF Alive(s)
     THEN /\ info' = [info EXCEPT ![super[s].info].sb = s]
          /\ Advance(t, s, [super EXCEPT ![s].root = TRUE])
          /\ UNCHANGED list
     ELSE Oops(t)
  /\ UNCHANGED <<mounts, failed, overlapped>>

SetupBdiFails(t) ==
  LET s == <<task[t].mount, task[t].part>> IN
  /\ task[t].pc = "fill" /\ Alive(s)
  /\ Failure("bdi", task[t].part)
  /\ KillSuper(t, s)
  /\ UNCHANGED <<list, info, super, mounts, overlapped>>

MutOpenCtreeFails(t) ==
  LET s == <<task[t].mount, task[t].part>> IN
  /\ task[t].pc = "fill" /\ Alive(s)
  /\ Failure("fill", task[t].part)
  /\ info' = [info EXCEPT ![super[s].info].sb = s]
  /\ Advance(t, s, super)
  /\ UNCHANGED <<list, mounts, overlapped>>

OpenCtreeFails(t) ==
  LET s == <<task[t].mount, task[t].part>> IN
  /\ task[t].pc = "fill" /\ Alive(s)
  /\ Failure("fill", task[t].part)
  /\ info' = [info EXCEPT ![super[s].info].sb = s]
  /\ KillSuper(t, s)
  /\ UNCHANGED <<list, super, mounts, overlapped>>

---------------------------------------------------------------------------
Unmount(t, s) ==
  /\ task[t].pc = "idle" /\ Mounted(s)
  /\ super' = [super EXCEPT ![s].state = "locked"]
  /\ KillSuper(t, s)
  /\ UNCHANGED <<list, info, mounts, failed, overlapped>>

(* The bounds of the loop of btrfs_umount_multiple.                           *)
MutUmountFrom == Last - 1
UmountFrom == Last
MutUmountTo == -1
UmountTo == 0

(* The loop of btrfs_kill_super, one entry of the array at a time.            *)
Compare(t) ==
  LET c == task[t].cur IN
  /\ task[t].pc = "compare" /\ c < Parts
  /\ IF Stale(c)
     THEN Oops(t)
     ELSE /\ task' = IF info[list[c]].sb = task[t].sb
                     THEN [task EXCEPT ![t].pc = "umount", ![t].part = UmountFrom]
                     ELSE [task EXCEPT ![t].cur = c + 1]
          /\ UNCHANGED <<list, info, super>>
  /\ UNCHANGED <<mounts, failed, overlapped>>

(* btrfs_deactivate_locked_super.  The fs_info is not freed.                  *)
Deactivated(s) == /\ super' = [super EXCEPT ![s].state = "dead"]
                  /\ UNCHANGED info

(* The loop of btrfs_umount_multiple.                                         *)
UmountMultiple(t) ==
  LET q == task[t].part
      s == info[list[q]].sb
      next == IF q = UmountTo
              THEN [task EXCEPT ![t].pc = "compare", ![t].cur = @ + 1]
              ELSE [task EXCEPT ![t].part = q - 1] IN
  /\ task[t].pc = "umount"
  /\ CASE Stale(q) -> Oops(t)
       [] ~Stale(q) /\ q = task[t].cur ->
            /\ task' = next
            /\ UNCHANGED <<list, info, super>>
       [] ~Stale(q) /\ q # task[t].cur /\ (s = None \/ ~Alive(s)) -> Oops(t)
       [] OTHER ->
            /\ Deactivated(s)
            /\ task' = next
            /\ UNCHANGED list
  /\ UNCHANGED <<mounts, failed, overlapped>>

(* kill_anon_super and btrfs_free_fs_info.                                    *)
Killed(t) ==
  LET s == task[t].sb IN
  /\ task[t].pc = "compare" /\ task[t].cur = Parts
  /\ IF Alive(s)
     THEN /\ super' = [super EXCEPT ![s].state = "dead"]
          /\ info' = [info EXCEPT ![super[s].info].state = "freed"]
          /\ Return(t)
          /\ UNCHANGED list
     ELSE Oops(t)
  /\ UNCHANGED <<mounts, failed, overlapped>>

Next == \E t \in Tasks :
  \/ MountCall(t) \/ Alloc(t) \/ AllocFails(t) \/ OpenDevices(t) \/ OpenFails(t)
  \/ Sget(t) \/ Fill(t) \/ SetupBdiFails(t) \/ OpenCtreeFails(t)
  \/ Compare(t) \/ UmountMultiple(t) \/ Killed(t)
  \/ \E s \in Ids : Unmount(t, s)

Spec == Init /\ [][Next]_vars

---------------------------------------------------------------------------
(* Types of the variables.                                                    *)
MountTypeOK ==
  /\ list \in [Partitions -> Ids \cup {None}]
  /\ \A p \in Partitions : list[p] # None => list[p][2] = p
  /\ info \in [Ids -> [state : {"none", "live", "freed"}, sb : Ids \cup {None},
                       devices : BOOLEAN]]
  /\ super \in [Ids -> [state : {"none", "locked", "free", "dead"}, root : BOOLEAN,
                        info : Ids \cup {None}]]
  /\ task \in [Tasks ->
       [pc : {"idle", "alloc", "open", "sget", "fill", "compare", "umount", "oops"},
        mount : 0 .. MaxMounts, part : Partitions, sb : Ids \cup {None}, cur : 0 .. Parts]]
  /\ mounts \in 0 .. MaxMounts
  /\ failed \subseteq {"alloc", "open", "bdi", "fill"} \X Partitions
  /\ overlapped \in BOOLEAN

(* No three tasks mount or unmount.                                           *)
TwoTasks == \A t, u, v \in Tasks : t = u \/ u = v \/ v = t

(* The fs_info a super block points to is not freed while the super block is  *)
(* in use, however the mounts and unmounts of two tasks interleave and fail:  *)
(* the branch of btrfs_mount_root that frees an entry of the array without    *)
(* looking whose it is runs only if the entry is still the one that its own   *)
(* iteration allocated, as the locked super blocks of the other partitions    *)
(* let only one mount past the last one.  (A third task can take the fs_info  *)
(* that another one is about to use, and fail.)                               *)
InfoOutlivesSuper ==
  TwoTasks =>
    \A s \in Ids : Alive(s) => info[super[s].info].state = "live"

(* Only the opening of partition 0 has failed, and no mount overlapped.       *)
Orderly == ~overlapped /\ failed \subseteq {<<"fill", 0>>}

(* While partition 0 is mounted every entry of the array, which creates and   *)
(* lookups follow without a check, is the fs_info of a mounted super block of *)
(* that partition, also after earlier mounts and unmounts left stale entries; *)
(* and a stale entry, which every unmount leaves, is never followed, as a     *)
(* mount replaces each of them before its cleanup can look at it.             *)
ListIsMounted ==
  Orderly =>
    /\ \A t \in Tasks : task[t].pc # "oops"
    /\ \A s \in Ids : Mounted(s) => \A p \in Partitions :
         /\ ~Stale(p)
         /\ LET sb == info[list[p]].sb IN
              /\ sb # None /\ Alive(sb) /\ super[sb].root
              /\ PartOf(sb) = p /\ super[sb].info = list[p]

(* Neither an unmount nor the cleanup after partition 0 could not be opened   *)
(* leaves a super block of another partition behind.                          *)
NothingLeft ==
  (Orderly /\ \A t \in Tasks : task[t].pc = "idle")
     => \A s \in Ids : Alive(s) => \E r \in Ids : Mounted(r)
=============================================================================
