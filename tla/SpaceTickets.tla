---------------------------- MODULE SpaceTickets ----------------------------
(***************************************************************************)
(* Reserving space (space-info.c): the tickets of one space_info.          *)
(*                                                                         *)
(* A reservation that fits is taken at once.  Otherwise a ticket is queued *)
(* and somebody flushes: the tasks of the normal queue sleep while one     *)
(* worker flushes for them, those of the priority queue flush themselves.  *)
(* Whoever frees space grants the tickets it covers, in order.             *)
(*                                                                         *)
(* Every action but the flushes runs under space_info->lock; only          *)
(* maybe_fail_all_tickets, which may take several steps, shows it.         *)
(***************************************************************************)
EXTENDS Integers, Sequences, FiniteSets, FiniteSetsExt, SequencesExt

CONSTANTS
  Tasks,
  Kinds,         \* the space_infos that are tried, among "metadata" and "data"
  Sizes,         \* the bytes a task may ask for
  Total, MaxTotal, Chunk,  \* bytes at first, at most, and added with a chunk
  GlobalSize,    \* size of the global block reserve
  MaxRequests,   \* bound on the reservations
  Killable, Abortable  \* tasks may be killed, the filesystem may abort

ASSUME SpaceAssumption ==
  /\ IsFiniteSet(Tasks)
  /\ Kinds \subseteq {"metadata", "data"}
  /\ Sizes \subseteq Nat \ {0}
  /\ Total \in Nat /\ MaxTotal \in Nat /\ Total <= MaxTotal /\ Chunk \in Nat \ {0}
  /\ GlobalSize \in 0 .. Total
  /\ MaxRequests \in Nat
  /\ Killable \in BOOLEAN /\ Abortable \in BOOLEAN

VARIABLES
  kind,       \* the block group type of the space_info
  space,      \* struct btrfs_space_info
  ticket,     \* the struct reserve_ticket of each task
  task,
  worker,     \* async_reclaim_work or async_data_reclaim_work
  progress,   \* tickets_id differs from last_tickets_id of the worker
  dirty,      \* bytes reserved by delayed items and delalloc
  global,     \* global_block_rsv.reserved
  aborted,    \* BTRFS_FS_ERROR
  requests,   \* the reservations so far
  untried     \* history: the head of a queue left, the next was not tried

queueVars == <<space, ticket, progress, untried>>
vars == <<kind, queueVars, task, worker, dirty, global, aborted, requests>>

Normal == {"FLUSH_ALL", "FLUSH_ALL_STEAL"}
Flushes == IF kind = "data"
           THEN {"NO_FLUSH", "FLUSH_DATA", "FLUSH_FREE_SPACE_INODE"}
           ELSE {"NO_FLUSH", "FLUSH_EMERGENCY", "FLUSH_LIMIT", "FLUSH_EVICT"} \cup Normal

(* enum btrfs_flush_state and the states the flushers go through.             *)
ITEMS_NR == 1
DELALLOC_FULL == 7
ALLOC_CHUNK == 8
ALLOC_CHUNK_FORCE == 9
COMMIT_TRANS == 11
DataStates == <<7, 10, 11, 9>>
PriorityStates(flush) == CASE flush = "FLUSH_LIMIT" -> <<1, 2, 8>>
                           [] flush = "FLUSH_EVICT" -> <<1, 2, 3, 4, 5, 6, 7, 8, 11>>
                           [] OTHER -> <<>>

NoTicket == [bytes |-> 0, want |-> 0, error |-> "no", steal |-> FALSE]
Idle == [pc |-> "idle", flush |-> "NO_FLUSH", step |-> 0]
Off == [pc |-> "off", state |-> 0, cycles |-> 0, made |-> FALSE]

Init ==
  /\ kind \in Kinds
  /\ global = IF kind = "metadata" THEN GlobalSize ELSE 0
  /\ space = [total |-> Total, pinned |-> 0, may_use |-> global, full |-> FALSE,
              flush |-> FALSE, reclaim |-> 0, tickets |-> <<>>, priority |-> <<>>]
  /\ ticket = [t \in Tasks |-> NoTicket]
  /\ task = [t \in Tasks |-> Idle]
  /\ worker = Off
  /\ progress = FALSE
  /\ dirty = 0
  /\ aborted = FALSE
  /\ requests = 0
  /\ untried = FALSE

---------------------------------------------------------------------------
Used(sp) == sp.pinned + sp.may_use
Avail(sp, flush) == (MaxTotal - sp.total) \div (IF flush = "FLUSH_ALL" THEN 8 ELSE 2)

CanOvercommit(sp, used, bytes, flush) ==
  kind = "metadata" /\ used + bytes < sp.total + Avail(sp, flush)
Fits(sp, used, bytes, flush) ==
  used + bytes <= sp.total \/ CanOvercommit(sp, used, bytes, flush)

(* The bytes that f gives to the members of S, counted one by one.            *)
Bytes(f, S) == Cardinality(UNION {{x} \X (1 .. f[x]) : x \in S})
BytesOf(tk, q) == Bytes([t \in Tasks |-> tk[t].bytes], ToSet(q))
(* The longest prefix of a queue that fits.                                   *)
Covered(sp, tk, q, used, flush) ==
  SubSeq(q, 1, Max({n \in 0 .. Len(q) : \A i \in 1 .. n :
    Fits(sp, used + BytesOf(tk, SubSeq(q, 1, i - 1)), tk[q[i]].bytes, flush)}))

(* btrfs_try_granting_tickets.                                                *)
Granted(sp, tk) ==
  LET first  == Covered(sp, tk, sp.priority, Used(sp), "NO_FLUSH")
      second == Covered(sp, tk, sp.tickets, Used(sp) + BytesOf(tk, first), "FLUSH_ALL")
      bytes  == BytesOf(tk, first \o second)
      won    == ToSet(first \o second) IN
  [sp |-> [sp EXCEPT !.may_use = @ + bytes,
                     !.reclaim = @ - bytes,
                     !.priority = SubSeq(@, Len(first) + 1, Len(@)),
                     !.tickets = SubSeq(@, Len(second) + 1, Len(@))],
   tk |-> [t \in Tasks |-> IF t \in won THEN [tk[t] EXCEPT !.bytes = 0] ELSE tk[t]],
   any |-> won # {}]

TryGranting(sp, tk) ==
  LET g == Granted(sp, tk) IN
  /\ space' = g.sp
  /\ ticket' = g.tk
  /\ progress' = (progress \/ g.any)
  /\ untried' = FALSE

(* remove_ticket.                                                             *)
Without(q, t) ==
  IF t \in ToSet(q) THEN RemoveAt(q, CHOOSE i \in DOMAIN q : q[i] = t) ELSE q
Removed(sp, t) ==
  IF t \in ToSet(sp.tickets) \cup ToSet(sp.priority)
  THEN [sp EXCEPT !.reclaim = @ - ticket[t].bytes,
                  !.tickets = Without(@, t), !.priority = Without(@, t)]
  ELSE sp

CanSteal(t) == kind = "metadata" /\ ticket[t].steal /\ global >= ticket[t].bytes
(* steal_from_global_rsv: the bytes stay in bytes_may_use.                    *)
Stolen(t) == [ticket EXCEPT ![t].bytes = 0]

Unlocked == worker.pc # "fail"

---------------------------------------------------------------------------
(* __reserve_bytes.                                                           *)
PendingTickets(flush) ==
  \/ space.priority # <<>>
  \/ flush \in Normal \cup {"NO_FLUSH"} /\ space.tickets # <<>>

ReservedAtOnce(flush, bytes) ==
  \/ ~PendingTickets(flush) /\ Fits(space, Used(space), bytes, flush)
  \/ flush = "FLUSH_EMERGENCY" /\ space.pinned + bytes <= space.total

ReserveNow(t, flush, bytes) ==
  /\ ReservedAtOnce(flush, bytes)
  /\ space' = [space EXCEPT !.may_use = @ + bytes]
  /\ ticket' = [ticket EXCEPT ![t] = [NoTicket EXCEPT !.want = bytes]]
  /\ task' = [task EXCEPT ![t].pc = "held"]
  /\ UNCHANGED worker

ReserveFails(t, flush, bytes) ==
  /\ ~ReservedAtOnce(flush, bytes)
  /\ flush \in {"NO_FLUSH", "FLUSH_EMERGENCY"}
  /\ UNCHANGED <<space, ticket, task, worker>>

ReserveTicket(t, flush, bytes) ==
  LET waits == flush \in Normal \cup {"FLUSH_DATA"} IN
  /\ ~ReservedAtOnce(flush, bytes)
  /\ flush \notin {"NO_FLUSH", "FLUSH_EMERGENCY"}
  /\ ticket' = [ticket EXCEPT ![t] =
       [bytes |-> bytes, want |-> bytes, error |-> "no",
        steal |-> flush \in {"FLUSH_ALL_STEAL", "FLUSH_EVICT"}]]
  /\ space' = [space EXCEPT !.reclaim = @ + bytes,
                            !.tickets = IF waits THEN Append(@, t) ELSE @,
                            !.priority = IF waits THEN @ ELSE Append(@, t),
                            !.flush = waits \/ @]
  /\ worker' = IF waits /\ ~space.flush THEN [Off EXCEPT !.pc = "queued"] ELSE worker
  /\ task' = [task EXCEPT ![t] = [pc |-> IF waits THEN "wait" ELSE "reclaim",
                                  flush |-> flush, step |-> 0]]

Reserve(t, flush, bytes) ==
  /\ Unlocked /\ task[t].pc = "idle" /\ requests < MaxRequests
  /\ requests' = requests + 1
  /\ \/ ReserveNow(t, flush, bytes)
     \/ ReserveFails(t, flush, bytes)
     \/ ReserveTicket(t, flush, bytes)
  /\ UNCHANGED <<kind, progress, untried, dirty, global, aborted>>

(* The end of handle_reserve_ticket.                                          *)
MutAnswered(t) == ticket[t].bytes = 0
Answered(t) == ticket[t].bytes = 0 \/ ticket[t].error # "no"
Answer(t) ==
  task' = [task EXCEPT ![t] = [Idle EXCEPT !.pc = IF ticket'[t].error = "no"
                                                  THEN "held" ELSE "idle"]]

WaitReserveTicket(t) ==
  /\ Unlocked /\ task[t].pc = "wait" /\ Answered(t)
  /\ UNCHANGED queueVars
  /\ Answer(t)
  /\ UNCHANGED <<kind, worker, dirty, global, aborted, requests>>

Killed(t) ==
  /\ Killable /\ Unlocked /\ task[t].pc = "wait" /\ ~Answered(t)
  /\ space' = Removed(space, t)
  /\ ticket' = [ticket EXCEPT ![t].error = "EINTR"]
  /\ untried' = (untried \/ space.tickets[1] = t)
  /\ Answer(t)
  /\ UNCHANGED <<kind, worker, progress, dirty, global, aborted, requests>>

(* The holder gives the bytes back, leaves them to delayed work, or turns     *)
(* them into an extent that is freed when the transaction commits.            *)
Finish(t) ==
  LET bytes == ticket[t].want
      returned == [space EXCEPT !.may_use = @ - bytes] IN
  /\ Unlocked /\ task[t].pc = "held"
  /\ \/ /\ TryGranting(returned, [ticket EXCEPT ![t] = NoTicket])
        /\ UNCHANGED dirty
     \/ /\ dirty' = dirty + bytes
        /\ ticket' = [ticket EXCEPT ![t] = NoTicket]
        /\ UNCHANGED <<space, progress, untried>>
  /\ task' = [task EXCEPT ![t] = Idle]
  /\ UNCHANGED <<kind, worker, global, aborted, requests>>

---------------------------------------------------------------------------
(* flush_space.  Delayed work returns its bytes, or frees extents with them;  *)
(* a commit unpins those and fills the global reserve up first.               *)
MutReclaim ==
  /\ dirty > 0
  /\ \/ TryGranting([space EXCEPT !.may_use = @ - dirty], ticket)
     \/ /\ space' = [space EXCEPT !.may_use = @ - dirty, !.pinned = @ + dirty]
        /\ UNCHANGED <<ticket, progress, untried>>
  /\ UNCHANGED <<dirty, global>>

Reclaim ==
  /\ dirty > 0 /\ dirty' = 0
  /\ \/ TryGranting([space EXCEPT !.may_use = @ - dirty], ticket)
     \/ /\ space' = [space EXCEPT !.may_use = @ - dirty, !.pinned = @ + dirty]
        /\ UNCHANGED <<ticket, progress, untried>>
  /\ UNCHANGED global

ChunkAlloc ==
  /\ ~aborted
  /\ IF space.total + Chunk <= MaxTotal
     THEN TryGranting([space EXCEPT !.total = @ + Chunk, !.full = FALSE], ticket)
     ELSE /\ space' = [space EXCEPT !.full = TRUE]
          /\ UNCHANGED <<ticket, progress, untried>>
  /\ UNCHANGED <<dirty, global>>

MutRefill == IF kind = "metadata" THEN Min({space.pinned, GlobalSize}) ELSE 0
Refill == IF kind = "metadata" THEN Min({space.pinned, GlobalSize - global}) ELSE 0

Commit ==
  LET refill == Refill
      unpinned == [space EXCEPT !.pinned = 0, !.may_use = @ + refill] IN
  /\ ~aborted /\ space.pinned > 0
  /\ global' = global + refill
  /\ IF refill < space.pinned
     THEN TryGranting(unpinned, ticket)
     ELSE /\ space' = unpinned
          /\ UNCHANGED <<ticket, progress, untried>>
  /\ UNCHANGED dirty

FlushSpace(state) ==
  \/ state = COMMIT_TRANS /\ Commit
  \/ state \in {ALLOC_CHUNK, ALLOC_CHUNK_FORCE} /\ ChunkAlloc
  \/ state \notin {ALLOC_CHUNK, ALLOC_CHUNK_FORCE, COMMIT_TRANS} /\ Reclaim
  \/ /\ state = ALLOC_CHUNK_FORCE => aborted
     /\ UNCHANGED <<queueVars, dirty, global>>

(* Flushing by others: commits, writeback, the preemptive reclaim.            *)
OtherFlush ==
  /\ Unlocked
  /\ Reclaim \/ Commit
  /\ UNCHANGED <<kind, task, worker, aborted, requests>>

Abort ==
  /\ Abortable /\ Unlocked /\ ~aborted /\ aborted' = TRUE
  /\ UNCHANGED <<kind, queueVars, task, worker, dirty, global, requests>>

---------------------------------------------------------------------------
(* priority_reclaim_metadata_space and priority_reclaim_data_space: a look at *)
(* the ticket under the lock, then a flush without it.                        *)
More(t) == IF kind = "data" THEN ~space.full
           ELSE task[t].step < Len(PriorityStates(task[t].flush))

PriorityGranted(t) ==
  /\ Unlocked /\ task[t].pc = "reclaim" /\ ticket[t].bytes = 0
  /\ UNCHANGED queueVars
  /\ Answer(t)
  /\ UNCHANGED <<kind, worker, dirty, global, aborted, requests>>

PriorityNext(t) ==
  /\ Unlocked /\ task[t].pc = "reclaim" /\ ticket[t].bytes > 0 /\ More(t)
  /\ task' = [task EXCEPT ![t].pc = "flush",
                          ![t].step = IF kind = "data" THEN @ ELSE @ + 1]
  /\ UNCHANGED <<kind, queueVars, worker, dirty, global, aborted, requests>>

PriorityFlush(t) ==
  /\ Unlocked /\ task[t].pc = "flush"
  /\ FlushSpace(IF kind = "data" THEN ALLOC_CHUNK_FORCE
                ELSE PriorityStates(task[t].flush)[task[t].step])
  /\ task' = [task EXCEPT ![t].pc = "reclaim"]
  /\ UNCHANGED <<kind, worker, aborted, requests>>

MutPriorityEnds(t) ==
  /\ Unlocked /\ task[t].pc = "reclaim" /\ ticket[t].bytes > 0 /\ ~More(t)
  /\ space' = Removed(space, t)
  /\ ticket' = [ticket EXCEPT ![t].error = "ENOSPC"]
  /\ Answer(t)
  /\ UNCHANGED <<kind, progress, untried, worker, dirty, global, aborted, requests>>

PriorityEnds(t) ==
  LET removed == Removed(space, t)
      failed == [ticket EXCEPT ![t].error = IF aborted /\ kind = "metadata" THEN "EIO"
                                                 ELSE "ENOSPC"] IN
  /\ Unlocked /\ task[t].pc = "reclaim" /\ ticket[t].bytes > 0 /\ ~More(t)
  /\ IF ~aborted /\ CanSteal(t)
     THEN /\ TryGranting(removed, Stolen(t))
          /\ global' = global - ticket[t].bytes
     ELSE /\ TryGranting(removed, failed)
          /\ UNCHANGED global
  /\ Answer(t)
  /\ UNCHANGED <<kind, worker, dirty, aborted, requests>>

---------------------------------------------------------------------------
(* The worker.  Under the lock it ends, goes on to a flush, or fails tickets. *)
Stop == /\ worker' = Off
        /\ space' = [space EXCEPT !.flush = FALSE]
FlushNext(state, cycles) ==
  /\ worker' = [pc |-> "flush", state |-> state, cycles |-> cycles, made |-> FALSE]
  /\ UNCHANGED space
FailTickets(cycles) ==
  /\ worker' = [pc |-> "fail", state |-> worker.state, cycles |-> cycles, made |-> FALSE]
  /\ UNCHANGED space
WorkerKeeps == UNCHANGED <<kind, ticket, task, dirty, global, aborted, requests, untried>>

(* btrfs_calc_reclaim_metadata_size.                                          *)
ToReclaim == space.reclaim > 0 \/ Used(space) > space.total + Avail(space, "FLUSH_ALL")

(* For data the state 0 stands for the first loop, which allocates chunks     *)
(* until there are none.                                                      *)
WorkerStarts ==
  /\ worker.pc = "queued"
  /\ IF kind = "data"
     THEN IF space.tickets = <<>> THEN Stop
          ELSE FlushNext(IF space.full THEN 1 ELSE 0, 0)
     ELSE IF ToReclaim THEN FlushNext(ITEMS_NR, 0) ELSE Stop
  /\ progress' = FALSE
  /\ WorkerKeeps

WorkerFlushes ==
  /\ worker.pc = "flush"
  /\ FlushSpace(IF kind = "metadata" THEN worker.state
                ELSE IF worker.state = 0 THEN ALLOC_CHUNK_FORCE ELSE DataStates[worker.state])
  /\ worker' = [worker EXCEPT !.pc = "check"]
  /\ UNCHANGED <<kind, task, aborted, requests>>

MutFlushDone == progress
FlushDone == space.tickets = <<>>

CheckEmpty ==
  /\ worker.pc = "check" /\ FlushDone
  /\ Stop
  /\ UNCHANGED progress
  /\ WorkerKeeps

(* The states that are skipped until a cycle has been made without success.   *)
AfterFlush(state, cycles) ==
  LET next == IF state = DELALLOC_FULL /\ cycles = 0 THEN state + 1 ELSE state
  IN  IF next = ALLOC_CHUNK_FORCE /\ cycles = 0 THEN next + 1 ELSE next

CheckMetadata ==
  LET cycles == IF progress /\ worker.cycles > 0 THEN worker.cycles - 1 ELSE worker.cycles
      state == AfterFlush(IF progress THEN ITEMS_NR ELSE worker.state + 1, cycles) IN
  /\ worker.pc = "check" /\ ~FlushDone /\ kind = "metadata"
  /\ IF state <= COMMIT_TRANS THEN FlushNext(state, cycles)
     ELSE IF cycles + 1 > 2 THEN FailTickets(cycles + 1)
     ELSE FlushNext(ITEMS_NR, cycles + 1)
  /\ progress' = FALSE
  /\ WorkerKeeps

CheckDataAlloc ==
  /\ worker.pc = "check" /\ ~FlushDone /\ kind = "data" /\ worker.state = 0
  /\ IF aborted THEN FailTickets(0)
     ELSE FlushNext(IF space.full THEN 1 ELSE 0, 0)
  /\ progress' = FALSE
  /\ WorkerKeeps

CheckData ==
  LET state == IF progress THEN 1 ELSE worker.state + 1 IN
  /\ worker.pc = "check" /\ ~FlushDone /\ kind = "data" /\ worker.state > 0
  /\ IF state <= Len(DataStates) THEN FlushNext(state, 0)
     ELSE IF space.full \/ aborted THEN FailTickets(0)
     ELSE FlushNext(1, 0)
  /\ progress' = FALSE
  /\ WorkerKeeps

(* maybe_fail_all_tickets, one ticket at a time.                              *)
FailHead ==
  LET t == Head(space.tickets)
      removed == Removed(space, t)
      failed == [ticket EXCEPT ![t].error = IF aborted THEN "EIO" ELSE "ENOSPC"] IN
  /\ worker.pc = "fail" /\ space.tickets # <<>> /\ ~worker.made
  /\ CASE aborted ->
            /\ space' = removed /\ ticket' = failed
            /\ UNCHANGED <<worker, progress, untried, global>>
       [] ~aborted /\ CanSteal(t) ->
            /\ space' = removed /\ ticket' = Stolen(t)
            /\ global' = global - ticket[t].bytes
            /\ worker' = [worker EXCEPT !.made = TRUE]
            /\ progress' = TRUE /\ untried' = TRUE
       [] OTHER ->
            /\ TryGranting(removed, failed)
            /\ worker' = [worker EXCEPT !.made = Granted(removed, failed).any]
            /\ UNCHANGED global
  /\ UNCHANGED <<kind, task, dirty, aborted, requests>>

FailedAll ==
  /\ worker.pc = "fail" /\ (space.tickets = <<>> \/ worker.made)
  /\ IF worker.made
     THEN FlushNext(1, IF kind = "metadata" THEN worker.cycles - 1 ELSE 0)
     ELSE Stop
  /\ UNCHANGED progress
  /\ WorkerKeeps

Worker == \/ WorkerStarts \/ WorkerFlushes \/ CheckEmpty \/ CheckMetadata
          \/ CheckDataAlloc \/ CheckData \/ FailHead \/ FailedAll
Handle(t) == \/ WaitReserveTicket(t) \/ PriorityGranted(t) \/ PriorityNext(t)
             \/ PriorityFlush(t) \/ PriorityEnds(t)

Next ==
  \/ Worker
  \/ \E t \in Tasks :
       \/ Handle(t) \/ Killed(t) \/ Finish(t)
       \/ \E flush \in Flushes, bytes \in Sizes : Reserve(t, flush, bytes)
  \/ OtherFlush \/ Abort

Spec == Init /\ [][Next]_vars

(* The worker is queued and runs; a task goes on when it was woken.           *)
FairSpec == Spec /\ WF_vars(Worker) /\ \A t \in Tasks : WF_vars(Handle(t))

---------------------------------------------------------------------------
(* Types of the variables.                                                    *)
SpaceTypeOK ==
  /\ kind \in Kinds
  /\ space.total \in Total .. MaxTotal
  /\ {space.pinned, space.may_use, space.reclaim, dirty} \subseteq Nat
  /\ global \in 0 .. GlobalSize
  /\ IsInjective(space.tickets \o space.priority)
  /\ worker.pc \in {"off", "queued", "flush", "check", "fail"}
  /\ worker.state \in 0 .. COMMIT_TRANS /\ worker.cycles \in 0 .. 3
  /\ \A t \in Tasks :
       /\ task[t].pc \in {"idle", "wait", "reclaim", "flush", "held"}
       /\ ticket[t].error \in {"no", "ENOSPC", "EIO", "EINTR"}

(* bytes_may_use is what the tasks hold, the delayed work and the global      *)
(* reserve, and reclaim_size is what the queued tickets ask for: a grant that *)
(* races with a kill, a timeout of the flusher or a theft from the reserve    *)
(* neither leaks nor forgets space.                                           *)
MayUseExact ==
  LET has == [t \in Tasks |->
        IF \/ task[t].pc = "held"
           \/ task[t].pc \in {"wait", "reclaim", "flush"} /\ ticket[t].bytes = 0
        THEN ticket[t].want ELSE 0] IN
  /\ space.may_use = global + dirty + Bytes(has, Tasks)
  /\ space.reclaim = BytesOf(ticket, space.tickets \o space.priority)

(* A task that waits for the worker is not forgotten: if its ticket was not   *)
(* answered it is queued, and then the worker is queued or at work.  And it   *)
(* is answered once: off the queues, and not granted and failed as well (the  *)
(* assertions of handle_reserve_ticket).                                      *)
TicketsAttended ==
  /\ \A t \in Tasks : task[t].pc = "wait" /\ ~Answered(t) => t \in ToSet(space.tickets)
  /\ space.tickets # <<>> => space.flush
  /\ space.flush <=> worker.pc # "off"
  /\ \A t \in Tasks : /\ Answered(t) => t \notin ToSet(space.tickets \o space.priority)
                      /\ ticket[t].bytes = 0 => ticket[t].error = "no"

(* Space that would do for the ticket at the head is never left unused, in    *)
(* whatever order space is freed and tickets come and go; but a killed head   *)
(* and one that got its bytes from the global reserve leave the next untried. *)
(* A block group that gets writable again, which is not modelled, does too    *)
(* (btrfs_dec_block_group_ro).                                                *)
HeadDoesNotFit ==
  Unlocked /\ ~untried =>
    /\ space.priority # <<>> =>
         ~Fits(space, Used(space), ticket[Head(space.priority)].bytes, "NO_FLUSH")
    /\ space.priority = <<>> /\ space.tickets # <<>> =>
         ~Fits(space, Used(space), ticket[Head(space.tickets)].bytes, "FLUSH_ALL")

(* A reservation returns, granted or not, though nobody gives space back; but *)
(* priority_reclaim_data_space does not look whether the filesystem aborted.  *)
(* That function also repeats the allocation of a chunk until it is done or   *)
(* there is no space: it is assumed not to fail for ever with other errors.   *)
ReserveReturns ==
  \A t \in Tasks : task[t].pc \in {"wait", "reclaim", "flush"} ~>
    (task[t].pc \in {"idle", "held"}
      \/ (aborted /\ task[t].flush = "FLUSH_FREE_SPACE_INODE"))
=============================================================================
