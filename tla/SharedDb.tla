------------------------------ MODULE SharedDb ------------------------------
(***************************************************************************)
(* The concurrency of one SharedDb handle (crates/core-api/src/shared.rs): *)
(* the group-commit queue and its drain thread, direct writers holding     *)
(* SharedDb::write, readers taking SharedDb::read and lock-free captures   *)
(* from SharedDb::reader, and other processes writing the same store under *)
(* the advisory LOCK file.                                                 *)
(*                                                                         *)
(* A commit is one WAL frame, named by the thread that makes it: every     *)
(* submitter, direct writer and peer process makes one commit, so the name *)
(* of the thread is the name of its commit.  Lengths and offsets of the    *)
(* WAL are counted in frames.  Marker frames, the dense rewrite and the    *)
(* contents of a commit are left out; whether a submission passes          *)
(* validation is a nondeterministic choice.                                *)
(***************************************************************************)
EXTENDS Naturals, Sequences

CONSTANTS
    Submitters, \* threads calling submit_batch and its CAS and authz variants
    Writers,    \* threads calling SharedDb::write
    Peers,      \* other processes, each making one commit
    Readers,    \* threads calling SharedDb::reader and SharedDb::read
    Drain,      \* the group-commit drain thread
    Local,      \* this process, as a holder of the LOCK file
    None,       \* nobody holds a lock
    MaxGroup,   \* MAX_GROUP_SIZE
    Strict,     \* fsync_policy() # Relaxed
    Faults,     \* the failures the environment may inject
    MaxCrash    \* bound on the number of crashes

FaultKinds == {"groupSync", "truncate", "directSync", "peerSync", "refresh",
               "unwritable", "upgrade", "kill", "power"}

ASSUME ThreadsAssumption ==
    /\ Submitters \cap Writers = {}
    /\ (Submitters \cup Writers) \cap (Peers \cup Readers) = {}
    /\ Peers \cap Readers = {}
    /\ Drain \notin Submitters \cup Writers \cup Peers \cup Readers
    /\ Local \notin Submitters \cup Writers \cup Peers \cup Readers \cup {Drain}
    /\ None \notin Submitters \cup Writers \cup Peers \cup Readers \cup {Drain, Local}

ASSUME BoundsAssumption ==
    /\ MaxGroup \in Nat \ {0}
    /\ MaxCrash \in Nat
    /\ Strict \in BOOLEAN
    /\ Faults \subseteq FaultKinds

Commits == Submitters \cup Writers \cup Peers

VARIABLES
    \* The store's directory.
    wal,            \* the frames of wal.bin, page cache included
    synced,         \* how many of them are on stable storage
    LOCK,           \* holder of the cross-process write lock
    \* The handle's locks.
    wal_mu,         \* holder of the WAL mutex
    guard,          \* holder of the RwLock in write mode
    readGuards,     \* holders of the RwLock in read mode
    \* The GraphDb behind the RwLock.
    mem,            \* the commits applied in memory, in order
    wal_consumed,   \* the WAL cursor
    degraded,       \* GraphDb::degraded
    defer_events, deferred_events,
    \* Published: the snapshot captures read without the RwLock.
    slot, writing,
    \* WriteQueue.
    pending, degraded_msg,
    \* The drain thread: its place, its group and what it still has to apply.
    drain, group, todo, applied, pre_len,
    \* The other threads and processes.
    submitter, writer, reader, peer,
    loaded,         \* what a capture in progress has cloned from the slot
    pre_peer,       \* the WAL length a peer measured before its append
    \* Observations.
    events,         \* what subscribers were notified of, in order
    capture,        \* the last snapshot each reader was served
    crashes

disk    == <<wal, synced, LOCK>>
locks   == <<wal_mu, guard, readGuards>>
handle  == <<mem, wal_consumed, degraded, defer_events, deferred_events>>
slots   == <<slot, writing>>
queue   == <<pending, degraded_msg>>
drainer == <<drain, group, todo, applied, pre_len>>
threads == <<submitter, writer, reader, peer, loaded, pre_peer>>
seen    == <<events, capture, crashes>>
vars    == <<disk, locks, handle, slots, queue, drainer, threads, seen>>

Elements(s) == {s[i] : i \in 1..Len(s)}
Durable == {wal[i] : i \in 1..synced}

Returned ==
    {s \in Submitters : submitter[s] = "ok"}
    \cup {w \in Writers : writer[w] = "ok"}
    \cup {p \in Peers : peer[p] = "ok"}

Snapshots == [snap : Seq(Commits), mark : Nat]
Captures == [snap : Seq(Commits), before : SUBSET Commits, via : {"reader", "read"}]

\* The variables of the store and of the commits in progress.
StoreType ==
    /\ wal \in Seq(Commits) /\ synced \in Nat
    /\ LOCK \in Peers \cup {None, Local}
    /\ wal_mu \in Writers \cup {None, Drain}
    /\ defer_events \in BOOLEAN
    /\ deferred_events \in Seq(Commits) /\ events \in Seq(Commits)
    /\ pending \in Seq(Submitters)
    /\ drain \in {"wait", "wal_mu", "poll", "denied", "enter", "refresh", "failing",
                  "apply", "applying", "sync", "truncate", "degrade", "flush", "end",
                  "answer", "exited"}
    /\ group \in Seq(Submitters) /\ todo \in Seq(Submitters)
    /\ applied \in SUBSET Submitters /\ pre_len \in Nat
    /\ submitter \in [Submitters -> {"idle", "checked", "waiting", "ok", "err", "busy", "lost"}]
    /\ writer \in [Writers -> {"idle", "poll", "enter", "denied", "in", "busied",
                               "committed", "failed", "ok", "err", "busy", "lost"}]
    /\ peer \in [Peers -> {"idle", "locked", "appended", "synced", "ok", "err", "lost"}]
    /\ pre_peer \in [Peers -> Nat]
    /\ crashes \in Nat

\* The variables of the handle in memory and of its readers.
HandleType ==
    /\ guard \in Writers \cup Readers \cup {None, Drain}
    /\ readGuards \in SUBSET Readers
    /\ mem \in Seq(Commits) /\ wal_consumed \in Nat
    /\ degraded \in BOOLEAN /\ degraded_msg \in BOOLEAN
    /\ slot \in Snapshots /\ writing \in BOOLEAN
    /\ reader \in [Readers -> {"idle", "loaded", "probe", "locked", "catchup", "stale1",
                               "refresh1", "check", "stale", "refresh", "grant", "reading"}]
    /\ loaded \in [Readers -> Captures \X Nat]
    /\ capture \in [Readers -> Captures]

\* Every variable of the store, the handle and the threads holds a value of its
\* kind, so no cursor, log or queue ever holds a half-made one.
TypeOK == StoreType /\ HandleType

Empty == [snap |-> <<>>, before |-> {}, via |-> "reader"]

Init ==
    /\ wal = <<>> /\ synced = 0 /\ LOCK = None
    /\ wal_mu = None /\ guard = None /\ readGuards = {}
    /\ mem = <<>> /\ wal_consumed = 0 /\ degraded = FALSE
    /\ defer_events = FALSE /\ deferred_events = <<>>
    /\ slot = [snap |-> <<>>, mark |-> 0] /\ writing = FALSE
    /\ pending = <<>> /\ degraded_msg = FALSE
    /\ drain = "wait" /\ group = <<>> /\ todo = <<>> /\ applied = {} /\ pre_len = 0
    /\ submitter = [s \in Submitters |-> "idle"]
    /\ writer = [w \in Writers |-> "idle"]
    /\ reader = [r \in Readers |-> "idle"]
    /\ peer = [p \in Peers |-> "idle"]
    /\ loaded = [r \in Readers |-> <<Empty, 0>>]
    /\ pre_peer = [p \in Peers |-> 0]
    /\ events = <<>> /\ capture = [r \in Readers |-> Empty] /\ crashes = 0

-----------------------------------------------------------------------------
(* The RwLock and the published slot.                                      *)

WriteFree == guard = None /\ readGuards = {}

\* write_publishing: the write guard is taken and `writing` raised.
TakeGuard(t) == WriteFree /\ guard' = t /\ writing' = TRUE

\* Mutants: the slot keeps the snapshot from before the write; nothing is
\* published at all.
PublishStaleSnapshot == slot' = [snap |-> mem, mark |-> wal_consumed']
PublishNothing == slot' = slot

\* PublishingGuard::drop: the state left behind is published, then the guard freed.
Publish == slot' = [snap |-> mem', mark |-> wal_consumed']
DropGuard == Publish /\ writing' = FALSE /\ guard' = None

\* A guard taken and dropped within one step.
BriefGuard == WriteFree /\ Publish /\ UNCHANGED <<guard, writing>>

\* Mutant: the cursor is left behind the frames just applied.
RefreshWithoutCursor ==
    /\ mem' = IF Len(wal) < wal_consumed THEN wal
              ELSE mem \o SubSeq(wal, wal_consumed + 1, Len(wal))
    /\ UNCHANGED wal_consumed

\* GraphDb::refresh_checking, for a WAL that is never replaced: the tail past
\* the cursor is applied, and a WAL shorter than the cursor is reloaded whole.
Refresh ==
    /\ mem' = IF Len(wal) < wal_consumed THEN wal
              ELSE mem \o SubSeq(wal, wal_consumed + 1, Len(wal))
    /\ wal_consumed' = Len(wal)

\* Mutant: only a WAL that shrank counts as stale.
StaleWhenShrunk == Len(wal) < wal_consumed

\* GraphDb::is_stale.
Stale == Len(wal) # wal_consumed

\* Mutant: the buffer of deferred events is a stack.
NotifyNewestFirst(c) ==
    IF defer_events
    THEN deferred_events' = <<c>> \o deferred_events /\ UNCHANGED events
    ELSE events' = Append(events, c) /\ UNCHANGED deferred_events

\* The end of log_then_apply_with: events are buffered in deferred mode and
\* handed to subscribers otherwise.
Notify(c) ==
    IF defer_events
    THEN deferred_events' = Append(deferred_events, c) /\ UNCHANGED events
    ELSE events' = Append(events, c) /\ UNCHANGED deferred_events

-----------------------------------------------------------------------------
(* Submitters.                                                             *)

\* The fast-path rejection of submit_batch: degraded_message() is looked at ...
CheckDegraded(s) ==
    /\ submitter[s] = "idle"
    /\ submitter' = [submitter EXCEPT ![s] = IF degraded_msg THEN "err" ELSE "checked"]
    /\ UNCHANGED <<disk, locks, handle, slots, queue, drainer, seen,
                   writer, reader, peer, loaded, pre_peer>>

\* ... and the submission is pushed afterwards, under another mutex.
Enqueue(s) ==
    /\ submitter[s] = "checked"
    /\ submitter' = [submitter EXCEPT ![s] = "waiting"]
    /\ pending' = Append(pending, s)
    /\ UNCHANGED <<disk, locks, handle, slots, degraded_msg, drainer, seen,
                   writer, reader, peer, loaded, pre_peer>>

-----------------------------------------------------------------------------
(* The drain thread.                                                       *)

Least(a, b) == IF a < b THEN a ELSE b

\* The end of a group: every member is sent its result.
Answer(result) ==
    /\ submitter' = [s \in Submitters |-> IF s \in Elements(group) THEN result[s]
                                          ELSE submitter[s]]
    /\ group' = <<>>
    /\ UNCHANGED <<writer, reader, peer, loaded, pre_peer>>

\* Mutant: the queue is emptied whatever the size of the group.
WaitAndDrainAll ==
    LET n == Least(Len(pending), MaxGroup) IN
    /\ drain = "wait" /\ pending # <<>>
    /\ drain' = "wal_mu"
    /\ group' = SubSeq(pending, 1, n)
    /\ pending' = <<>>
    /\ todo' = group' /\ applied' = {}
    /\ UNCHANGED <<disk, locks, handle, slots, degraded_msg, pre_len, threads, seen>>

\* WriteQueue::wait_and_drain: at most MaxGroup submissions, in queue order.
WaitAndDrain ==
    LET n == Least(Len(pending), MaxGroup) IN
    /\ drain = "wait" /\ pending # <<>>
    /\ drain' = "wal_mu"
    /\ group' = SubSeq(pending, 1, n)
    /\ pending' = SubSeq(pending, n + 1, Len(pending))
    /\ todo' = group' /\ applied' = {}
    /\ UNCHANGED <<disk, locks, handle, slots, degraded_msg, pre_len, threads, seen>>

DrainLocksWal ==
    /\ drain = "wal_mu" /\ wal_mu = None
    /\ drain' = "poll" /\ wal_mu' = Drain
    /\ UNCHANGED <<disk, guard, readGuards, handle, slots, queue, group, todo, applied,
                   pre_len, threads, seen>>

\* poll_cross_process_lock: each attempt holds the RwLock in read mode; the
\* budget runs out only while a peer holds the lock.
DrainPolls ==
    /\ drain = "poll" /\ guard = None
    /\ \/ LOCK = None /\ LOCK' = Local /\ drain' = "enter"
       \/ LOCK \in Peers /\ LOCK' = LOCK /\ drain' = "denied"
    /\ UNCHANGED <<wal, synced, locks, handle, slots, queue, group, todo, applied,
                   pre_len, threads, seen>>

\* The lock was not free in time: the whole group is told Busy.
DrainBusy ==
    /\ drain = "denied" /\ drain' = "wait"
    /\ UNCHANGED handle /\ BriefGuard
    /\ wal_mu' = None
    /\ Answer([s \in Submitters |-> "busy"])
    /\ UNCHANGED <<disk, readGuards, queue, todo, applied, pre_len, seen>>

\* The filesystem refused the lock file: every member gets Unwritable.
DrainUnwritable ==
    /\ "unwritable" \in Faults
    /\ drain = "poll" /\ WriteFree
    /\ Answer([s \in Submitters |-> "err"])
    /\ drain' = "wait" /\ wal_mu' = None
    /\ UNCHANGED <<disk, guard, readGuards, handle, slots, queue, todo, applied, pre_len, seen>>

DrainEnters ==
    /\ drain = "enter" /\ TakeGuard(Drain)
    /\ drain' = "refresh"
    /\ UNCHANGED <<disk, wal_mu, readGuards, handle, slot, queue, group, todo, applied,
                   pre_len, threads, seen>>

\* enter_write_scope(true): the tail is absorbed under the lock.
DrainRefreshes ==
    /\ drain = "refresh" /\ Refresh /\ DropGuard
    /\ drain' = "apply"
    /\ UNCHANGED <<disk, wal_mu, readGuards, degraded, defer_events, deferred_events, queue,
                   group, todo, applied, pre_len, threads, seen>>

\* The refresh failed on the first frame of a tail: the handle is degraded and
\* the LOCK given back; then the thread reports the failure and exits.
DrainRefreshFails ==
    /\ "refresh" \in Faults /\ Stale
    /\ drain = "refresh" /\ drain' = "failing"
    /\ degraded' = TRUE /\ LOCK' = None
    /\ UNCHANGED <<mem, wal_consumed, defer_events, deferred_events>>
    /\ DropGuard
    /\ UNCHANGED <<wal, synced, wal_mu, readGuards, queue, group, todo, applied, pre_len,
                   threads, seen>>

DrainReportsFailure ==
    /\ drain = "failing" /\ drain' = "exited"
    /\ deferred_events' = <<>> /\ defer_events' = FALSE /\ degraded' = TRUE
    /\ UNCHANGED <<mem, wal_consumed>> /\ BriefGuard
    /\ degraded_msg' = TRUE /\ wal_mu' = None
    /\ Answer([s \in Submitters |-> "err"])
    /\ UNCHANGED <<disk, readGuards, pending, todo, applied, pre_len, seen>>

\* upgrade_to_v11_for_ops failed ahead of the group: nothing was appended.
DrainUpgradeFails ==
    /\ "upgrade" \in Faults
    /\ drain = "apply" /\ drain' = "wait"
    /\ UNCHANGED handle /\ BriefGuard
    /\ LOCK' = None /\ wal_mu' = None
    /\ Answer([s \in Submitters |-> "err"])
    /\ UNCHANGED <<wal, synced, readGuards, queue, todo, applied, pre_len, seen>>

\* Mutant: events are never deferred.
DefersNothing == FALSE

\* Whether a group buffers its events until its fsync.
DefersEvents == Strict

\* pre_group_wal_len is measured, then the group's write guard taken.
DrainBeginsGroup ==
    /\ drain = "apply" /\ TakeGuard(Drain)
    /\ pre_len' = Len(wal) /\ defer_events' = DefersEvents
    /\ drain' = "applying"
    /\ UNCHANGED <<disk, wal_mu, readGuards, mem, wal_consumed, degraded, deferred_events,
                   slot, queue, group, todo, applied, threads, seen>>

\* One submission: log_then_apply_with appends its frame without an fsync and
\* applies it, or its validation, CAS or authz check refuses it.
DrainApplies ==
    /\ drain = "applying" /\ todo # <<>>
    /\ todo' = Tail(todo)
    /\ \/ /\ ~degraded
          /\ wal' = Append(wal, Head(todo))
          /\ wal_consumed' = wal_consumed + 1
          /\ mem' = Append(mem, Head(todo))
          /\ applied' = applied \cup {Head(todo)}
          /\ Notify(Head(todo))
       \/ UNCHANGED <<wal, wal_consumed, mem, applied, deferred_events, events>>
    /\ UNCHANGED <<synced, LOCK, locks, degraded, defer_events, slots, queue, drain, group,
                   pre_len, threads, capture, crashes>>

\* The group's write guard is dropped; readers see it before it is durable.
DrainEndsGroup ==
    /\ drain = "applying" /\ todo = <<>>
    /\ UNCHANGED handle /\ DropGuard
    /\ drain' = "sync"
    /\ UNCHANGED <<disk, wal_mu, readGuards, queue, group, todo, applied, pre_len,
                   threads, seen>>

\* Mutant: a group of one submission is not worth an fsync.
GroupOfSeveralNeedsSync == Strict /\ \E a, b \in applied : a # b

\* should_sync and some submission of the group succeeded.
GroupNeedsSync == Strict /\ applied # {}

\* One fsync for the group, outside the write guard.
DrainSyncs ==
    /\ drain = "sync"
    /\ synced' = IF GroupNeedsSync THEN Len(wal) ELSE synced
    /\ drain' = IF Strict THEN "flush" ELSE "end"
    /\ UNCHANGED <<wal, LOCK, locks, handle, slots, queue, group, todo, applied, pre_len,
                   threads, seen>>

DrainSyncFails ==
    /\ "groupSync" \in Faults
    /\ drain = "sync" /\ GroupNeedsSync
    /\ drain' = "truncate"
    /\ UNCHANGED <<disk, locks, handle, slots, queue, group, todo, applied, pre_len,
                   threads, seen>>

\* Mutant: the cut leaves one frame of the group behind.
CutOneLate == pre_len + 1

\* Where a failed group is cut off.
CutAt == pre_len

\* set_wal_consumed(pre_group_wal_len).
RewindTo == pre_len

\* truncate_wal_at(pre_group_wal_len), whose own failure is ignored.
DrainTruncates ==
    /\ drain = "truncate" /\ drain' = "degrade"
    /\ \/ wal' = SubSeq(wal, 1, CutAt) /\ synced' = Least(synced, CutAt)
       \/ "truncate" \in Faults /\ UNCHANGED <<wal, synced>>
    /\ UNCHANGED <<LOCK, locks, handle, slots, queue, group, todo, applied, pre_len,
                   threads, seen>>

\* Step 4: events discarded, handle and queue degraded, cursor rewound, locks
\* released, the group told of the failure, and the thread exits.
DrainDegrades ==
    /\ drain = "degrade"
    /\ deferred_events' = <<>> /\ defer_events' = FALSE /\ degraded' = TRUE
    /\ wal_consumed' = RewindTo /\ UNCHANGED mem
    /\ BriefGuard
    /\ LOCK' = None /\ wal_mu' = None /\ degraded_msg' = TRUE
    /\ Answer([s \in Submitters |-> "err"])
    /\ drain' = "exited"
    /\ UNCHANGED <<wal, synced, readGuards, pending, todo, applied, pre_len, seen>>

\* Step 5: the buffered events are delivered, with wal_mu still held.
DrainFlushes ==
    /\ drain = "flush" /\ drain' = "end"
    /\ events' = events \o deferred_events
    /\ deferred_events' = <<>> /\ defer_events' = FALSE
    /\ UNCHANGED <<mem, wal_consumed, degraded>>
    /\ BriefGuard
    /\ UNCHANGED <<disk, wal_mu, readGuards, queue, group, todo, applied, pre_len, threads,
                   capture, crashes>>

\* Step 5b: the LOCK is given back, then wal_mu.
DrainEnds ==
    /\ drain = "end" /\ drain' = "answer"
    /\ UNCHANGED handle /\ BriefGuard
    /\ LOCK' = None /\ wal_mu' = None
    /\ UNCHANGED <<wal, synced, readGuards, queue, group, todo, applied, pre_len,
                   threads, seen>>

DrainAnswers ==
    /\ drain = "answer" /\ drain' = "wait"
    /\ Answer([s \in Submitters |-> IF s \in applied THEN "ok" ELSE "err"])
    /\ UNCHANGED <<disk, locks, handle, slots, queue, todo, applied, pre_len, seen>>

-----------------------------------------------------------------------------
(* Direct writers: SharedDb::write, one mutation, the guard dropped.       *)

writerRest == <<submitter, reader, peer, loaded, pre_peer>>

WriteLocksWal(w) ==
    /\ writer[w] = "idle" /\ wal_mu = None
    /\ wal_mu' = w
    /\ writer' = [writer EXCEPT ![w] = "poll"]
    /\ UNCHANGED <<disk, guard, readGuards, handle, slots, queue, drainer, writerRest, seen>>

WritePolls(w) ==
    /\ writer[w] = "poll" /\ guard = None
    /\ \/ LOCK = None /\ LOCK' = Local /\ writer' = [writer EXCEPT ![w] = "enter"]
       \/ /\ LOCK \in Peers \/ "unwritable" \in Faults
          /\ LOCK' = LOCK /\ writer' = [writer EXCEPT ![w] = "denied"]
    /\ UNCHANGED <<wal, synced, locks, handle, slots, queue, drainer, writerRest, seen>>

\* enter_write_scope: the write guard is kept for the whole scope; a scope
\* whose lock was denied does not refresh.
WriteEnters(w) ==
    /\ writer[w] \in {"enter", "denied"} /\ TakeGuard(w)
    /\ writer' = [writer EXCEPT ![w] = IF @ = "enter" THEN "in" ELSE "busied"]
    /\ IF writer[w] = "enter" THEN Refresh ELSE UNCHANGED <<mem, wal_consumed>>
    /\ UNCHANGED <<disk, wal_mu, readGuards, degraded, defer_events, deferred_events, slot,
                   queue, drainer, writerRest, seen>>

\* The refresh failed: the handle is degraded and the LOCK given back at once,
\* but write() still hands out the guard.
WriteRefreshFails(w) ==
    /\ "refresh" \in Faults /\ Stale
    /\ writer[w] = "enter" /\ TakeGuard(w)
    /\ writer' = [writer EXCEPT ![w] = "in"]
    /\ degraded' = TRUE /\ LOCK' = None
    /\ UNCHANGED <<wal, synced, wal_mu, readGuards, mem, wal_consumed, defer_events,
                   deferred_events, slot, queue, drainer, writerRest, seen>>

\* log_then_apply: append, fsync, apply, notify.
WriteCommits(w) ==
    /\ writer[w] = "in" /\ ~degraded
    /\ wal' = Append(wal, w)
    /\ synced' = IF Strict THEN Len(wal') ELSE synced
    /\ wal_consumed' = wal_consumed + 1
    /\ mem' = Append(mem, w)
    /\ Notify(w)
    /\ writer' = [writer EXCEPT ![w] = "committed"]
    /\ UNCHANGED <<LOCK, locks, degraded, defer_events, slots, queue, drainer, writerRest,
                   capture, crashes>>

\* The same, when the fsync fails: the frame stays in the WAL and the cursor
\* past it, but nothing was applied and the handle is not degraded.
WriteSyncFails(w) ==
    /\ "directSync" \in Faults /\ Strict
    /\ writer[w] = "in" /\ ~degraded
    /\ wal' = Append(wal, w)
    /\ wal_consumed' = wal_consumed + 1
    /\ writer' = [writer EXCEPT ![w] = "failed"]
    /\ UNCHANGED <<synced, LOCK, locks, mem, degraded, defer_events, deferred_events, slots,
                   queue, drainer, writerRest, seen>>

\* A degraded handle refuses the mutation before it appends anything.
WriteRefused(w) ==
    /\ writer[w] = "in" /\ degraded
    /\ writer' = [writer EXCEPT ![w] = "failed"]
    /\ UNCHANGED <<disk, locks, handle, slots, queue, drainer, writerRest, seen>>

\* WriteGuard::drop: the LOCK, then the published write guard, then wal_mu.
WriteReleases(w) ==
    /\ writer[w] \in {"committed", "failed", "busied"}
    /\ UNCHANGED handle /\ DropGuard
    /\ LOCK' = IF LOCK = Local THEN None ELSE LOCK
    /\ wal_mu' = None
    /\ writer' = [writer EXCEPT ![w] = CASE @ = "committed" -> "ok"
                                         [] @ = "failed" -> "err"
                                         [] OTHER -> "busy"]
    /\ UNCHANGED <<wal, synced, readGuards, queue, drainer, writerRest, seen>>

-----------------------------------------------------------------------------
(* Readers.                                                                *)

readerRest == <<submitter, writer, peer, pre_peer>>

Serve(r, s) ==
    /\ capture' = [capture EXCEPT ![r] = [loaded[r][1] EXCEPT !.snap = s]]
    /\ reader' = [reader EXCEPT ![r] = "idle"]

\* reader() begins: the slot's Arc is cloned.
CaptureLoads(r) ==
    /\ reader[r] = "idle"
    /\ reader' = [reader EXCEPT ![r] = "loaded"]
    /\ loaded' = [loaded EXCEPT ![r] =
                    <<[snap |-> slot.snap, before |-> Returned, via |-> "reader"], slot.mark>>]
    /\ UNCHANGED <<disk, locks, handle, slots, queue, drainer, readerRest, seen>>

\* Published::current: while a write guard is held the clone is served at once.
CaptureLooksAtWriting(r) ==
    /\ reader[r] = "loaded"
    /\ IF writing
       THEN Serve(r, loaded[r][1].snap)
       ELSE UNCHANGED capture /\ reader' = [reader EXCEPT ![r] = "probe"]
    /\ UNCHANGED <<disk, locks, handle, slots, queue, drainer, readerRest, loaded,
                   events, crashes>>

\* DiskProbe::observe: a look at the files that started after this call.
CaptureProbes(r) ==
    /\ reader[r] = "probe"
    /\ IF Len(wal) = loaded[r][2]
       THEN Serve(r, loaded[r][1].snap)
       ELSE UNCHANGED capture /\ reader' = [reader EXCEPT ![r] = "locked"]
    /\ UNCHANGED <<disk, locks, handle, slots, queue, drainer, readerRest, loaded,
                   events, crashes>>

\* Someone waits for the RwLock in write mode.
WriterWaiting ==
    \/ drain \in {"enter", "denied", "failing", "apply", "degrade", "flush", "end"}
    \/ \E w \in Writers : writer[w] \in {"enter", "denied"}
    \/ \E r \in Readers : reader[r] \in {"stale1", "stale"}

\* try_read: the live state, the published one when a writer holds or awaits
\* the lock, or a refresh first when the handle is stale.
CaptureTries(r) ==
    /\ reader[r] = "locked"
    /\ \/ guard = None /\ ~Stale /\ Serve(r, mem)
       \/ (guard # None \/ (readGuards # {} /\ WriterWaiting)) /\ Serve(r, slot.snap)
       \/ guard = None /\ Stale /\ UNCHANGED capture
          /\ reader' = [reader EXCEPT ![r] = "catchup"]
    /\ UNCHANGED <<disk, locks, handle, slots, queue, drainer, readerRest, loaded,
                   events, crashes>>

\* SharedDb::read begins.
ReadBegins(r) ==
    /\ reader[r] = "idle"
    /\ reader' = [reader EXCEPT ![r] = "check"]
    /\ loaded' = [loaded EXCEPT ![r] =
                    <<[snap |-> <<>>, before |-> Returned, via |-> "read"], 0>>]
    /\ UNCHANGED <<disk, locks, handle, slots, queue, drainer, readerRest, seen>>

\* refresh_if_stale, first half: is_stale under the read lock.  A capture that
\* found the handle stale calls it twice, the second time through read().
ReadChecks(r) ==
    /\ reader[r] \in {"catchup", "check"} /\ guard = None
    /\ reader' = [reader EXCEPT ![r] = IF @ = "catchup"
                                      THEN IF Stale THEN "stale1" ELSE "check"
                                      ELSE IF Stale THEN "stale" ELSE "grant"]
    /\ UNCHANGED <<disk, locks, handle, slots, queue, drainer, readerRest, loaded, seen>>

ReadTakesGuard(r) ==
    /\ reader[r] \in {"stale1", "stale"} /\ TakeGuard(r)
    /\ reader' = [reader EXCEPT ![r] = IF @ = "stale1" THEN "refresh1" ELSE "refresh"]
    /\ UNCHANGED <<disk, wal_mu, readGuards, handle, slot, queue, drainer, readerRest,
                   loaded, seen>>

\* A failed refresh degrades the handle and the queue; the read goes on.
ReadRefreshes(r) ==
    /\ reader[r] \in {"refresh1", "refresh"}
    /\ \/ Refresh /\ UNCHANGED <<degraded, degraded_msg>>
       \/ /\ "refresh" \in Faults /\ Stale
          /\ degraded' = TRUE /\ degraded_msg' = TRUE
          /\ UNCHANGED <<mem, wal_consumed>>
    /\ DropGuard
    /\ reader' = [reader EXCEPT ![r] = IF @ = "refresh1" THEN "check" ELSE "grant"]
    /\ UNCHANGED <<disk, wal_mu, readGuards, defer_events, deferred_events, pending, drainer,
                   readerRest, loaded, seen>>

\* inner.read(): a capture clones the live state, a read keeps the guard.
ReadGranted(r) ==
    /\ reader[r] = "grant" /\ guard = None
    /\ capture' = [capture EXCEPT ![r] = [loaded[r][1] EXCEPT !.snap = mem]]
    /\ IF loaded[r][1].via = "read"
       THEN /\ readGuards' = readGuards \cup {r}
            /\ reader' = [reader EXCEPT ![r] = "reading"]
       ELSE /\ UNCHANGED readGuards
            /\ reader' = [reader EXCEPT ![r] = "idle"]
    /\ UNCHANGED <<disk, wal_mu, guard, handle, slots, queue, drainer, readerRest, loaded,
                   events, crashes>>

ReadEnds(r) ==
    /\ reader[r] = "reading"
    /\ readGuards' = readGuards \ {r}
    /\ reader' = [reader EXCEPT ![r] = "idle"]
    /\ UNCHANGED <<disk, wal_mu, guard, handle, slots, queue, drainer, readerRest, loaded, seen>>

-----------------------------------------------------------------------------
(* Another process's group commit, seen from the files.                    *)

peerRest == <<submitter, writer, reader, loaded>>

PeerLocks(p) ==
    /\ peer[p] = "idle" /\ LOCK = None
    /\ LOCK' = p
    /\ peer' = [peer EXCEPT ![p] = "locked"]
    /\ pre_peer' = [pre_peer EXCEPT ![p] = Len(wal)]
    /\ UNCHANGED <<wal, synced, locks, handle, slots, queue, drainer, peerRest, seen>>

PeerAppends(p) ==
    /\ peer[p] = "locked"
    /\ wal' = Append(wal, p)
    /\ peer' = [peer EXCEPT ![p] = "appended"]
    /\ UNCHANGED <<synced, LOCK, locks, handle, slots, queue, drainer, peerRest, pre_peer, seen>>

PeerSyncs(p) ==
    /\ peer[p] = "appended"
    /\ synced' = IF Strict THEN Len(wal) ELSE synced
    /\ peer' = [peer EXCEPT ![p] = "synced"]
    /\ UNCHANGED <<wal, LOCK, locks, handle, slots, queue, drainer, peerRest, pre_peer, seen>>

PeerReturns(p) ==
    /\ peer[p] = "synced"
    /\ LOCK' = None
    /\ peer' = [peer EXCEPT ![p] = "ok"]
    /\ UNCHANGED <<wal, synced, locks, handle, slots, queue, drainer, peerRest, pre_peer, seen>>

\* The peer's fsync failed: it truncates its frame away and lets go of the lock.
PeerSyncFails(p) ==
    /\ "peerSync" \in Faults /\ Strict
    /\ peer[p] = "appended"
    /\ wal' = SubSeq(wal, 1, pre_peer[p]) /\ synced' = Least(synced, pre_peer[p])
    /\ LOCK' = None
    /\ peer' = [peer EXCEPT ![p] = "err"]
    /\ UNCHANGED <<locks, handle, slots, queue, drainer, peerRest, pre_peer, seen>>

-----------------------------------------------------------------------------
(* Crashes.  The handle is reopened over what the crash left of the WAL.   *)

Reopened(frames) ==
    /\ wal' = frames
    /\ mem' = frames /\ wal_consumed' = Len(frames) /\ degraded' = FALSE
    /\ defer_events' = FALSE /\ deferred_events' = <<>>
    /\ Publish /\ writing' = FALSE
    /\ wal_mu' = None /\ guard' = None /\ readGuards' = {}
    /\ pending' = <<>> /\ degraded_msg' = FALSE
    /\ drain' = "wait" /\ group' = <<>> /\ todo' = <<>> /\ applied' = {} /\ pre_len' = 0
    /\ submitter' = [s \in Submitters |->
                       IF submitter[s] \in {"checked", "waiting"} THEN "lost" ELSE submitter[s]]
    /\ writer' = [w \in Writers |->
                    IF writer[w] \in {"idle", "ok", "err", "busy"} THEN writer[w] ELSE "lost"]
    /\ reader' = [r \in Readers |-> "idle"]
    /\ loaded' = [r \in Readers |-> <<Empty, 0>>]
    /\ capture' = [r \in Readers |-> Empty]
    /\ crashes' = crashes + 1
    /\ UNCHANGED <<pre_peer, events>>

\* This process is killed: the page cache survives, the OS frees its lock.
Kill ==
    /\ "kill" \in Faults /\ crashes < MaxCrash
    /\ Reopened(wal)
    /\ LOCK' = IF LOCK = Local THEN None ELSE LOCK
    /\ UNCHANGED <<synced, peer>>

\* The machine loses power: any part of the unsynced tail may be gone.
PowerLoss ==
    /\ "power" \in Faults /\ crashes < MaxCrash
    /\ \E cut \in synced..Len(wal) : Reopened(SubSeq(wal, 1, cut)) /\ synced' = cut
    /\ LOCK' = None
    /\ peer' = [p \in Peers |-> IF peer[p] \in {"idle", "ok", "err"} THEN peer[p] ELSE "lost"]

-----------------------------------------------------------------------------
DrainStep ==
    \/ WaitAndDrain \/ DrainLocksWal \/ DrainPolls \/ DrainBusy \/ DrainUnwritable
    \/ DrainEnters \/ DrainRefreshes \/ DrainRefreshFails \/ DrainReportsFailure
    \/ DrainUpgradeFails \/ DrainBeginsGroup \/ DrainApplies \/ DrainEndsGroup
    \/ DrainSyncs \/ DrainSyncFails \/ DrainTruncates \/ DrainDegrades
    \/ DrainFlushes \/ DrainEnds \/ DrainAnswers

WriterStep(w) ==
    \/ WriteLocksWal(w) \/ WritePolls(w) \/ WriteEnters(w) \/ WriteRefreshFails(w)
    \/ WriteCommits(w) \/ WriteSyncFails(w) \/ WriteRefused(w) \/ WriteReleases(w)

CaptureStep(r) ==
    \/ CaptureLoads(r) \/ CaptureLooksAtWriting(r) \/ CaptureProbes(r) \/ CaptureTries(r)

ReadStep(r) ==
    \/ ReadBegins(r) \/ ReadChecks(r) \/ ReadTakesGuard(r) \/ ReadRefreshes(r)
    \/ ReadGranted(r) \/ ReadEnds(r)

PeerStep(p) ==
    \/ PeerLocks(p) \/ PeerAppends(p) \/ PeerSyncs(p) \/ PeerReturns(p) \/ PeerSyncFails(p)

Next ==
    \/ \E s \in Submitters : CheckDegraded(s) \/ Enqueue(s)
    \/ DrainStep
    \/ \E w \in Writers : WriterStep(w)
    \/ \E r \in Readers : CaptureStep(r) \/ ReadStep(r)
    \/ \E p \in Peers : PeerStep(p)
    \/ Kill \/ PowerLoss

Spec == Init /\ [][Next]_vars

\* What the threads' schedulers give: the drain thread is never starved of the
\* RwLock (a waiting writer is preferred to new readers), a thread that holds
\* or awaits a lock goes on, and a peer that took the LOCK finishes.
Fairness ==
    /\ SF_vars(DrainStep)
    /\ \A w \in Writers : SF_vars(writer[w] # "idle" /\ WriterStep(w))
    /\ \A r \in Readers : WF_vars(reader[r] # "idle" /\ (CaptureStep(r) \/ ReadStep(r)))
    /\ \A p \in Peers : WF_vars(peer[p] # "idle" /\ PeerStep(p))

LiveSpec == Spec /\ Fairness

-----------------------------------------------------------------------------
(* Properties.                                                             *)

\* A commit whose caller was told Ok under Strict is on stable storage, and
\* stays there through every later group failure, truncation and crash.
AckedIsDurable == Strict => Returned \subseteq Durable

\* A submission that was answered with an error is not in the WAL: the failed
\* group was truncated away before any later fsync could make it durable.
FailedGroupIsGone ==
    \A s \in Submitters : submitter[s] \in {"err", "busy"} => s \notin Elements(wal)

\* Subscribers are only told of commits that are already durable (R2).
EventsAreDurable == Strict => Elements(events) \subseteq Durable

\* Subscribers see commits in WAL order, across the drain and direct paths.
EventsInWalOrder ==
    \A i, j \in 1..Len(events) : i < j =>
        \A m, n \in 1..Len(wal) : wal[m] = events[i] /\ wal[n] = events[j] => m < n

\* Whenever nobody holds the write guard, a handle that is not degraded holds
\* exactly the replay of the WAL up to its cursor.
MemoryIsReplay ==
    guard = None /\ ~degraded /\ drain \notin {"truncate", "degrade"}
        => mem = SubSeq(wal, 1, wal_consumed)

\* A capture holds every commit of this process that had returned when it began.
CapturesSeeReturned ==
    \A r \in Readers : capture[r].before \ Peers \subseteq Elements(capture[r].snap)

\* SharedDb::read additionally sees every peer commit that had returned, unless
\* a failed refresh has degraded the handle.
ReadsSeePeers ==
    \A r \in Readers : ~degraded /\ capture[r].via = "read"
        => capture[r].before \subseteq Elements(capture[r].snap)

\* The captures of one reader never go back in time, until a group fails and is
\* taken back.
CapturesAdvance ==
    [][\A r \in Readers : crashes' = crashes /\ drain' \notin {"truncate", "degrade", "exited"} =>
        /\ Len(capture[r].snap) <= Len(capture'[r].snap)
        /\ SubSeq(capture'[r].snap, 1, Len(capture[r].snap)) = capture[r].snap]_vars

\* A submission that reached the queue is answered.
EverySubmissionAnswered ==
    \A s \in Submitters : submitter[s] = "waiting" ~> submitter[s] \in {"ok", "err", "busy"}
=============================================================================
