--------------------------- MODULE SharedDbProofs ---------------------------
(***************************************************************************)
(* SharedDb for every number of submitters, direct writers, readers and    *)
(* peers: what is durable and told of it for every set of faults, and what *)
(* a failed group, memory and the readers hold for the faults under which  *)
(* each of these promises can be kept.                                     *)
(*                                                                         *)
(* Durability is not inductive: whether a truncation spares acknowledged   *)
(* frames depends on who may touch the WAL between a group's first append  *)
(* and its fsync.  LockInv says who holds wal_mu and the LOCK at each step *)
(* of each writer, BoundInv that the place a failed group is cut off lies  *)
(* at or past everything durable, and ProgressInv that what is about to be *)
(* acknowledged or notified is where the acknowledgement says it is.       *)
(*                                                                         *)
(* On top of that stand: QueueInv, FreshInv and OrderInv (a commit is made *)
(* once, its event in the place of its frame), FailInv (the frames of a    *)
(* group lie past the place it is cut off), MemInv (memory is the replay,  *)
(* and who appends stands at its end), HeldInv and CapturesInv (what had   *)
(* returned is in the slot), PeersInv and ReadInv (and for a read in       *)
(* memory), GuardInv and AdvanceInv (capture, clone, slot and memory lie   *)
(* in that order).                                                         *)
(***************************************************************************)
EXTENDS SharedDb, TLAPS

\* Commit c is a frame of the WAL; it is one an fsync has covered.
InWal(c) == \E i \in 1..Len(wal) : wal[i] = c
OnDisk(c) == \E i \in 1..synced : wal[i] = c

\* The steps at which the drain thread holds wal_mu, and of those the LOCK.
DrainHoldsWal == {"poll", "denied", "enter", "refresh", "failing", "apply", "applying",
                  "sync", "truncate", "degrade", "flush", "end"}
DrainHoldsLock == DrainHoldsWal \ {"poll", "denied", "failing"}

LockInv ==
    /\ drain \in DrainHoldsWal => wal_mu = Drain
    /\ drain \in DrainHoldsLock => LOCK = Local
    /\ \A w \in Writers :
         /\ writer[w] \in {"poll", "enter", "denied", "in", "busied", "committed", "failed"}
              => wal_mu = w
         /\ writer[w] = "enter" \/ (writer[w] = "in" /\ ~degraded) => LOCK = Local
    /\ \A p \in Peers : peer[p] \in {"locked", "appended", "synced"} => LOCK = p

BoundInv ==
    /\ synced <= Len(wal)
    /\ drain \in {"applying", "sync", "truncate"} => synced <= pre_len /\ pre_len <= Len(wal)
    /\ \A p \in Peers : peer[p] \in {"locked", "appended"}
         => synced <= pre_peer[p] /\ pre_peer[p] <= Len(wal)

ProgressInv ==
    /\ drain \in {"wal_mu", "poll", "denied", "enter", "refresh", "failing", "apply"}
         => applied = {}
    /\ drain \in {"applying", "sync"} => \A s \in applied : InWal(s)
    /\ Strict /\ drain \in {"flush", "end", "answer"} => \A s \in applied : OnDisk(s)
    /\ \A w \in Writers : Strict /\ writer[w] = "committed" => OnDisk(w)
    /\ \A p \in Peers : /\ peer[p] = "appended" => InWal(p)
                        /\ Strict /\ peer[p] = "synced" => OnDisk(p)

DeferInv ==
    /\ drain \in {"applying", "sync", "flush"} => defer_events = Strict
    /\ drain \notin {"applying", "sync", "truncate", "degrade", "flush"}
         => deferred_events = <<>> /\ ~defer_events
    /\ ~defer_events => deferred_events = <<>>
    /\ drain \in {"applying", "sync", "flush"}
         => \A i \in 1..Len(deferred_events) : deferred_events[i] \in applied

AckInv ==
    Strict => /\ \A s \in Submitters : submitter[s] = "ok" => OnDisk(s)
              /\ \A w \in Writers : writer[w] = "ok" => OnDisk(w)
              /\ \A p \in Peers : peer[p] = "ok" => OnDisk(p)

EventInv == Strict => \A i \in 1..Len(events) : OnDisk(events[i])

IInv == StoreType /\ LockInv /\ BoundInv /\ ProgressInv /\ DeferInv /\ AckInv /\ EventInv

\* No durable frame is lost or changed.
DurableKept == \A i \in 1..synced : i <= synced' /\ wal'[i] = wal[i]

USE DEF disk, locks, handle, slots, queue, drainer, threads, seen,
        writerRest, readerRest, peerRest

\* The empty log and the empty queue.
LEMMA EmptyLogs == <<>> \in Seq(Commits) /\ <<>> \in Seq(Submitters)
BY DEF Commits

\* What remains of a log cut at k is its first k frames.
LEMMA CutLog ==
    ASSUME NEW s \in Seq(Commits), NEW k \in Nat, k <= Len(s)
    PROVE  /\ SubSeq(s, 1, k) \in Seq(Commits)
           /\ Len(SubSeq(s, 1, k)) = k
           /\ \A i \in 1..k : SubSeq(s, 1, k)[i] = s[i]
OBVIOUS

\* An appended frame leaves the earlier ones where they are.
LEMMA AppendLog ==
    ASSUME NEW s \in Seq(Commits), NEW c \in Commits
    PROVE  /\ Append(s, c) \in Seq(Commits)
           /\ Len(Append(s, c)) = Len(s) + 1
           /\ \A i \in 1..Len(s) : Append(s, c)[i] = s[i]
           /\ Append(s, c)[Len(s) + 1] = c
OBVIOUS

\* The frames of a joined log come from one of its parts.
LEMMA JoinLog ==
    ASSUME NEW s \in Seq(Commits), NEW t \in Seq(Commits)
    PROVE  /\ s \o t \in Seq(Commits)
           /\ \A i \in 1..Len(s \o t) : \/ \E j \in 1..Len(s) : (s \o t)[i] = s[j]
                                        \/ \E j \in 1..Len(t) : (s \o t)[i] = t[j]
OBVIOUS

\* The same, of the WAL: the new frame is in it, and so are the old ones.
LEMMA AppendWal ==
    ASSUME wal \in Seq(Commits), NEW c \in Commits, wal' = Append(wal, c)
    PROVE  /\ wal' \in Seq(Commits) /\ Len(wal') \in Nat /\ Len(wal) <= Len(wal')
           /\ wal'[Len(wal')] = c /\ Len(wal') >= 1
           /\ \A i \in 1..Len(wal) : wal'[i] = wal[i]
           /\ InWal(c)'
           /\ \A x : InWal(x) => InWal(x)'
<1>1. Len(wal) \in Nat /\ Len(wal') = Len(wal) + 1 /\ wal' \in Seq(Commits) BY AppendLog
<1>2. wal'[Len(wal')] = c /\ \A i \in 1..Len(wal) : wal'[i] = wal[i] BY <1>1, AppendLog
<1> QED BY <1>1, <1>2 DEF InWal

\* A restart leaves the process's own threads and queue with legal values.
LEMMA RestartTypes ==
    ASSUME StoreType, NEW frames, Reopened(frames)
    PROVE  /\ wal_mu' = None /\ ~defer_events' /\ defer_events' \in BOOLEAN
           /\ deferred_events' = <<>> /\ deferred_events' \in Seq(Commits)
           /\ pending' \in Seq(Submitters) /\ drain' = "wait"
           /\ group' \in Seq(Submitters) /\ todo' \in Seq(Submitters)
           /\ applied' \in SUBSET Submitters /\ pre_len' \in Nat
           /\ submitter' \in [Submitters ->
                {"idle", "checked", "waiting", "ok", "err", "busy", "lost"}]
           /\ writer' \in [Writers ->
                {"idle", "poll", "enter", "denied", "in", "busied",
                 "committed", "failed", "ok", "err", "busy", "lost"}]
<1>1. submitter' \in [Submitters -> {"idle", "checked", "waiting", "ok", "err", "busy", "lost"}]
    BY DEF StoreType, Reopened
<1>2. writer' \in [Writers -> {"idle", "poll", "enter", "denied", "in", "busied",
                               "committed", "failed", "ok", "err", "busy", "lost"}]
    BY DEF StoreType, Reopened
<1> QED BY <1>1, <1>2, EmptyLogs DEF Reopened

\* The drain thread taking its group from the queue keeps the inductive invariant.
LEMMA WaitAndDrainKeeps ==
    ASSUME IInv, WaitAndDrain PROVE IInv'
<1>1. StoreType'
    BY BoundsAssumption DEF IInv, StoreType, BoundInv, Commits, WaitAndDrain, Least
<1>2. LockInv'
    BY ThreadsAssumption DEF IInv, StoreType, LockInv, DrainHoldsWal,
      DrainHoldsLock, WaitAndDrain, Least
<1>3. BoundInv'
    BY ThreadsAssumption DEF IInv, StoreType, LockInv, BoundInv, DrainHoldsWal,
      DrainHoldsLock, WaitAndDrain, Least
<1>4. DurableKept BY DEF IInv, StoreType, BoundInv, DurableKept, WaitAndDrain, Least
<1>5. \A c : OnDisk(c) => OnDisk(c)' BY <1>4 DEF DurableKept, OnDisk
<1>6. ProgressInv'
    BY <1>5, ThreadsAssumption DEF IInv, StoreType, LockInv, ProgressInv, InWal,
      DrainHoldsWal, DrainHoldsLock, WaitAndDrain, Least
<1>7. DeferInv'
    BY ThreadsAssumption DEF IInv, StoreType, LockInv, DeferInv, DrainHoldsWal,
      DrainHoldsLock, WaitAndDrain, Least
<1>8. AckInv' BY <1>5 DEF IInv, StoreType, AckInv, ProgressInv, WaitAndDrain, Least
<1>9. EventInv'
    BY <1>5, ThreadsAssumption DEF IInv, StoreType, EventInv, LockInv, ProgressInv,
      DeferInv, DrainHoldsWal, DrainHoldsLock, WaitAndDrain, Least
<1> QED BY <1>1, <1>2, <1>3, <1>6, <1>7, <1>8, <1>9 DEF IInv

\* Taking the WAL mutex keeps the inductive invariant.
LEMMA DrainLocksWalKeeps ==
    ASSUME IInv, DrainLocksWal PROVE IInv'
<1>1. StoreType' BY BoundsAssumption DEF IInv, StoreType, BoundInv, Commits, DrainLocksWal
<1>2. LockInv'
    BY ThreadsAssumption DEF IInv, StoreType, LockInv, DrainHoldsWal,
      DrainHoldsLock, DrainLocksWal
<1>3. BoundInv'
    BY ThreadsAssumption DEF IInv, StoreType, LockInv, BoundInv, DrainHoldsWal,
      DrainHoldsLock, DrainLocksWal
<1>4. DurableKept BY DEF IInv, StoreType, BoundInv, DurableKept, DrainLocksWal
<1>5. \A c : OnDisk(c) => OnDisk(c)' BY <1>4 DEF DurableKept, OnDisk
<1>6. ProgressInv'
    BY <1>5, ThreadsAssumption DEF IInv, StoreType, LockInv, ProgressInv, InWal,
      DrainHoldsWal, DrainHoldsLock, DrainLocksWal
<1>7. DeferInv'
    BY ThreadsAssumption DEF IInv, StoreType, LockInv, DeferInv, DrainHoldsWal,
      DrainHoldsLock, DrainLocksWal
<1>8. AckInv' BY <1>5 DEF IInv, StoreType, AckInv, ProgressInv, DrainLocksWal
<1>9. EventInv'
    BY <1>5, ThreadsAssumption DEF IInv, StoreType, EventInv, LockInv, ProgressInv,
      DeferInv, DrainHoldsWal, DrainHoldsLock, DrainLocksWal
<1> QED BY <1>1, <1>2, <1>3, <1>6, <1>7, <1>8, <1>9 DEF IInv

\* A poll of a busy LOCK file keeps the inductive invariant.
LEMMA DrainPollsKeeps ==
    ASSUME IInv, DrainPolls PROVE IInv'
<1>1. StoreType' BY BoundsAssumption DEF IInv, StoreType, BoundInv, Commits, DrainPolls
<1>2. LockInv'
    BY ThreadsAssumption DEF IInv, StoreType, LockInv, DrainHoldsWal,
      DrainHoldsLock, DrainPolls
<1>3. BoundInv'
    BY ThreadsAssumption DEF IInv, StoreType, LockInv, BoundInv, DrainHoldsWal,
      DrainHoldsLock, DrainPolls
<1>4. DurableKept BY DEF IInv, StoreType, BoundInv, DurableKept, DrainPolls
<1>5. \A c : OnDisk(c) => OnDisk(c)' BY <1>4 DEF DurableKept, OnDisk
<1>6. ProgressInv'
    BY <1>5, ThreadsAssumption DEF IInv, StoreType, LockInv, ProgressInv, InWal,
      DrainHoldsWal, DrainHoldsLock, DrainPolls
<1>7. DeferInv'
    BY ThreadsAssumption DEF IInv, StoreType, LockInv, DeferInv, DrainHoldsWal,
      DrainHoldsLock, DrainPolls
<1>8. AckInv' BY <1>5 DEF IInv, StoreType, AckInv, ProgressInv, DrainPolls
<1>9. EventInv'
    BY <1>5, ThreadsAssumption DEF IInv, StoreType, EventInv, LockInv, ProgressInv,
      DeferInv, DrainHoldsWal, DrainHoldsLock, DrainPolls
<1> QED BY <1>1, <1>2, <1>3, <1>6, <1>7, <1>8, <1>9 DEF IInv

\* A group refused because the LOCK stays busy keeps the inductive invariant.
LEMMA DrainBusyKeeps ==
    ASSUME IInv, DrainBusy PROVE IInv'
<1>1. StoreType'
    BY BoundsAssumption DEF IInv, StoreType, BoundInv, Commits, DrainBusy, Answer
<1>2. LockInv'
    BY ThreadsAssumption DEF IInv, StoreType, LockInv, DrainHoldsWal,
      DrainHoldsLock, DrainBusy, Answer
<1>3. BoundInv'
    BY ThreadsAssumption DEF IInv, StoreType, LockInv, BoundInv, DrainHoldsWal,
      DrainHoldsLock, DrainBusy, Answer
<1>4. DurableKept BY DEF IInv, StoreType, BoundInv, DurableKept, DrainBusy, Answer
<1>5. \A c : OnDisk(c) => OnDisk(c)' BY <1>4 DEF DurableKept, OnDisk
<1>6. ProgressInv'
    BY <1>5, ThreadsAssumption DEF IInv, StoreType, LockInv, ProgressInv, InWal,
      DrainHoldsWal, DrainHoldsLock, DrainBusy, Answer
<1>7. DeferInv'
    BY ThreadsAssumption DEF IInv, StoreType, LockInv, DeferInv, DrainHoldsWal,
      DrainHoldsLock, DrainBusy, Answer
<1>8. AckInv' BY <1>5 DEF IInv, StoreType, AckInv, ProgressInv, DrainBusy, Answer
<1>9. EventInv'
    BY <1>5, ThreadsAssumption DEF IInv, StoreType, EventInv, LockInv, ProgressInv,
      DeferInv, DrainHoldsWal, DrainHoldsLock, DrainBusy, Answer
<1> QED BY <1>1, <1>2, <1>3, <1>6, <1>7, <1>8, <1>9 DEF IInv

\* A group refused because the LOCK cannot be opened keeps the inductive invariant.
LEMMA DrainUnwritableKeeps ==
    ASSUME IInv, DrainUnwritable PROVE IInv'
<1>1. StoreType'
    BY BoundsAssumption DEF IInv, StoreType, BoundInv, Commits, DrainUnwritable,
      Answer
<1>2. LockInv'
    BY ThreadsAssumption DEF IInv, StoreType, LockInv, DrainHoldsWal,
      DrainHoldsLock, DrainUnwritable, Answer
<1>3. BoundInv'
    BY ThreadsAssumption DEF IInv, StoreType, LockInv, BoundInv, DrainHoldsWal,
      DrainHoldsLock, DrainUnwritable, Answer
<1>4. DurableKept BY DEF IInv, StoreType, BoundInv, DurableKept, DrainUnwritable, Answer
<1>5. \A c : OnDisk(c) => OnDisk(c)' BY <1>4 DEF DurableKept, OnDisk
<1>6. ProgressInv'
    BY <1>5, ThreadsAssumption DEF IInv, StoreType, LockInv, ProgressInv, InWal,
      DrainHoldsWal, DrainHoldsLock, DrainUnwritable, Answer
<1>7. DeferInv'
    BY ThreadsAssumption DEF IInv, StoreType, LockInv, DeferInv, DrainHoldsWal,
      DrainHoldsLock, DrainUnwritable, Answer
<1>8. AckInv' BY <1>5 DEF IInv, StoreType, AckInv, ProgressInv, DrainUnwritable, Answer
<1>9. EventInv'
    BY <1>5, ThreadsAssumption DEF IInv, StoreType, EventInv, LockInv, ProgressInv,
      DeferInv, DrainHoldsWal, DrainHoldsLock, DrainUnwritable, Answer
<1> QED BY <1>1, <1>2, <1>3, <1>6, <1>7, <1>8, <1>9 DEF IInv

\* Entering the write scope with the LOCK held keeps the inductive invariant.
LEMMA DrainEntersKeeps ==
    ASSUME IInv, DrainEnters PROVE IInv'
<1>1. StoreType' BY BoundsAssumption DEF IInv, StoreType, BoundInv, Commits, DrainEnters
<1>2. LockInv'
    BY ThreadsAssumption DEF IInv, StoreType, LockInv, DrainHoldsWal,
      DrainHoldsLock, DrainEnters
<1>3. BoundInv'
    BY ThreadsAssumption DEF IInv, StoreType, LockInv, BoundInv, DrainHoldsWal,
      DrainHoldsLock, DrainEnters
<1>4. DurableKept BY DEF IInv, StoreType, BoundInv, DurableKept, DrainEnters
<1>5. \A c : OnDisk(c) => OnDisk(c)' BY <1>4 DEF DurableKept, OnDisk
<1>6. ProgressInv'
    BY <1>5, ThreadsAssumption DEF IInv, StoreType, LockInv, ProgressInv, InWal,
      DrainHoldsWal, DrainHoldsLock, DrainEnters
<1>7. DeferInv'
    BY ThreadsAssumption DEF IInv, StoreType, LockInv, DeferInv, DrainHoldsWal,
      DrainHoldsLock, DrainEnters
<1>8. AckInv' BY <1>5 DEF IInv, StoreType, AckInv, ProgressInv, DrainEnters
<1>9. EventInv'
    BY <1>5, ThreadsAssumption DEF IInv, StoreType, EventInv, LockInv, ProgressInv,
      DeferInv, DrainHoldsWal, DrainHoldsLock, DrainEnters
<1> QED BY <1>1, <1>2, <1>3, <1>6, <1>7, <1>8, <1>9 DEF IInv

\* The refresh at the start of a group keeps the inductive invariant.
LEMMA DrainRefreshesKeeps ==
    ASSUME IInv, DrainRefreshes PROVE IInv'
<1>1. StoreType'
    BY BoundsAssumption DEF IInv, StoreType, BoundInv, Commits, DrainRefreshes
<1>2. LockInv'
    BY ThreadsAssumption DEF IInv, StoreType, LockInv, DrainHoldsWal,
      DrainHoldsLock, DrainRefreshes
<1>3. BoundInv'
    BY ThreadsAssumption DEF IInv, StoreType, LockInv, BoundInv, DrainHoldsWal,
      DrainHoldsLock, DrainRefreshes
<1>4. DurableKept BY DEF IInv, StoreType, BoundInv, DurableKept, DrainRefreshes
<1>5. \A c : OnDisk(c) => OnDisk(c)' BY <1>4 DEF DurableKept, OnDisk
<1>6. ProgressInv'
    BY <1>5, ThreadsAssumption DEF IInv, StoreType, LockInv, ProgressInv, InWal,
      DrainHoldsWal, DrainHoldsLock, DrainRefreshes
<1>7. DeferInv'
    BY ThreadsAssumption DEF IInv, StoreType, LockInv, DeferInv, DrainHoldsWal,
      DrainHoldsLock, DrainRefreshes
<1>8. AckInv' BY <1>5 DEF IInv, StoreType, AckInv, ProgressInv, DrainRefreshes
<1>9. EventInv'
    BY <1>5, ThreadsAssumption DEF IInv, StoreType, EventInv, LockInv, ProgressInv,
      DeferInv, DrainHoldsWal, DrainHoldsLock, DrainRefreshes
<1> QED BY <1>1, <1>2, <1>3, <1>6, <1>7, <1>8, <1>9 DEF IInv

\* A refresh that fails, degrading the handle, keeps the inductive invariant.
LEMMA DrainRefreshFailsKeeps ==
    ASSUME IInv, DrainRefreshFails PROVE IInv'
<1>1. StoreType'
    BY BoundsAssumption DEF IInv, StoreType, BoundInv, Commits, DrainRefreshFails
<1>2. LockInv'
    BY ThreadsAssumption DEF IInv, StoreType, LockInv, DrainHoldsWal,
      DrainHoldsLock, DrainRefreshFails
<1>3. BoundInv'
    BY ThreadsAssumption DEF IInv, StoreType, LockInv, BoundInv, DrainHoldsWal,
      DrainHoldsLock, DrainRefreshFails
<1>4. DurableKept BY DEF IInv, StoreType, BoundInv, DurableKept, DrainRefreshFails
<1>5. \A c : OnDisk(c) => OnDisk(c)' BY <1>4 DEF DurableKept, OnDisk
<1>6. ProgressInv'
    BY <1>5, ThreadsAssumption DEF IInv, StoreType, LockInv, ProgressInv, InWal,
      DrainHoldsWal, DrainHoldsLock, DrainRefreshFails
<1>7. DeferInv'
    BY ThreadsAssumption DEF IInv, StoreType, LockInv, DeferInv, DrainHoldsWal,
      DrainHoldsLock, DrainRefreshFails
<1>8. AckInv' BY <1>5 DEF IInv, StoreType, AckInv, ProgressInv, DrainRefreshFails
<1>9. EventInv'
    BY <1>5, ThreadsAssumption DEF IInv, StoreType, EventInv, LockInv, ProgressInv,
      DeferInv, DrainHoldsWal, DrainHoldsLock, DrainRefreshFails
<1> QED BY <1>1, <1>2, <1>3, <1>6, <1>7, <1>8, <1>9 DEF IInv

\* Telling a group of its failure keeps the inductive invariant: it acknowledges nothing.
LEMMA DrainReportsFailureKeeps ==
    ASSUME IInv, DrainReportsFailure PROVE IInv'
<1>1. StoreType'
    BY BoundsAssumption, EmptyLogs DEF IInv, StoreType, DrainReportsFailure, Answer
<1>2. LockInv'
    BY ThreadsAssumption DEF IInv, StoreType, LockInv, DrainHoldsWal,
      DrainHoldsLock, DrainReportsFailure, Answer
<1>3. BoundInv'
    BY ThreadsAssumption DEF IInv, StoreType, LockInv, BoundInv, DrainHoldsWal,
      DrainHoldsLock, DrainReportsFailure, Answer
<1>4. DurableKept
    BY DEF IInv, StoreType, BoundInv, DurableKept, DrainReportsFailure, Answer
<1>5. \A c : OnDisk(c) => OnDisk(c)' BY <1>4 DEF DurableKept, OnDisk
<1>6. ProgressInv'
    BY <1>5, ThreadsAssumption DEF IInv, StoreType, LockInv, ProgressInv, InWal,
      DrainHoldsWal, DrainHoldsLock, DrainReportsFailure, Answer
<1>7. DeferInv'
    BY ThreadsAssumption DEF IInv, StoreType, LockInv, DeferInv, DrainHoldsWal,
      DrainHoldsLock, DrainReportsFailure, Answer
<1>8. AckInv'
    BY <1>5 DEF IInv, StoreType, AckInv, ProgressInv, DrainReportsFailure, Answer
<1>9. EventInv'
    BY <1>5, ThreadsAssumption DEF IInv, StoreType, EventInv, LockInv, ProgressInv,
      DeferInv, DrainHoldsWal, DrainHoldsLock, DrainReportsFailure, Answer
<1> QED BY <1>1, <1>2, <1>3, <1>6, <1>7, <1>8, <1>9 DEF IInv

\* A group ended by a failed format upgrade keeps the inductive invariant.
LEMMA DrainUpgradeFailsKeeps ==
    ASSUME IInv, DrainUpgradeFails PROVE IInv'
<1>1. StoreType'
    BY BoundsAssumption DEF IInv, StoreType, BoundInv, Commits, DrainUpgradeFails,
      Answer
<1>2. LockInv'
    BY ThreadsAssumption DEF IInv, StoreType, LockInv, DrainHoldsWal,
      DrainHoldsLock, DrainUpgradeFails, Answer
<1>3. BoundInv'
    BY ThreadsAssumption DEF IInv, StoreType, LockInv, BoundInv, DrainHoldsWal,
      DrainHoldsLock, DrainUpgradeFails, Answer
<1>4. DurableKept BY DEF IInv, StoreType, BoundInv, DurableKept, DrainUpgradeFails, Answer
<1>5. \A c : OnDisk(c) => OnDisk(c)' BY <1>4 DEF DurableKept, OnDisk
<1>6. ProgressInv'
    BY <1>5, ThreadsAssumption DEF IInv, StoreType, LockInv, ProgressInv, InWal,
      DrainHoldsWal, DrainHoldsLock, DrainUpgradeFails, Answer
<1>7. DeferInv'
    BY ThreadsAssumption DEF IInv, StoreType, LockInv, DeferInv, DrainHoldsWal,
      DrainHoldsLock, DrainUpgradeFails, Answer
<1>8. AckInv' BY <1>5 DEF IInv, StoreType, AckInv, ProgressInv, DrainUpgradeFails, Answer
<1>9. EventInv'
    BY <1>5, ThreadsAssumption DEF IInv, StoreType, EventInv, LockInv, ProgressInv,
      DeferInv, DrainHoldsWal, DrainHoldsLock, DrainUpgradeFails, Answer
<1> QED BY <1>1, <1>2, <1>3, <1>6, <1>7, <1>8, <1>9 DEF IInv

\* Measuring the WAL before the group keeps the inductive invariant.
LEMMA DrainBeginsGroupKeeps ==
    ASSUME IInv, DrainBeginsGroup PROVE IInv'
<1>1. StoreType'
    BY BoundsAssumption DEF IInv, StoreType, BoundInv, Commits, DrainBeginsGroup,
      DefersEvents
<1>2. LockInv'
    BY ThreadsAssumption DEF IInv, StoreType, LockInv, DrainHoldsWal,
      DrainHoldsLock, DrainBeginsGroup, DefersEvents
<1>3. BoundInv'
    BY ThreadsAssumption DEF IInv, StoreType, LockInv, BoundInv, DrainHoldsWal,
      DrainHoldsLock, DrainBeginsGroup, DefersEvents
<1>4. DurableKept
    BY DEF IInv, StoreType, BoundInv, DurableKept, DrainBeginsGroup, DefersEvents
<1>5. \A c : OnDisk(c) => OnDisk(c)' BY <1>4 DEF DurableKept, OnDisk
<1>6. ProgressInv'
    BY <1>5, ThreadsAssumption DEF IInv, StoreType, LockInv, ProgressInv, InWal,
      DrainHoldsWal, DrainHoldsLock, DrainBeginsGroup, DefersEvents
<1>7. DeferInv'
    BY ThreadsAssumption DEF IInv, StoreType, LockInv, DeferInv, DrainHoldsWal,
      DrainHoldsLock, DrainBeginsGroup, DefersEvents
<1>8. AckInv'
    BY <1>5 DEF IInv, StoreType, AckInv, ProgressInv, DrainBeginsGroup, DefersEvents
<1>9. EventInv'
    BY <1>5, ThreadsAssumption DEF IInv, StoreType, EventInv, LockInv, ProgressInv,
      DeferInv, DrainHoldsWal, DrainHoldsLock, DrainBeginsGroup, DefersEvents
<1> QED BY <1>1, <1>2, <1>3, <1>6, <1>7, <1>8, <1>9 DEF IInv

\* One submission of the group, appended or refused, keeps the inductive invariant.
LEMMA DrainAppliesKeeps ==
    ASSUME IInv, DrainApplies PROVE IInv'
<1>a. Head(todo) \in Submitters /\ Head(todo) \in Commits /\ Tail(todo) \in Seq(Submitters)
    BY DEF IInv, StoreType, Commits, DrainApplies
<1>b. \/ wal' = Append(wal, Head(todo)) /\ applied' = applied \cup {Head(todo)} /\ Notify(Head(todo))
      \/ wal' = wal /\ applied' = applied /\ deferred_events' = deferred_events /\ events' = events
    BY DEF DrainApplies
<1>c. Len(wal) \in Nat /\ wal' \in Seq(Commits) /\ Len(wal) <= Len(wal')
      /\ \A i \in 1..Len(wal) : wal'[i] = wal[i]
    BY <1>a, <1>b, AppendWal DEF IInv, StoreType
<1>1. StoreType'
  <2>1. applied' \in SUBSET Submitters BY <1>a, <1>b DEF IInv, StoreType
  <2>2. events' \in Seq(Commits) /\ deferred_events' \in Seq(Commits)
      BY <1>a, <1>b, AppendLog, ZenonT(30) DEF IInv, StoreType, Notify
  <2> QED BY <1>a, <1>c, <2>1, <2>2 DEF IInv, StoreType, DrainApplies
<1>2. LockInv'
    BY ThreadsAssumption DEF IInv, StoreType, LockInv, DrainHoldsWal,
      DrainHoldsLock, DrainApplies, Notify
<1>3. BoundInv'
    BY ThreadsAssumption DEF IInv, StoreType, LockInv, BoundInv, DrainHoldsWal,
      DrainHoldsLock, DrainApplies, Notify
<1>4. DurableKept BY <1>c DEF IInv, StoreType, BoundInv, DurableKept, DrainApplies
<1>5. \A c : OnDisk(c) => OnDisk(c)' BY <1>4 DEF DurableKept, OnDisk
<1>6. ProgressInv'
  <2>1. \A c : InWal(c) => InWal(c)' BY <1>c DEF InWal
  <2>2. \A s \in applied' : s \in applied \/ InWal(s)'
      BY <1>a, <1>b, AppendLog DEF IInv, StoreType, InWal
  <2> QED BY <1>5, <2>1, <2>2 DEF IInv, ProgressInv, DrainApplies
<1>7. DeferInv'
  <2>0. \A i \in 1..Len(deferred_events) : deferred_events[i] \in applied
      BY DEF IInv, DeferInv, DrainApplies
  <2>1. \A i \in 1..Len(deferred_events') : deferred_events'[i] \in applied'
    <3>1. CASE deferred_events' = deferred_events BY <1>b, <2>0, <3>1
    <3>2. CASE deferred_events' = Append(deferred_events, Head(todo))
               /\ applied' = applied \cup {Head(todo)}
        BY <1>a, <2>0, <3>2, AppendLog DEF IInv, StoreType
    <3> QED BY <1>b, <3>1, <3>2 DEF Notify
  <2>2. ~defer_events => deferred_events' = deferred_events
      BY <1>b DEF Notify
  <2> QED BY <2>1, <2>2 DEF IInv, DeferInv, DrainApplies
<1>8. AckInv' BY <1>5 DEF IInv, StoreType, AckInv, ProgressInv, DrainApplies, Notify
<1>9. EventInv'
  <2>1. Strict => events' = events
      BY <1>b, BoundsAssumption DEF IInv, DeferInv, Notify, DrainApplies
  <2> QED BY <1>5, <2>1 DEF IInv, EventInv
<1> QED BY <1>1, <1>2, <1>3, <1>6, <1>7, <1>8, <1>9 DEF IInv

\* Letting the write guard go before the fsync keeps the inductive invariant: the LOCK stays held.
LEMMA DrainEndsGroupKeeps ==
    ASSUME IInv, DrainEndsGroup PROVE IInv'
<1>1. StoreType'
    BY BoundsAssumption DEF IInv, StoreType, BoundInv, Commits, DrainEndsGroup
<1>2. LockInv'
    BY ThreadsAssumption DEF IInv, StoreType, LockInv, DrainHoldsWal,
      DrainHoldsLock, DrainEndsGroup
<1>3. BoundInv'
    BY ThreadsAssumption DEF IInv, StoreType, LockInv, BoundInv, DrainHoldsWal,
      DrainHoldsLock, DrainEndsGroup
<1>4. DurableKept BY DEF IInv, StoreType, BoundInv, DurableKept, DrainEndsGroup
<1>5. \A c : OnDisk(c) => OnDisk(c)' BY <1>4 DEF DurableKept, OnDisk
<1>6. ProgressInv'
    BY <1>5, ThreadsAssumption DEF IInv, StoreType, LockInv, ProgressInv, InWal,
      DrainHoldsWal, DrainHoldsLock, DrainEndsGroup
<1>7. DeferInv'
    BY ThreadsAssumption DEF IInv, StoreType, LockInv, DeferInv, DrainHoldsWal,
      DrainHoldsLock, DrainEndsGroup
<1>8. AckInv' BY <1>5 DEF IInv, StoreType, AckInv, ProgressInv, DrainEndsGroup
<1>9. EventInv'
    BY <1>5, ThreadsAssumption DEF IInv, StoreType, EventInv, LockInv, ProgressInv,
      DeferInv, DrainHoldsWal, DrainHoldsLock, DrainEndsGroup
<1> QED BY <1>1, <1>2, <1>3, <1>6, <1>7, <1>8, <1>9 DEF IInv

\* The group fsync keeps the inductive invariant: every applied frame is now durable.
LEMMA DrainSyncsKeeps ==
    ASSUME IInv, DrainSyncs PROVE IInv'
<1>1. StoreType'
    BY BoundsAssumption DEF IInv, StoreType, BoundInv, Commits, DrainSyncs,
      GroupNeedsSync
<1>2. LockInv'
    BY ThreadsAssumption DEF IInv, StoreType, LockInv, DrainHoldsWal,
      DrainHoldsLock, DrainSyncs, GroupNeedsSync
<1>3. BoundInv'
    BY ThreadsAssumption DEF IInv, StoreType, LockInv, BoundInv, DrainHoldsWal,
      DrainHoldsLock, DrainSyncs, GroupNeedsSync
<1>4. DurableKept
    BY DEF IInv, StoreType, BoundInv, DurableKept, DrainSyncs, GroupNeedsSync
<1>5. \A c : OnDisk(c) => OnDisk(c)' BY <1>4 DEF DurableKept, OnDisk
<1>6. ProgressInv'
  <2>1. \A c : InWal(c) => InWal(c)' BY DEF InWal, DrainSyncs
  <2>2. Strict => \A s \in applied : OnDisk(s)'
      BY DEF IInv, ProgressInv, InWal, OnDisk, DrainSyncs, GroupNeedsSync
  <2> QED
      BY <1>5, <2>1, <2>2, BoundsAssumption DEF IInv, StoreType, ProgressInv, DrainSyncs
<1>7. DeferInv'
    BY ThreadsAssumption DEF IInv, StoreType, LockInv, DeferInv, DrainHoldsWal,
      DrainHoldsLock, DrainSyncs, GroupNeedsSync
<1>8. AckInv' BY <1>5 DEF IInv, StoreType, AckInv, ProgressInv, DrainSyncs, GroupNeedsSync
<1>9. EventInv'
    BY <1>5, ThreadsAssumption DEF IInv, StoreType, EventInv, LockInv, ProgressInv,
      DeferInv, DrainHoldsWal, DrainHoldsLock, DrainSyncs, GroupNeedsSync
<1> QED BY <1>1, <1>2, <1>3, <1>6, <1>7, <1>8, <1>9 DEF IInv

\* A failing group fsync keeps the inductive invariant: nothing of the group is acknowledged yet.
LEMMA DrainSyncFailsKeeps ==
    ASSUME IInv, DrainSyncFails PROVE IInv'
<1>1. StoreType'
    BY BoundsAssumption DEF IInv, StoreType, BoundInv, Commits, DrainSyncFails,
      GroupNeedsSync
<1>2. LockInv'
    BY ThreadsAssumption DEF IInv, StoreType, LockInv, DrainHoldsWal,
      DrainHoldsLock, DrainSyncFails, GroupNeedsSync
<1>3. BoundInv'
    BY ThreadsAssumption DEF IInv, StoreType, LockInv, BoundInv, DrainHoldsWal,
      DrainHoldsLock, DrainSyncFails, GroupNeedsSync
<1>4. DurableKept
    BY DEF IInv, StoreType, BoundInv, DurableKept, DrainSyncFails, GroupNeedsSync
<1>5. \A c : OnDisk(c) => OnDisk(c)' BY <1>4 DEF DurableKept, OnDisk
<1>6. ProgressInv'
    BY <1>5, ThreadsAssumption DEF IInv, StoreType, LockInv, ProgressInv, InWal,
      DrainHoldsWal, DrainHoldsLock, DrainSyncFails, GroupNeedsSync
<1>7. DeferInv'
    BY ThreadsAssumption DEF IInv, StoreType, LockInv, DeferInv, DrainHoldsWal,
      DrainHoldsLock, DrainSyncFails, GroupNeedsSync
<1>8. AckInv'
    BY <1>5 DEF IInv, StoreType, AckInv, ProgressInv, DrainSyncFails, GroupNeedsSync
<1>9. EventInv'
    BY <1>5, ThreadsAssumption DEF IInv, StoreType, EventInv, LockInv, ProgressInv,
      DeferInv, DrainHoldsWal, DrainHoldsLock, DrainSyncFails, GroupNeedsSync
<1> QED BY <1>1, <1>2, <1>3, <1>6, <1>7, <1>8, <1>9 DEF IInv

\* Truncating the failed group keeps the inductive invariant: what was durable before it stays.
LEMMA DrainTruncatesKeeps ==
    ASSUME IInv, DrainTruncates PROVE IInv'
<1>1. StoreType'
  <2>0. wal \in Seq(Commits) /\ pre_len \in Nat /\ pre_len <= Len(wal)
      BY DEF IInv, StoreType, BoundInv, DrainTruncates
  <2>1. wal' \in Seq(Commits) BY <2>0, CutLog DEF DrainTruncates, CutAt
  <2>2. synced' \in Nat BY DEF IInv, StoreType, DrainTruncates, CutAt, Least
  <2> QED BY <2>1, <2>2 DEF IInv, StoreType, DrainTruncates
<1>2. LockInv'
    BY ThreadsAssumption DEF IInv, StoreType, LockInv, DrainHoldsWal,
      DrainHoldsLock, DrainTruncates, CutAt, Least
<1>3. BoundInv'
    BY ThreadsAssumption DEF IInv, StoreType, LockInv, BoundInv, DrainHoldsWal,
      DrainHoldsLock, DrainTruncates, CutAt, Least
<1>4. DurableKept
    BY DEF IInv, StoreType, BoundInv, DurableKept, DrainTruncates, CutAt, Least
<1>5. \A c : OnDisk(c) => OnDisk(c)' BY <1>4 DEF DurableKept, OnDisk
<1>6. ProgressInv'
    BY <1>5, ThreadsAssumption DEF IInv, StoreType, LockInv, ProgressInv, InWal,
      DrainHoldsWal, DrainHoldsLock, DrainTruncates, CutAt, Least
<1>7. DeferInv'
    BY ThreadsAssumption DEF IInv, StoreType, LockInv, DeferInv, DrainHoldsWal,
      DrainHoldsLock, DrainTruncates, CutAt, Least
<1>8. AckInv'
    BY <1>5 DEF IInv, StoreType, AckInv, ProgressInv, DrainTruncates, CutAt, Least
<1>9. EventInv'
    BY <1>5, ThreadsAssumption DEF IInv, StoreType, EventInv, LockInv, ProgressInv,
      DeferInv, DrainHoldsWal, DrainHoldsLock, DrainTruncates, CutAt, Least
<1> QED BY <1>1, <1>2, <1>3, <1>6, <1>7, <1>8, <1>9 DEF IInv

\* Degrading the handle and discarding its events keeps the inductive invariant.
LEMMA DrainDegradesKeeps ==
    ASSUME IInv, DrainDegrades PROVE IInv'
<1>1. StoreType'
    BY BoundsAssumption, EmptyLogs DEF IInv, StoreType, DrainDegrades, Answer
<1>2. LockInv'
    BY ThreadsAssumption DEF IInv, StoreType, LockInv, DrainHoldsWal,
      DrainHoldsLock, DrainDegrades, Answer
<1>3. BoundInv'
    BY ThreadsAssumption DEF IInv, StoreType, LockInv, BoundInv, DrainHoldsWal,
      DrainHoldsLock, DrainDegrades, Answer
<1>4. DurableKept BY DEF IInv, StoreType, BoundInv, DurableKept, DrainDegrades, Answer
<1>5. \A c : OnDisk(c) => OnDisk(c)' BY <1>4 DEF DurableKept, OnDisk
<1>6. ProgressInv'
    BY <1>5, ThreadsAssumption DEF IInv, StoreType, LockInv, ProgressInv, InWal,
      DrainHoldsWal, DrainHoldsLock, DrainDegrades, Answer
<1>7. DeferInv'
    BY ThreadsAssumption DEF IInv, StoreType, LockInv, DeferInv, DrainHoldsWal,
      DrainHoldsLock, DrainDegrades, Answer
<1>8. AckInv' BY <1>5 DEF IInv, StoreType, AckInv, ProgressInv, DrainDegrades, Answer
<1>9. EventInv'
    BY <1>5, ThreadsAssumption DEF IInv, StoreType, EventInv, LockInv, ProgressInv,
      DeferInv, DrainHoldsWal, DrainHoldsLock, DrainDegrades, Answer
<1> QED BY <1>1, <1>2, <1>3, <1>6, <1>7, <1>8, <1>9 DEF IInv

\* Flushing the deferred events keeps the inductive invariant: their commits are durable.
LEMMA DrainFlushesKeeps ==
    ASSUME IInv, DrainFlushes PROVE IInv'
<1>1. StoreType'
  <2>1. events' \in Seq(Commits) BY JoinLog DEF IInv, StoreType, DrainFlushes
  <2> QED BY <2>1, EmptyLogs DEF IInv, StoreType, DrainFlushes
<1>2. LockInv'
    BY ThreadsAssumption DEF IInv, StoreType, LockInv, DrainHoldsWal,
      DrainHoldsLock, DrainFlushes
<1>3. BoundInv'
    BY ThreadsAssumption DEF IInv, StoreType, LockInv, BoundInv, DrainHoldsWal,
      DrainHoldsLock, DrainFlushes
<1>4. DurableKept BY DEF IInv, StoreType, BoundInv, DurableKept, DrainFlushes
<1>5. \A c : OnDisk(c) => OnDisk(c)' BY <1>4 DEF DurableKept, OnDisk
<1>6. ProgressInv'
    BY <1>5, ThreadsAssumption DEF IInv, StoreType, LockInv, ProgressInv, InWal,
      DrainHoldsWal, DrainHoldsLock, DrainFlushes
<1>7. DeferInv'
    BY ThreadsAssumption DEF IInv, StoreType, LockInv, DeferInv, DrainHoldsWal,
      DrainHoldsLock, DrainFlushes
<1>8. AckInv' BY <1>5 DEF IInv, StoreType, AckInv, ProgressInv, DrainFlushes
<1>9. EventInv'
    BY <1>5, ThreadsAssumption DEF IInv, StoreType, EventInv, LockInv, ProgressInv,
      DeferInv, DrainHoldsWal, DrainHoldsLock, DrainFlushes
<1> QED BY <1>1, <1>2, <1>3, <1>6, <1>7, <1>8, <1>9 DEF IInv

\* Releasing the LOCK and the WAL mutex keeps the inductive invariant.
LEMMA DrainEndsKeeps ==
    ASSUME IInv, DrainEnds PROVE IInv'
<1>1. StoreType' BY BoundsAssumption DEF IInv, StoreType, BoundInv, Commits, DrainEnds
<1>2. LockInv'
    BY ThreadsAssumption DEF IInv, StoreType, LockInv, DrainHoldsWal,
      DrainHoldsLock, DrainEnds
<1>3. BoundInv'
    BY ThreadsAssumption DEF IInv, StoreType, LockInv, BoundInv, DrainHoldsWal,
      DrainHoldsLock, DrainEnds
<1>4. DurableKept BY DEF IInv, StoreType, BoundInv, DurableKept, DrainEnds
<1>5. \A c : OnDisk(c) => OnDisk(c)' BY <1>4 DEF DurableKept, OnDisk
<1>6. ProgressInv'
    BY <1>5, ThreadsAssumption DEF IInv, StoreType, LockInv, ProgressInv, InWal,
      DrainHoldsWal, DrainHoldsLock, DrainEnds
<1>7. DeferInv'
    BY ThreadsAssumption DEF IInv, StoreType, LockInv, DeferInv, DrainHoldsWal,
      DrainHoldsLock, DrainEnds
<1>8. AckInv' BY <1>5 DEF IInv, StoreType, AckInv, ProgressInv, DrainEnds
<1>9. EventInv'
    BY <1>5, ThreadsAssumption DEF IInv, StoreType, EventInv, LockInv, ProgressInv,
      DeferInv, DrainHoldsWal, DrainHoldsLock, DrainEnds
<1> QED BY <1>1, <1>2, <1>3, <1>6, <1>7, <1>8, <1>9 DEF IInv

\* Answering the group keeps the inductive invariant: whoever hears ok has a durable frame.
LEMMA DrainAnswersKeeps ==
    ASSUME IInv, DrainAnswers PROVE IInv'
<1>1. StoreType'
    BY BoundsAssumption DEF IInv, StoreType, BoundInv, Commits, DrainAnswers, Answer
<1>2. LockInv'
    BY ThreadsAssumption DEF IInv, StoreType, LockInv, DrainHoldsWal,
      DrainHoldsLock, DrainAnswers, Answer
<1>3. BoundInv'
    BY ThreadsAssumption DEF IInv, StoreType, LockInv, BoundInv, DrainHoldsWal,
      DrainHoldsLock, DrainAnswers, Answer
<1>4. DurableKept BY DEF IInv, StoreType, BoundInv, DurableKept, DrainAnswers, Answer
<1>5. \A c : OnDisk(c) => OnDisk(c)' BY <1>4 DEF DurableKept, OnDisk
<1>6. ProgressInv'
    BY <1>5, ThreadsAssumption DEF IInv, StoreType, LockInv, ProgressInv, InWal,
      DrainHoldsWal, DrainHoldsLock, DrainAnswers, Answer
<1>7. DeferInv'
    BY ThreadsAssumption DEF IInv, StoreType, LockInv, DeferInv, DrainHoldsWal,
      DrainHoldsLock, DrainAnswers, Answer
<1>8. AckInv' BY <1>5 DEF IInv, StoreType, AckInv, ProgressInv, DrainAnswers, Answer
<1>9. EventInv'
    BY <1>5, ThreadsAssumption DEF IInv, StoreType, EventInv, LockInv, ProgressInv,
      DeferInv, DrainHoldsWal, DrainHoldsLock, DrainAnswers, Answer
<1> QED BY <1>1, <1>2, <1>3, <1>6, <1>7, <1>8, <1>9 DEF IInv

\* A direct writer taking the WAL mutex keeps the inductive invariant.
LEMMA WriteLocksWalKeeps ==
    ASSUME IInv, NEW w \in Writers, WriteLocksWal(w) PROVE IInv'
<1>1. StoreType' BY BoundsAssumption DEF IInv, StoreType, BoundInv, Commits, WriteLocksWal
<1>2. LockInv'
    BY ThreadsAssumption DEF IInv, StoreType, LockInv, DrainHoldsWal,
      DrainHoldsLock, WriteLocksWal
<1>3. BoundInv'
    BY ThreadsAssumption DEF IInv, StoreType, LockInv, BoundInv, DrainHoldsWal,
      DrainHoldsLock, WriteLocksWal
<1>4. DurableKept BY DEF IInv, StoreType, BoundInv, DurableKept, WriteLocksWal
<1>5. \A c : OnDisk(c) => OnDisk(c)' BY <1>4 DEF DurableKept, OnDisk
<1>6. ProgressInv'
    BY <1>5, ThreadsAssumption DEF IInv, StoreType, LockInv, ProgressInv, InWal,
      DrainHoldsWal, DrainHoldsLock, WriteLocksWal
<1>7. DeferInv'
    BY ThreadsAssumption DEF IInv, StoreType, LockInv, DeferInv, DrainHoldsWal,
      DrainHoldsLock, WriteLocksWal
<1>8. AckInv' BY <1>5 DEF IInv, StoreType, AckInv, ProgressInv, WriteLocksWal
<1>9. EventInv'
    BY <1>5, ThreadsAssumption DEF IInv, StoreType, EventInv, LockInv, ProgressInv,
      DeferInv, DrainHoldsWal, DrainHoldsLock, WriteLocksWal
<1> QED BY <1>1, <1>2, <1>3, <1>6, <1>7, <1>8, <1>9 DEF IInv

\* A direct writer's poll of a busy LOCK keeps the inductive invariant.
LEMMA WritePollsKeeps ==
    ASSUME IInv, NEW w \in Writers, WritePolls(w) PROVE IInv'
<1>1. StoreType' BY BoundsAssumption DEF IInv, StoreType, BoundInv, Commits, WritePolls
<1>2. LockInv'
    BY ThreadsAssumption DEF IInv, StoreType, LockInv, DrainHoldsWal,
      DrainHoldsLock, WritePolls
<1>3. BoundInv'
    BY ThreadsAssumption DEF IInv, StoreType, LockInv, BoundInv, DrainHoldsWal,
      DrainHoldsLock, WritePolls
<1>4. DurableKept BY DEF IInv, StoreType, BoundInv, DurableKept, WritePolls
<1>5. \A c : OnDisk(c) => OnDisk(c)' BY <1>4 DEF DurableKept, OnDisk
<1>6. ProgressInv'
    BY <1>5, ThreadsAssumption DEF IInv, StoreType, LockInv, ProgressInv, InWal,
      DrainHoldsWal, DrainHoldsLock, WritePolls
<1>7. DeferInv'
    BY ThreadsAssumption DEF IInv, StoreType, LockInv, DeferInv, DrainHoldsWal,
      DrainHoldsLock, WritePolls
<1>8. AckInv' BY <1>5 DEF IInv, StoreType, AckInv, ProgressInv, WritePolls
<1>9. EventInv'
    BY <1>5, ThreadsAssumption DEF IInv, StoreType, EventInv, LockInv, ProgressInv,
      DeferInv, DrainHoldsWal, DrainHoldsLock, WritePolls
<1> QED BY <1>1, <1>2, <1>3, <1>6, <1>7, <1>8, <1>9 DEF IInv

\* A direct writer entering its write scope keeps the inductive invariant.
LEMMA WriteEntersKeeps ==
    ASSUME IInv, NEW w \in Writers, WriteEnters(w) PROVE IInv'
<1>1. StoreType' BY BoundsAssumption DEF IInv, StoreType, BoundInv, Commits, WriteEnters
<1>2. LockInv'
    BY ThreadsAssumption DEF IInv, StoreType, LockInv, DrainHoldsWal,
      DrainHoldsLock, WriteEnters
<1>3. BoundInv'
    BY ThreadsAssumption DEF IInv, StoreType, LockInv, BoundInv, DrainHoldsWal,
      DrainHoldsLock, WriteEnters
<1>4. DurableKept BY DEF IInv, StoreType, BoundInv, DurableKept, WriteEnters
<1>5. \A c : OnDisk(c) => OnDisk(c)' BY <1>4 DEF DurableKept, OnDisk
<1>6. ProgressInv'
    BY <1>5, ThreadsAssumption DEF IInv, StoreType, LockInv, ProgressInv, InWal,
      DrainHoldsWal, DrainHoldsLock, WriteEnters
<1>7. DeferInv'
    BY ThreadsAssumption DEF IInv, StoreType, LockInv, DeferInv, DrainHoldsWal,
      DrainHoldsLock, WriteEnters
<1>8. AckInv' BY <1>5 DEF IInv, StoreType, AckInv, ProgressInv, WriteEnters
<1>9. EventInv'
    BY <1>5, ThreadsAssumption DEF IInv, StoreType, EventInv, LockInv, ProgressInv,
      DeferInv, DrainHoldsWal, DrainHoldsLock, WriteEnters
<1> QED BY <1>1, <1>2, <1>3, <1>6, <1>7, <1>8, <1>9 DEF IInv

\* A direct writer whose refresh fails keeps the inductive invariant.
LEMMA WriteRefreshFailsKeeps ==
    ASSUME IInv, NEW w \in Writers, WriteRefreshFails(w) PROVE IInv'
<1>1. StoreType'
    BY BoundsAssumption DEF IInv, StoreType, BoundInv, Commits, WriteRefreshFails
<1>2. LockInv'
    BY ThreadsAssumption DEF IInv, StoreType, LockInv, DrainHoldsWal,
      DrainHoldsLock, WriteRefreshFails
<1>3. BoundInv'
    BY ThreadsAssumption DEF IInv, StoreType, LockInv, BoundInv, DrainHoldsWal,
      DrainHoldsLock, WriteRefreshFails
<1>4. DurableKept BY DEF IInv, StoreType, BoundInv, DurableKept, WriteRefreshFails
<1>5. \A c : OnDisk(c) => OnDisk(c)' BY <1>4 DEF DurableKept, OnDisk
<1>6. ProgressInv'
    BY <1>5, ThreadsAssumption DEF IInv, StoreType, LockInv, ProgressInv, InWal,
      DrainHoldsWal, DrainHoldsLock, WriteRefreshFails
<1>7. DeferInv'
    BY ThreadsAssumption DEF IInv, StoreType, LockInv, DeferInv, DrainHoldsWal,
      DrainHoldsLock, WriteRefreshFails
<1>8. AckInv' BY <1>5 DEF IInv, StoreType, AckInv, ProgressInv, WriteRefreshFails
<1>9. EventInv'
    BY <1>5, ThreadsAssumption DEF IInv, StoreType, EventInv, LockInv, ProgressInv,
      DeferInv, DrainHoldsWal, DrainHoldsLock, WriteRefreshFails
<1> QED BY <1>1, <1>2, <1>3, <1>6, <1>7, <1>8, <1>9 DEF IInv

\* A direct commit, fsynced before it is applied and announced, keeps the inductive invariant.
LEMMA WriteCommitsKeeps ==
    ASSUME IInv, NEW w \in Writers, WriteCommits(w) PROVE IInv'
<1>1. StoreType'
  <2>1. wal' \in Seq(Commits) /\ Len(wal') \in Nat
      BY AppendWal DEF IInv, StoreType, Commits, WriteCommits
  <2>2. events' \in Seq(Commits) /\ deferred_events' \in Seq(Commits)
    <3>1. w \in Commits BY DEF Commits
    <3>2. /\ events' \in {events, Append(events, w)}
          /\ deferred_events' \in {deferred_events, Append(deferred_events, w)}
        BY DEF WriteCommits, Notify
    <3> QED BY <3>1, <3>2, AppendLog, ZenonT(30) DEF IInv, StoreType
  <2> QED BY <2>1, <2>2 DEF IInv, StoreType, WriteCommits
<1>2. LockInv'
    BY ThreadsAssumption DEF IInv, StoreType, LockInv, DrainHoldsWal,
      DrainHoldsLock, WriteCommits, Notify
<1>3. BoundInv'
    BY ThreadsAssumption DEF IInv, StoreType, LockInv, BoundInv, DrainHoldsWal,
      DrainHoldsLock, WriteCommits, Notify
<1>4. DurableKept BY DEF IInv, StoreType, BoundInv, DurableKept, WriteCommits, Notify
<1>5. \A c : OnDisk(c) => OnDisk(c)' BY <1>4 DEF DurableKept, OnDisk
<1>6. ProgressInv'
  <2>1. \A c : InWal(c) => InWal(c)'
      BY AppendWal DEF IInv, StoreType, Commits, WriteCommits
  <2>2. Strict => OnDisk(w)'
      BY AppendWal DEF IInv, StoreType, Commits, OnDisk, WriteCommits
  <2> QED
      BY <1>5, <2>1, <2>2 DEF IInv, StoreType, ProgressInv, WriteCommits
<1>7. DeferInv'
    BY ThreadsAssumption DEF IInv, StoreType, LockInv, DeferInv, DrainHoldsWal,
      DrainHoldsLock, WriteCommits, Notify
<1>8. AckInv' BY <1>5 DEF IInv, StoreType, AckInv, ProgressInv, WriteCommits, Notify
<1>9. EventInv'
  <2>1. ~defer_events
      BY ThreadsAssumption DEF IInv, StoreType, LockInv, DeferInv, DrainHoldsWal, WriteCommits
  <2>2. events' = Append(events, w) BY <2>1 DEF WriteCommits, Notify
  <2>3. Strict => OnDisk(w)'
      BY AppendWal DEF IInv, StoreType, Commits, OnDisk, WriteCommits
  <2>4. \A i \in 1..Len(events') : events'[i] = w \/ \E j \in 1..Len(events) : events'[i] = events[j]
      BY <2>2, AppendLog DEF IInv, StoreType, Commits
  <2> QED BY <1>5, <2>3, <2>4 DEF IInv, EventInv
<1> QED BY <1>1, <1>2, <1>3, <1>6, <1>7, <1>8, <1>9 DEF IInv

\* A direct commit whose fsync fails keeps the inductive invariant: it is not acknowledged.
LEMMA WriteSyncFailsKeeps ==
    ASSUME IInv, NEW w \in Writers, WriteSyncFails(w) PROVE IInv'
<1>1. StoreType'
    BY BoundsAssumption DEF IInv, StoreType, BoundInv, Commits, WriteSyncFails
<1>2. LockInv'
    BY ThreadsAssumption DEF IInv, StoreType, LockInv, DrainHoldsWal,
      DrainHoldsLock, WriteSyncFails
<1>3. BoundInv'
    BY ThreadsAssumption DEF IInv, StoreType, LockInv, BoundInv, DrainHoldsWal,
      DrainHoldsLock, WriteSyncFails
<1>4. DurableKept BY DEF IInv, StoreType, BoundInv, DurableKept, WriteSyncFails
<1>5. \A c : OnDisk(c) => OnDisk(c)' BY <1>4 DEF DurableKept, OnDisk
<1>6. ProgressInv'
    BY <1>5, ThreadsAssumption DEF IInv, StoreType, LockInv, ProgressInv, InWal,
      DrainHoldsWal, DrainHoldsLock, WriteSyncFails
<1>7. DeferInv'
    BY ThreadsAssumption DEF IInv, StoreType, LockInv, DeferInv, DrainHoldsWal,
      DrainHoldsLock, WriteSyncFails
<1>8. AckInv' BY <1>5 DEF IInv, StoreType, AckInv, ProgressInv, WriteSyncFails
<1>9. EventInv'
    BY <1>5, ThreadsAssumption DEF IInv, StoreType, EventInv, LockInv, ProgressInv,
      DeferInv, DrainHoldsWal, DrainHoldsLock, WriteSyncFails
<1> QED BY <1>1, <1>2, <1>3, <1>6, <1>7, <1>8, <1>9 DEF IInv

\* A direct write refused on a degraded handle keeps the inductive invariant.
LEMMA WriteRefusedKeeps ==
    ASSUME IInv, NEW w \in Writers, WriteRefused(w) PROVE IInv'
<1>1. StoreType' BY BoundsAssumption DEF IInv, StoreType, BoundInv, Commits, WriteRefused
<1>2. LockInv'
    BY ThreadsAssumption DEF IInv, StoreType, LockInv, DrainHoldsWal,
      DrainHoldsLock, WriteRefused
<1>3. BoundInv'
    BY ThreadsAssumption DEF IInv, StoreType, LockInv, BoundInv, DrainHoldsWal,
      DrainHoldsLock, WriteRefused
<1>4. DurableKept BY DEF IInv, StoreType, BoundInv, DurableKept, WriteRefused
<1>5. \A c : OnDisk(c) => OnDisk(c)' BY <1>4 DEF DurableKept, OnDisk
<1>6. ProgressInv'
    BY <1>5, ThreadsAssumption DEF IInv, StoreType, LockInv, ProgressInv, InWal,
      DrainHoldsWal, DrainHoldsLock, WriteRefused
<1>7. DeferInv'
    BY ThreadsAssumption DEF IInv, StoreType, LockInv, DeferInv, DrainHoldsWal,
      DrainHoldsLock, WriteRefused
<1>8. AckInv' BY <1>5 DEF IInv, StoreType, AckInv, ProgressInv, WriteRefused
<1>9. EventInv'
    BY <1>5, ThreadsAssumption DEF IInv, StoreType, EventInv, LockInv, ProgressInv,
      DeferInv, DrainHoldsWal, DrainHoldsLock, WriteRefused
<1> QED BY <1>1, <1>2, <1>3, <1>6, <1>7, <1>8, <1>9 DEF IInv

\* A direct writer dropping its guard keeps the inductive invariant.
LEMMA WriteReleasesKeeps ==
    ASSUME IInv, NEW w \in Writers, WriteReleases(w) PROVE IInv'
<1>1. StoreType' BY BoundsAssumption DEF IInv, StoreType, BoundInv, Commits, WriteReleases
<1>2. LockInv'
    BY ThreadsAssumption DEF IInv, StoreType, LockInv, DrainHoldsWal,
      DrainHoldsLock, WriteReleases
<1>3. BoundInv'
    BY ThreadsAssumption DEF IInv, StoreType, LockInv, BoundInv, DrainHoldsWal,
      DrainHoldsLock, WriteReleases
<1>4. DurableKept BY DEF IInv, StoreType, BoundInv, DurableKept, WriteReleases
<1>5. \A c : OnDisk(c) => OnDisk(c)' BY <1>4 DEF DurableKept, OnDisk
<1>6. ProgressInv'
    BY <1>5, ThreadsAssumption DEF IInv, StoreType, LockInv, ProgressInv, InWal,
      DrainHoldsWal, DrainHoldsLock, WriteReleases
<1>7. DeferInv'
    BY ThreadsAssumption DEF IInv, StoreType, LockInv, DeferInv, DrainHoldsWal,
      DrainHoldsLock, WriteReleases
<1>8. AckInv' BY <1>5 DEF IInv, StoreType, AckInv, ProgressInv, WriteReleases
<1>9. EventInv'
    BY <1>5, ThreadsAssumption DEF IInv, StoreType, EventInv, LockInv, ProgressInv,
      DeferInv, DrainHoldsWal, DrainHoldsLock, WriteReleases
<1> QED BY <1>1, <1>2, <1>3, <1>6, <1>7, <1>8, <1>9 DEF IInv

\* A peer taking the LOCK keeps the inductive invariant.
LEMMA PeerLocksKeeps ==
    ASSUME IInv, NEW p \in Peers, PeerLocks(p) PROVE IInv'
<1>1. StoreType' BY BoundsAssumption DEF IInv, StoreType, BoundInv, Commits, PeerLocks
<1>2. LockInv'
    BY ThreadsAssumption DEF IInv, StoreType, LockInv, DrainHoldsWal,
      DrainHoldsLock, PeerLocks
<1>3. BoundInv'
    BY ThreadsAssumption DEF IInv, StoreType, LockInv, BoundInv, DrainHoldsWal,
      DrainHoldsLock, PeerLocks
<1>4. DurableKept BY DEF IInv, StoreType, BoundInv, DurableKept, PeerLocks
<1>5. \A c : OnDisk(c) => OnDisk(c)' BY <1>4 DEF DurableKept, OnDisk
<1>6. ProgressInv'
    BY <1>5, ThreadsAssumption DEF IInv, StoreType, LockInv, ProgressInv, InWal,
      DrainHoldsWal, DrainHoldsLock, PeerLocks
<1>7. DeferInv'
    BY ThreadsAssumption DEF IInv, StoreType, LockInv, DeferInv, DrainHoldsWal,
      DrainHoldsLock, PeerLocks
<1>8. AckInv' BY <1>5 DEF IInv, StoreType, AckInv, ProgressInv, PeerLocks
<1>9. EventInv'
    BY <1>5, ThreadsAssumption DEF IInv, StoreType, EventInv, LockInv, ProgressInv,
      DeferInv, DrainHoldsWal, DrainHoldsLock, PeerLocks
<1> QED BY <1>1, <1>2, <1>3, <1>6, <1>7, <1>8, <1>9 DEF IInv

\* A peer's append keeps the inductive invariant: it holds the LOCK.
LEMMA PeerAppendsKeeps ==
    ASSUME IInv, NEW p \in Peers, PeerAppends(p) PROVE IInv'
<1>1. StoreType' BY BoundsAssumption DEF IInv, StoreType, BoundInv, Commits, PeerAppends
<1>2. LockInv'
    BY ThreadsAssumption DEF IInv, StoreType, LockInv, DrainHoldsWal,
      DrainHoldsLock, PeerAppends
<1>3. BoundInv'
    BY ThreadsAssumption DEF IInv, StoreType, LockInv, BoundInv, DrainHoldsWal,
      DrainHoldsLock, PeerAppends
<1>4. DurableKept BY DEF IInv, StoreType, BoundInv, DurableKept, PeerAppends
<1>5. \A c : OnDisk(c) => OnDisk(c)' BY <1>4 DEF DurableKept, OnDisk
<1>6. ProgressInv'
  <2>1. \A c : InWal(c) => InWal(c)'
      BY AppendWal DEF IInv, StoreType, Commits, PeerAppends
  <2>2. InWal(p)' BY AppendWal DEF IInv, StoreType, Commits, PeerAppends
  <2> QED
      BY <1>5, <2>1, <2>2 DEF IInv, StoreType, ProgressInv, PeerAppends
<1>7. DeferInv'
    BY ThreadsAssumption DEF IInv, StoreType, LockInv, DeferInv, DrainHoldsWal,
      DrainHoldsLock, PeerAppends
<1>8. AckInv' BY <1>5 DEF IInv, StoreType, AckInv, ProgressInv, PeerAppends
<1>9. EventInv'
    BY <1>5, ThreadsAssumption DEF IInv, StoreType, EventInv, LockInv, ProgressInv,
      DeferInv, DrainHoldsWal, DrainHoldsLock, PeerAppends
<1> QED BY <1>1, <1>2, <1>3, <1>6, <1>7, <1>8, <1>9 DEF IInv

\* A peer's fsync keeps the inductive invariant.
LEMMA PeerSyncsKeeps ==
    ASSUME IInv, NEW p \in Peers, PeerSyncs(p) PROVE IInv'
<1>1. StoreType' BY BoundsAssumption DEF IInv, StoreType, BoundInv, Commits, PeerSyncs
<1>2. LockInv'
    BY ThreadsAssumption DEF IInv, StoreType, LockInv, DrainHoldsWal,
      DrainHoldsLock, PeerSyncs
<1>3. BoundInv'
    BY ThreadsAssumption DEF IInv, StoreType, LockInv, BoundInv, DrainHoldsWal,
      DrainHoldsLock, PeerSyncs
<1>4. DurableKept BY DEF IInv, StoreType, BoundInv, DurableKept, PeerSyncs
<1>5. \A c : OnDisk(c) => OnDisk(c)' BY <1>4 DEF DurableKept, OnDisk
<1>6. ProgressInv'
  <2>1. \A c : InWal(c) => InWal(c)' BY DEF InWal, PeerSyncs
  <2>2. Strict => OnDisk(p)'
      BY DEF IInv, ProgressInv, InWal, OnDisk, PeerSyncs
  <2> QED
      BY <1>5, <2>1, <2>2 DEF IInv, StoreType, ProgressInv, PeerSyncs
<1>7. DeferInv'
    BY ThreadsAssumption DEF IInv, StoreType, LockInv, DeferInv, DrainHoldsWal,
      DrainHoldsLock, PeerSyncs
<1>8. AckInv' BY <1>5 DEF IInv, StoreType, AckInv, ProgressInv, PeerSyncs
<1>9. EventInv'
    BY <1>5, ThreadsAssumption DEF IInv, StoreType, EventInv, LockInv, ProgressInv,
      DeferInv, DrainHoldsWal, DrainHoldsLock, PeerSyncs
<1> QED BY <1>1, <1>2, <1>3, <1>6, <1>7, <1>8, <1>9 DEF IInv

\* A peer's commit returning keeps the inductive invariant: its frame is durable.
LEMMA PeerReturnsKeeps ==
    ASSUME IInv, NEW p \in Peers, PeerReturns(p) PROVE IInv'
<1>1. StoreType' BY BoundsAssumption DEF IInv, StoreType, BoundInv, Commits, PeerReturns
<1>2. LockInv'
    BY ThreadsAssumption DEF IInv, StoreType, LockInv, DrainHoldsWal,
      DrainHoldsLock, PeerReturns
<1>3. BoundInv'
    BY ThreadsAssumption DEF IInv, StoreType, LockInv, BoundInv, DrainHoldsWal,
      DrainHoldsLock, PeerReturns
<1>4. DurableKept BY DEF IInv, StoreType, BoundInv, DurableKept, PeerReturns
<1>5. \A c : OnDisk(c) => OnDisk(c)' BY <1>4 DEF DurableKept, OnDisk
<1>6. ProgressInv'
    BY <1>5, ThreadsAssumption DEF IInv, StoreType, LockInv, ProgressInv, InWal,
      DrainHoldsWal, DrainHoldsLock, PeerReturns
<1>7. DeferInv'
    BY ThreadsAssumption DEF IInv, StoreType, LockInv, DeferInv, DrainHoldsWal,
      DrainHoldsLock, PeerReturns
<1>8. AckInv' BY <1>5 DEF IInv, StoreType, AckInv, ProgressInv, PeerReturns
<1>9. EventInv'
    BY <1>5, ThreadsAssumption DEF IInv, StoreType, EventInv, LockInv, ProgressInv,
      DeferInv, DrainHoldsWal, DrainHoldsLock, PeerReturns
<1> QED BY <1>1, <1>2, <1>3, <1>6, <1>7, <1>8, <1>9 DEF IInv

\* A peer truncating its own failed commit keeps the inductive invariant.
LEMMA PeerSyncFailsKeeps ==
    ASSUME IInv, NEW p \in Peers, PeerSyncFails(p) PROVE IInv'
<1>1. StoreType'
    BY BoundsAssumption DEF IInv, StoreType, BoundInv, Commits, PeerSyncFails, Least
<1>2. LockInv'
    BY ThreadsAssumption DEF IInv, StoreType, LockInv, DrainHoldsWal,
      DrainHoldsLock, PeerSyncFails, Least
<1>3. BoundInv'
    BY ThreadsAssumption DEF IInv, StoreType, LockInv, BoundInv, DrainHoldsWal,
      DrainHoldsLock, PeerSyncFails, Least
<1>4. DurableKept BY DEF IInv, StoreType, BoundInv, DurableKept, PeerSyncFails, Least
<1>5. \A c : OnDisk(c) => OnDisk(c)' BY <1>4 DEF DurableKept, OnDisk
<1>6. ProgressInv'
    BY <1>5, ThreadsAssumption DEF IInv, StoreType, LockInv, ProgressInv, InWal,
      DrainHoldsWal, DrainHoldsLock, PeerSyncFails, Least
<1>7. DeferInv'
    BY ThreadsAssumption DEF IInv, StoreType, LockInv, DeferInv, DrainHoldsWal,
      DrainHoldsLock, PeerSyncFails, Least
<1>8. AckInv' BY <1>5 DEF IInv, StoreType, AckInv, ProgressInv, PeerSyncFails, Least
<1>9. EventInv'
    BY <1>5, ThreadsAssumption DEF IInv, StoreType, EventInv, LockInv, ProgressInv,
      DeferInv, DrainHoldsWal, DrainHoldsLock, PeerSyncFails, Least
<1> QED BY <1>1, <1>2, <1>3, <1>6, <1>7, <1>8, <1>9 DEF IInv

\* A kill keeps the inductive invariant: the page cache survives it.
LEMMA KillKeeps ==
    ASSUME IInv, Kill PROVE IInv'
<1>1. StoreType'
  <2>1. /\ wal' = wal /\ synced' = synced /\ peer' = peer /\ pre_peer' = pre_peer /\ events' = events
        /\ LOCK' \in {LOCK, None} /\ crashes' = crashes + 1
      BY DEF Kill, Reopened
  <2> QED BY <2>1, RestartTypes DEF IInv, StoreType, Kill
<1>2. LockInv'
    BY ThreadsAssumption DEF IInv, StoreType, LockInv, DrainHoldsWal,
      DrainHoldsLock, Kill, Reopened
<1>3. BoundInv'
    BY ThreadsAssumption DEF IInv, StoreType, LockInv, BoundInv, DrainHoldsWal,
      DrainHoldsLock, Kill, Reopened
<1>4. DurableKept BY DEF IInv, StoreType, BoundInv, DurableKept, Kill, Reopened
<1>5. \A c : OnDisk(c) => OnDisk(c)' BY <1>4 DEF DurableKept, OnDisk
<1>6. ProgressInv'
    BY <1>5, ThreadsAssumption DEF IInv, StoreType, LockInv, ProgressInv, InWal,
      DrainHoldsWal, DrainHoldsLock, Kill, Reopened
<1>7. DeferInv'
    BY ThreadsAssumption DEF IInv, StoreType, LockInv, DeferInv, DrainHoldsWal,
      DrainHoldsLock, Kill, Reopened
<1>8. AckInv' BY <1>5 DEF IInv, StoreType, AckInv, ProgressInv, Kill, Reopened
<1>9. EventInv'
    BY <1>5, ThreadsAssumption DEF IInv, StoreType, EventInv, LockInv, ProgressInv,
      DeferInv, DrainHoldsWal, DrainHoldsLock, Kill, Reopened
<1> QED BY <1>1, <1>2, <1>3, <1>6, <1>7, <1>8, <1>9 DEF IInv

\* A power loss keeps the inductive invariant: it takes only frames nobody was told of.
LEMMA PowerLossKeeps ==
    ASSUME IInv, PowerLoss PROVE IInv'
<1>1. StoreType'
  <2>1. PICK cut \in synced..Len(wal) : Reopened(SubSeq(wal, 1, cut)) /\ synced' = cut
      BY DEF PowerLoss
  <2>2. cut \in Nat /\ cut <= Len(wal) BY <2>1 DEF IInv, StoreType
  <2>3. wal' \in Seq(Commits) BY <2>1, <2>2, CutLog DEF IInv, StoreType, Reopened
  <2>4. peer' \in [Peers -> {"idle", "locked", "appended", "synced", "ok", "err", "lost"}]
      BY DEF IInv, StoreType, PowerLoss
  <2>5. pre_peer' = pre_peer /\ events' = events /\ LOCK' = None /\ crashes' = crashes + 1
      BY <2>1 DEF PowerLoss, Reopened
  <2> QED BY <2>1, <2>2, <2>3, <2>4, <2>5, RestartTypes, SMTT(30) DEF IInv, StoreType
<1>2. LockInv'
    BY ThreadsAssumption DEF IInv, StoreType, LockInv, DrainHoldsWal,
      DrainHoldsLock, PowerLoss, Reopened
<1>3. BoundInv'
    BY ThreadsAssumption DEF IInv, StoreType, LockInv, BoundInv, DrainHoldsWal,
      DrainHoldsLock, PowerLoss, Reopened
<1>4. DurableKept BY DEF IInv, StoreType, BoundInv, DurableKept, PowerLoss, Reopened
<1>5. \A c : OnDisk(c) => OnDisk(c)' BY <1>4 DEF DurableKept, OnDisk
<1>6. ProgressInv'
    BY <1>5, ThreadsAssumption DEF IInv, StoreType, LockInv, ProgressInv, InWal,
      DrainHoldsWal, DrainHoldsLock, PowerLoss, Reopened
<1>7. DeferInv'
    BY ThreadsAssumption DEF IInv, StoreType, LockInv, DeferInv, DrainHoldsWal,
      DrainHoldsLock, PowerLoss, Reopened
<1>8. AckInv' BY <1>5 DEF IInv, StoreType, AckInv, ProgressInv, PowerLoss, Reopened
<1>9. EventInv'
    BY <1>5, ThreadsAssumption DEF IInv, StoreType, EventInv, LockInv, ProgressInv,
      DeferInv, DrainHoldsWal, DrainHoldsLock, PowerLoss, Reopened
<1> QED BY <1>1, <1>2, <1>3, <1>6, <1>7, <1>8, <1>9 DEF IInv

-----------------------------------------------------------------------------
(* Steps that leave the store and the commits in progress alone.           *)

CoreUnchanged ==
    /\ UNCHANGED <<wal, synced, LOCK, wal_mu, defer_events, deferred_events, events, drain,
                   group, todo, applied, pre_len, writer, peer, pre_peer, crashes>>
    /\ ~degraded' => ~degraded
    /\ \A s \in Submitters : submitter'[s] = "ok" => submitter[s] = "ok"

\* A step that leaves the WAL, the locks, the drain thread and the answers alone keeps the
\* inductive invariant.
LEMMA CoreUnchangedKeeps == ASSUME IInv, StoreType', CoreUnchanged PROVE IInv'
<1>1. LockInv' BY DEF IInv, LockInv, CoreUnchanged
<1>2. BoundInv' BY DEF IInv, BoundInv, CoreUnchanged
<1>3. ProgressInv' BY DEF IInv, ProgressInv, InWal, OnDisk, CoreUnchanged
<1>4. DeferInv' BY DEF IInv, DeferInv, CoreUnchanged
<1>5. AckInv' BY DEF IInv, AckInv, OnDisk, CoreUnchanged
<1>6. EventInv' BY DEF IInv, EventInv, OnDisk, CoreUnchanged
<1> QED BY <1>1, <1>2, <1>3, <1>4, <1>5, <1>6 DEF IInv

\* A submitter reading the degraded flag and queueing keeps the inductive invariant.
LEMMA SubmitKeeps ==
    ASSUME IInv, NEW s \in Submitters, CheckDegraded(s) \/ Enqueue(s) PROVE IInv'
<1>1. CASE CheckDegraded(s)
  <2>1. StoreType' /\ CoreUnchanged
      BY <1>1 DEF IInv, StoreType, CoreUnchanged, CheckDegraded
  <2> QED BY <2>1, CoreUnchangedKeeps
<1>2. CASE Enqueue(s)
  <2>1. StoreType' /\ CoreUnchanged
      BY <1>2 DEF IInv, StoreType, CoreUnchanged, Enqueue
  <2> QED BY <2>1, CoreUnchangedKeeps
<1> QED BY <1>1, <1>2

\* Captures and read guards keep the inductive invariant: they change no commit.
LEMMA ReaderKeeps ==
    ASSUME IInv, NEW r \in Readers, CaptureStep(r) \/ ReadStep(r) PROVE IInv'
<1>1. StoreType' /\ CoreUnchanged
    BY DEF IInv, StoreType, CoreUnchanged, CaptureStep, ReadStep, CaptureLoads,
           CaptureLooksAtWriting, CaptureProbes, CaptureTries, ReadBegins, ReadChecks,
           ReadTakesGuard, ReadRefreshes, ReadGranted, ReadEnds
<1> QED BY <1>1, CoreUnchangedKeeps

-----------------------------------------------------------------------------
\* The inductive invariant holds of the initial states ...
LEMMA InitIInv == Init => IInv
<1> SUFFICES ASSUME Init PROVE IInv
    OBVIOUS
<1>1. StoreType BY EmptyLogs DEF Init, StoreType
<1>2. LockInv BY DEF Init, LockInv, DrainHoldsWal, DrainHoldsLock
<1>3. BoundInv BY DEF Init, BoundInv
<1>4. ProgressInv BY DEF Init, ProgressInv
<1>5. DeferInv BY DEF Init, DeferInv
<1>6. AckInv BY DEF Init, AckInv
<1>7. EventInv BY DEF Init, EventInv
<1> QED BY <1>1, <1>2, <1>3, <1>4, <1>5, <1>6, <1>7 DEF IInv

\* ... and is kept by every step.
LEMMA NextIInv == IInv /\ [Next]_vars => IInv'
<1> SUFFICES ASSUME IInv, [Next]_vars PROVE IInv'
    OBVIOUS
<1>1. CASE DrainStep
    BY <1>1, WaitAndDrainKeeps, DrainLocksWalKeeps, DrainPollsKeeps, DrainBusyKeeps,
       DrainUnwritableKeeps, DrainEntersKeeps, DrainRefreshesKeeps, DrainRefreshFailsKeeps,
       DrainReportsFailureKeeps, DrainUpgradeFailsKeeps, DrainBeginsGroupKeeps,
       DrainAppliesKeeps, DrainEndsGroupKeeps, DrainSyncsKeeps, DrainSyncFailsKeeps,
       DrainTruncatesKeeps, DrainDegradesKeeps, DrainFlushesKeeps, DrainEndsKeeps,
       DrainAnswersKeeps DEF DrainStep
<1>2. CASE \E w \in Writers : WriterStep(w)
    BY <1>2, WriteLocksWalKeeps, WritePollsKeeps, WriteEntersKeeps, WriteRefreshFailsKeeps,
       WriteCommitsKeeps, WriteSyncFailsKeeps, WriteRefusedKeeps, WriteReleasesKeeps
       DEF WriterStep
<1>3. CASE \E p \in Peers : PeerStep(p)
    BY <1>3, PeerLocksKeeps, PeerAppendsKeeps, PeerSyncsKeeps, PeerReturnsKeeps,
       PeerSyncFailsKeeps DEF PeerStep
<1>4. CASE \E s \in Submitters : CheckDegraded(s) \/ Enqueue(s) BY <1>4, SubmitKeeps
<1>5. CASE \E r \in Readers : CaptureStep(r) \/ ReadStep(r) BY <1>5, ReaderKeeps
<1>6. CASE Kill BY <1>6, KillKeeps
<1>7. CASE PowerLoss BY <1>7, PowerLossKeeps
<1>8. CASE UNCHANGED vars
  <2>1. StoreType' BY <1>8 DEF IInv, StoreType, vars
  <2>2. CoreUnchanged BY <1>8 DEF CoreUnchanged, vars
  <2> QED BY <2>1, <2>2, CoreUnchangedKeeps
<1> QED BY <1>1, <1>2, <1>3, <1>4, <1>5, <1>6, <1>7, <1>8 DEF Next

\* The inductive invariant holds of every reachable state.
THEOREM InductiveInvariant == Spec => []IInv
<1>1. Init => IInv BY InitIInv
<1>2. IInv /\ [Next]_vars => IInv' BY NextIInv
<1> QED BY <1>1, <1>2, PTL DEF Spec

\* Group commit keeps its promise for every number of threads and processes,
\* every group size and every fault: a commit whose caller was told Ok under
\* Strict is on stable storage and stays there.
THEOREM AckedDurable == Spec => []AckedIsDurable
<1>1. IInv => AckedIsDurable
    BY DEF IInv, AckInv, OnDisk, AckedIsDurable, Returned, Durable
<1> QED BY <1>1, InductiveInvariant, PTL

\* Subscribers are never told of a commit that a crash could still take back.
THEOREM EventsDurable == Spec => []EventsAreDurable
<1>1. IInv => EventsAreDurable
    BY DEF IInv, EventInv, OnDisk, EventsAreDurable, Elements, Durable
<1> QED BY <1>1, InductiveInvariant, PTL

-----------------------------------------------------------------------------
(* The handle and its readers keep their types.                            *)

\* A refresh leaves a log in memory and a length in the cursor.
LEMMA RefreshTypes ==
    ASSUME TypeOK, Refresh PROVE mem' \in Seq(Commits) /\ wal_consumed' \in Nat
<1>1. wal \in Seq(Commits) /\ mem \in Seq(Commits) /\ wal_consumed \in Nat /\ Len(wal) \in Nat
    BY DEF TypeOK, StoreType, HandleType
<1>2. wal_consumed' \in Nat BY <1>1 DEF Refresh
<1>3. CASE Len(wal) < wal_consumed BY <1>1, <1>2, <1>3 DEF Refresh
<1>4. CASE ~(Len(wal) < wal_consumed)
  <2>1. SubSeq(wal, wal_consumed + 1, Len(wal)) \in Seq(Commits) BY <1>1, <1>4
  <2> QED BY <1>1, <1>2, <1>4, <2>1, JoinLog DEF Refresh
<1> QED BY <1>3, <1>4

\* What a guard publishes as it is dropped is a snapshot.
LEMMA PublishTypes ==
    ASSUME mem' \in Seq(Commits), wal_consumed' \in Nat, Publish PROVE slot' \in Snapshots
BY DEF Publish, Snapshots

\* The capture of a reader that has taken none is a capture.
LEMMA EmptyCapture == Empty \in Captures
BY EmptyLogs DEF Empty, Captures

\* What Published serves is a capture.
LEMMA ServedTypes ==
    ASSUME NEW c \in Captures, NEW s \in Seq(Commits)
    PROVE  [c EXCEPT !.snap = s] \in Captures
BY DEF Captures

\* The handle's variables have their types at the start.
LEMMA HandleInit == Init => HandleType
<1> SUFFICES ASSUME Init PROVE HandleType
    OBVIOUS
<1>1. slot \in Snapshots BY EmptyLogs DEF Init, Snapshots
<1>2. loaded \in [Readers -> Captures \X Nat] BY EmptyCapture DEF Init
<1>3. capture \in [Readers -> Captures] BY EmptyCapture DEF Init
<1> QED BY <1>1, <1>2, <1>3, EmptyLogs DEF Init, HandleType

\* The drain thread keeps the types of the handle's variables.
LEMMA HandleDrain == ASSUME TypeOK, DrainStep PROVE HandleType'
<1> USE DEF TypeOK, HandleType, BriefGuard, DropGuard, TakeGuard
<1>1. CASE WaitAndDrain BY <1>1 DEF WaitAndDrain
<1>2. CASE DrainLocksWal BY <1>2 DEF DrainLocksWal
<1>3. CASE DrainPolls BY <1>3 DEF DrainPolls
<1>4. CASE DrainBusy BY <1>4, PublishTypes DEF DrainBusy, Answer
<1>5. CASE DrainUnwritable BY <1>5 DEF DrainUnwritable, Answer
<1>6. CASE DrainEnters BY <1>6 DEF DrainEnters
<1>7. CASE DrainRefreshes BY <1>7, RefreshTypes, PublishTypes DEF DrainRefreshes
<1>8. CASE DrainRefreshFails BY <1>8, PublishTypes DEF DrainRefreshFails
<1>9. CASE DrainReportsFailure BY <1>9, PublishTypes DEF DrainReportsFailure, Answer
<1>10. CASE DrainUpgradeFails BY <1>10, PublishTypes DEF DrainUpgradeFails, Answer
<1>11. CASE DrainBeginsGroup BY <1>11 DEF DrainBeginsGroup
<1>12. CASE DrainApplies
  <2>1. Head(todo) \in Commits BY <1>12 DEF DrainApplies, StoreType, Commits
  <2>2. mem' \in Seq(Commits) BY <1>12, <2>1, AppendLog, ZenonT(30) DEF DrainApplies
  <2>3. wal_consumed' \in Nat BY <1>12 DEF DrainApplies
  <2> QED BY <1>12, <2>2, <2>3 DEF DrainApplies
<1>13. CASE DrainEndsGroup BY <1>13, PublishTypes DEF DrainEndsGroup
<1>14. CASE DrainSyncs BY <1>14 DEF DrainSyncs
<1>15. CASE DrainSyncFails BY <1>15 DEF DrainSyncFails
<1>16. CASE DrainTruncates BY <1>16 DEF DrainTruncates
<1>17. CASE DrainDegrades BY <1>17, PublishTypes DEF DrainDegrades, Answer, RewindTo, StoreType
<1>18. CASE DrainFlushes BY <1>18, PublishTypes DEF DrainFlushes
<1>19. CASE DrainEnds BY <1>19, PublishTypes DEF DrainEnds
<1>20. CASE DrainAnswers BY <1>20 DEF DrainAnswers, Answer
<1> QED BY <1>1, <1>2, <1>3, <1>4, <1>5, <1>6, <1>7, <1>8, <1>9, <1>10, <1>11, <1>12, <1>13,
           <1>14, <1>15, <1>16, <1>17, <1>18, <1>19, <1>20 DEF DrainStep

\* A direct writer keeps the types of the handle's variables.
LEMMA HandleWriter == ASSUME TypeOK, NEW w \in Writers, WriterStep(w) PROVE HandleType'
<1> USE DEF TypeOK, HandleType, DropGuard, TakeGuard
<1>1. CASE WriteLocksWal(w) BY <1>1 DEF WriteLocksWal
<1>2. CASE WritePolls(w) BY <1>2 DEF WritePolls
<1>3. CASE WriteEnters(w)
  <2>1. mem' \in Seq(Commits) /\ wal_consumed' \in Nat BY <1>3, RefreshTypes DEF WriteEnters
  <2> QED BY <1>3, <2>1 DEF WriteEnters
<1>4. CASE WriteRefreshFails(w) BY <1>4 DEF WriteRefreshFails
<1>5. CASE WriteCommits(w)
  <2>1. mem' \in Seq(Commits) BY <1>5, AppendLog DEF WriteCommits, Commits
  <2> QED BY <1>5, <2>1 DEF WriteCommits
<1>6. CASE WriteSyncFails(w) BY <1>6 DEF WriteSyncFails
<1>7. CASE WriteRefused(w) BY <1>7 DEF WriteRefused
<1>8. CASE WriteReleases(w) BY <1>8, PublishTypes DEF WriteReleases
<1> QED BY <1>1, <1>2, <1>3, <1>4, <1>5, <1>6, <1>7, <1>8 DEF WriterStep

\* Captures and read guards keep the types of the handle's variables.
LEMMA HandleReader ==
    ASSUME TypeOK, NEW r \in Readers, CaptureStep(r) \/ ReadStep(r) PROVE HandleType'
<1> USE DEF TypeOK, HandleType, DropGuard, TakeGuard
<1>a. Returned \in SUBSET Commits BY DEF Returned, Commits
<1>b. loaded[r][1] \in Captures /\ loaded[r][1].snap \in Seq(Commits) BY DEF Captures
<1>c. slot.snap \in Seq(Commits) /\ slot.mark \in Nat BY DEF Snapshots
<1>d. ASSUME NEW s \in Seq(Commits), Serve(r, s) PROVE capture' \in [Readers -> Captures]
    BY <1>b, <1>d, ServedTypes DEF Serve
<1>1. CASE CaptureLoads(r)
  <2>1. loaded' \in [Readers -> Captures \X Nat]
      BY <1>1, <1>a, <1>c DEF CaptureLoads, Captures
  <2> QED BY <1>1, <2>1 DEF CaptureLoads
<1>2. CASE CaptureLooksAtWriting(r)
  <2>1. capture' \in [Readers -> Captures] BY <1>2, <1>b, <1>d DEF CaptureLooksAtWriting
  <2> QED BY <1>2, <2>1 DEF CaptureLooksAtWriting, Serve
<1>3. CASE CaptureProbes(r)
  <2>1. capture' \in [Readers -> Captures] BY <1>3, <1>b, <1>d DEF CaptureProbes
  <2> QED BY <1>3, <2>1 DEF CaptureProbes, Serve
<1>4. CASE CaptureTries(r)
  <2>1. capture' \in [Readers -> Captures] BY <1>4, <1>c, <1>d DEF CaptureTries
  <2> QED BY <1>4, <2>1 DEF CaptureTries, Serve
<1>5. CASE ReadBegins(r)
  <2>1. loaded' \in [Readers -> Captures \X Nat]
      BY <1>5, <1>a, EmptyLogs DEF ReadBegins, Captures
  <2> QED BY <1>5, <2>1 DEF ReadBegins
<1>6. CASE ReadChecks(r) BY <1>6 DEF ReadChecks
<1>7. CASE ReadTakesGuard(r) BY <1>7 DEF ReadTakesGuard
<1>8. CASE ReadRefreshes(r)
  <2>1. mem' \in Seq(Commits) /\ wal_consumed' \in Nat BY <1>8, RefreshTypes DEF ReadRefreshes
  <2>2. slot' \in Snapshots BY <1>8, <2>1, PublishTypes DEF ReadRefreshes
  <2> QED BY <1>8, <2>1, <2>2 DEF ReadRefreshes
<1>9. CASE ReadGranted(r) BY <1>9, <1>b, ServedTypes, ZenonT(30) DEF ReadGranted
<1>10. CASE ReadEnds(r) BY <1>10 DEF ReadEnds
<1> QED BY <1>1, <1>2, <1>3, <1>4, <1>5, <1>6, <1>7, <1>8, <1>9, <1>10 DEF CaptureStep, ReadStep

\* A reopened handle's variables have their types.
LEMMA HandleRestart ==
    ASSUME NEW frames \in Seq(Commits), Reopened(frames) PROVE HandleType'
<1>1. mem' \in Seq(Commits) /\ wal_consumed' \in Nat BY DEF Reopened
<1>2. slot' \in Snapshots BY <1>1, PublishTypes DEF Reopened
<1>3. loaded' \in [Readers -> Captures \X Nat] BY EmptyCapture DEF Reopened
<1>4. capture' \in [Readers -> Captures] BY EmptyCapture DEF Reopened
<1> QED BY <1>1, <1>2, <1>3, <1>4 DEF Reopened, HandleType

\* Every step keeps the types of the handle's variables.
LEMMA HandleNext == IInv /\ TypeOK /\ [Next]_vars => HandleType'
<1> SUFFICES ASSUME IInv, TypeOK, [Next]_vars PROVE HandleType'
    OBVIOUS
<1>1. CASE DrainStep BY <1>1, HandleDrain
<1>2. CASE \E w \in Writers : WriterStep(w) BY <1>2, HandleWriter
<1>3. CASE \E r \in Readers : CaptureStep(r) \/ ReadStep(r) BY <1>3, HandleReader
<1>4. CASE \E s \in Submitters : CheckDegraded(s) \/ Enqueue(s)
    BY <1>4 DEF TypeOK, HandleType, CheckDegraded, Enqueue
<1>5. CASE \E p \in Peers : PeerStep(p)
    BY <1>5 DEF TypeOK, HandleType, PeerStep, PeerLocks, PeerAppends, PeerSyncs, PeerReturns,
                PeerSyncFails
<1>6. CASE Kill BY <1>6, HandleRestart DEF Kill, TypeOK, StoreType
<1>7. CASE PowerLoss
  <2>1. PICK cut \in synced..Len(wal) : Reopened(SubSeq(wal, 1, cut)) BY <1>7 DEF PowerLoss
  <2>2. SubSeq(wal, 1, cut) \in Seq(Commits) BY CutLog DEF TypeOK, StoreType
  <2> QED BY <2>1, <2>2, HandleRestart
<1>8. CASE UNCHANGED vars BY <1>8 DEF TypeOK, HandleType, vars
<1> QED BY <1>1, <1>2, <1>3, <1>4, <1>5, <1>6, <1>7, <1>8 DEF Next

\* Every variable keeps its type.
THEOREM TypeCorrect == Spec => []TypeOK
<1>1. Init => TypeOK BY InitIInv, HandleInit DEF IInv, TypeOK
<1>2. IInv /\ IInv' /\ TypeOK /\ [Next]_vars => TypeOK' BY HandleNext DEF IInv, TypeOK
<1> QED BY <1>1, <1>2, InductiveInvariant, PTL DEF Spec

-----------------------------------------------------------------------------
(* The order of events.                                                    *)

\* The steps of the drain thread with a group in its hands; of those the ones
\* at which some of the group is still to be applied.
Active  == {"wal_mu", "poll", "denied", "enter", "refresh", "failing", "apply", "applying",
            "sync", "truncate", "degrade", "flush", "end", "answer"}
Filling == {"wal_mu", "poll", "denied", "enter", "refresh", "failing", "apply", "applying"}

\* A submission is queued once, and waits while it is queued or in a group.
QueueInv ==
    /\ \A i, j \in 1..Len(pending) : pending[i] = pending[j] => i = j
    /\ \A i \in 1..Len(pending) : submitter[pending[i]] = "waiting"
    /\ drain \in Active =>
          \A s \in Elements(group) : submitter[s] = "waiting" /\ s \notin Elements(pending)
    /\ drain \in Filling => /\ Elements(todo) \subseteq Elements(group)
                            /\ \A i, j \in 1..Len(todo) : todo[i] = todo[j] => i = j

\* Steps that leave the queue and the group alone.
LEMMA QueueSame ==
    ASSUME QueueInv, UNCHANGED <<pending, submitter, group, todo>>,
           drain' \in Active => drain \in Active, drain' \in Filling => drain \in Filling
    PROVE  QueueInv'
<1>1. /\ Elements(pending)' = Elements(pending) /\ Elements(group)' = Elements(group)
      /\ Elements(todo)' = Elements(todo)
  BY DEF Elements
<1> QED BY <1>1 DEF QueueInv

\* A group is answered.
LEMMA QueueAnswer ==
    ASSUME StoreType, QueueInv, drain \in Active, drain' \notin Active, pending' = pending,
           NEW result, Answer(result)
    PROVE  QueueInv'
<1>1. drain' \notin Filling BY DEF Active, Filling
<1>2. \A s \in Submitters : s \notin Elements(group) => submitter'[s] = submitter[s] BY DEF Answer, StoreType
<1>3. \A i \in 1..Len(pending) : pending[i] \in Submitters /\ pending[i] \in Elements(pending)
  BY DEF StoreType, Elements
<1>4. \A i \in 1..Len(pending) : pending[i] \notin Elements(group) BY <1>3 DEF QueueInv
<1> QED BY <1>1, <1>2, <1>3, <1>4 DEF QueueInv

\* Every step keeps a submission queued once and waiting.
LEMMA QueueKept == ASSUME IInv, QueueInv, [Next]_vars PROVE QueueInv'
<1>0. StoreType BY DEF IInv
<1>1. ASSUME NEW s \in Submitters, CheckDegraded(s) PROVE QueueInv'
  <2>1. UNCHANGED <<pending, group, todo, drain>> BY <1>1 DEF CheckDegraded
  <2>2. \A t \in Submitters : t # s => submitter'[t] = submitter[t] BY <1>0, <1>1 DEF CheckDegraded, StoreType
  <2>3. submitter[s] # "waiting" BY <1>1 DEF CheckDegraded
  <2>4. /\ \A i \in 1..Len(pending) : pending[i] \in Submitters
        /\ \A t \in Elements(group) : t \in Submitters
    BY <1>0 DEF StoreType, Elements
  <2>5. /\ Elements(pending)' = Elements(pending) /\ Elements(group)' = Elements(group)
        /\ Elements(todo)' = Elements(todo)
    BY <2>1 DEF Elements
  <2> QED BY <2>1, <2>2, <2>3, <2>4, <2>5 DEF QueueInv
<1>2. ASSUME NEW s \in Submitters, Enqueue(s) PROVE QueueInv'
  <2>1. UNCHANGED <<group, todo, drain>> /\ pending' = Append(pending, s) BY <1>2 DEF Enqueue
  <2>2. /\ \A t \in Submitters : t # s => submitter'[t] = submitter[t]
        /\ submitter'[s] = "waiting" /\ submitter[s] # "waiting"
    BY <1>0, <1>2 DEF Enqueue, StoreType
  <2>3. /\ pending \in Seq(Submitters) /\ \A i \in 1..Len(group) : group[i] \in Submitters
    BY <1>0 DEF StoreType
  <2>4. /\ Len(pending') = Len(pending) + 1 /\ pending'[Len(pending) + 1] = s
        /\ \A i \in 1..Len(pending) : pending'[i] = pending[i] /\ pending[i] \in Submitters
    BY <2>1, <2>3
  <2>5. \A i \in 1..Len(pending) : pending[i] # s BY <2>2 DEF QueueInv
  <2>6. \A i, j \in 1..Len(pending') : pending'[i] = pending'[j] => i = j
    BY <2>3, <2>4, <2>5 DEF QueueInv
  <2>7. \A i \in 1..Len(pending') : submitter'[pending'[i]] = "waiting"
    BY <2>2, <2>3, <2>4 DEF QueueInv
  <2>8. ASSUME drain \in Active, NEW t \in Elements(group)
        PROVE  submitter'[t] = "waiting" /\ t \notin Elements(pending')
    <3>1. t \in Submitters /\ submitter[t] = "waiting" /\ t \notin Elements(pending)
      BY <2>3, <2>8 DEF QueueInv, Elements
    <3> QED BY <2>2, <2>3, <2>4, <3>1 DEF Elements
  <2> QED BY <2>1, <2>6, <2>7, <2>8 DEF QueueInv
<1>3. CASE WaitAndDrain
  <2> DEFINE n == Least(Len(pending), MaxGroup)
  <2>1. pending \in Seq(Submitters) /\ n \in Nat /\ n <= Len(pending)
    BY <1>0, BoundsAssumption DEF StoreType, Least
  <2>2. /\ group' = SubSeq(pending, 1, n) /\ pending' = SubSeq(pending, n + 1, Len(pending))
        /\ todo' = group' /\ submitter' = submitter
    BY <1>3 DEF WaitAndDrain
  <2> HIDE DEF n
  <2>3. Len(group') = n /\ \A i \in 1..n : group'[i] = pending[i] BY <2>1, <2>2
  <2>4. Len(pending') = Len(pending) - n /\ \A i \in 1..(Len(pending) - n) : pending'[i] = pending[n + i]
    BY <2>1, <2>2
  <2>5. Len(pending) \in Nat BY <2>1
  <2>6. \A i, j \in 1..Len(pending') : pending'[i] = pending'[j] => i = j
    <3> SUFFICES ASSUME NEW i \in 1..Len(pending'), NEW j \in 1..Len(pending'), pending'[i] = pending'[j]
                 PROVE  i = j
      OBVIOUS
    <3>1. n + i \in 1..Len(pending) /\ n + j \in 1..Len(pending) BY <2>1, <2>4, <2>5
    <3>2. pending[n + i] = pending[n + j] BY <2>4
    <3>3. n + i = n + j BY <3>1, <3>2 DEF QueueInv
    <3> QED BY <2>1, <3>3
  <2>7. \A i \in 1..Len(pending') : submitter'[pending'[i]] = "waiting"
    <3> SUFFICES ASSUME NEW i \in 1..Len(pending') PROVE submitter'[pending'[i]] = "waiting" OBVIOUS
    <3>1. n + i \in 1..Len(pending) BY <2>1, <2>4, <2>5
    <3> QED BY <2>2, <2>4, <3>1 DEF QueueInv
  <2>8. ASSUME NEW s \in Elements(group') PROVE submitter'[s] = "waiting" /\ s \notin Elements(pending')
    <3>1. PICK i \in 1..n : s = pending[i] BY <2>3 DEF Elements
    <3>2. i \in 1..Len(pending) BY <2>1, <2>5
    <3>3. submitter[s] = "waiting" BY <3>1, <3>2 DEF QueueInv
    <3>4. ASSUME NEW j \in 1..Len(pending') PROVE pending'[j] # s
      <4>1. n + j \in 1..Len(pending) /\ n + j # i BY <2>1, <2>4, <2>5
      <4> QED BY <2>4, <3>1, <3>2, <4>1 DEF QueueInv
    <3> QED BY <2>2, <3>3, <3>4 DEF Elements
  <2>9. \A i, j \in 1..Len(todo') : todo'[i] = todo'[j] => i = j
    <3> SUFFICES ASSUME NEW i \in 1..Len(todo'), NEW j \in 1..Len(todo'), todo'[i] = todo'[j] PROVE i = j
      OBVIOUS
    <3>1. i \in 1..Len(pending) /\ j \in 1..Len(pending) BY <2>1, <2>2, <2>3, <2>5
    <3>2. pending[i] = pending[j] BY <2>2, <2>3
    <3> QED BY <3>1, <3>2 DEF QueueInv
  <2> QED BY <2>2, <2>6, <2>7, <2>8, <2>9 DEF QueueInv
<1>4. CASE \/ DrainLocksWal \/ DrainPolls \/ DrainEnters \/ DrainRefreshes \/ DrainRefreshFails
           \/ DrainBeginsGroup
  <2>1. UNCHANGED <<pending, submitter, group, todo>> /\ drain \in Filling
    BY <1>4 DEF DrainLocksWal, DrainPolls, DrainEnters, DrainRefreshes, DrainRefreshFails,
       DrainBeginsGroup, Filling
  <2> QED BY <2>1, QueueSame DEF Active, Filling
<1>5. CASE \/ DrainEndsGroup \/ DrainSyncs \/ DrainSyncFails \/ DrainTruncates \/ DrainFlushes \/ DrainEnds
  <2>1. UNCHANGED <<pending, submitter, group, todo>> /\ drain \in Active /\ drain' \notin Filling
    BY <1>5 DEF DrainEndsGroup, DrainSyncs, DrainSyncFails, DrainTruncates, DrainFlushes, DrainEnds,
       Active, Filling
  <2> QED BY <2>1, QueueSame
<1>6. CASE DrainApplies
  <2>1. UNCHANGED <<pending, submitter, group, drain>> /\ todo' = Tail(todo) /\ todo # << >> /\ drain = "applying"
    BY <1>6 DEF DrainApplies
  <2>2. todo \in Seq(Submitters) BY <1>0 DEF StoreType
  <2>3. Len(todo') = Len(todo) - 1 /\ Len(todo) \in Nat /\ \A i \in 1..Len(todo') : todo'[i] = todo[i + 1]
    BY <2>1, <2>2
  <2>4. drain \in Filling BY <2>1 DEF Filling
  <2>5. /\ Elements(todo) \subseteq Elements(group)
        /\ \A i, j \in 1..Len(todo) : todo[i] = todo[j] => i = j
    BY <2>4 DEF QueueInv
  <2>6. \A i \in 1..Len(todo') : i + 1 \in 1..Len(todo) BY <2>3
  <2>7. Elements(todo') \subseteq Elements(group') BY <2>1, <2>3, <2>5, <2>6 DEF Elements
  <2>8. \A i, j \in 1..Len(todo') : todo'[i] = todo'[j] => i = j
    <3> SUFFICES ASSUME NEW i \in 1..Len(todo'), NEW j \in 1..Len(todo'), todo'[i] = todo'[j] PROVE i = j
      OBVIOUS
    <3>1. i + 1 = j + 1 BY <2>3, <2>5, <2>6
    <3> QED BY <3>1
  <2>9. Elements(pending)' = Elements(pending) /\ Elements(group)' = Elements(group)
    BY <2>1 DEF Elements
  <2> QED BY <2>1, <2>7, <2>8, <2>9 DEF QueueInv
<1>7. CASE \/ DrainBusy \/ DrainUnwritable \/ DrainReportsFailure \/ DrainUpgradeFails
           \/ DrainDegrades \/ DrainAnswers
  <2>1. /\ pending' = pending /\ drain \in Active /\ drain' \notin Active
        /\ \E result : Answer(result)
    BY <1>7 DEF DrainBusy, DrainUnwritable, DrainReportsFailure, DrainUpgradeFails, DrainDegrades,
       DrainAnswers, Active
  <2> QED BY <1>0, <2>1, QueueAnswer
<1>8. ASSUME UNCHANGED <<pending, submitter, group, todo, drain>> PROVE QueueInv'
  BY <1>8, QueueSame
<1>9. CASE \/ \E w \in Writers : WriterStep(w)
           \/ \E r \in Readers : CaptureStep(r) \/ ReadStep(r)
           \/ \E p \in Peers : PeerStep(p)
           \/ UNCHANGED vars
  <2>1. UNCHANGED <<pending, submitter, group, todo, drain>>
    <3>1. CASE \E w \in Writers : WriterStep(w)
      BY <3>1 DEF WriterStep, WriteLocksWal, WritePolls, WriteEnters, WriteRefreshFails, WriteCommits,
         WriteSyncFails, WriteRefused, WriteReleases
    <3>2. CASE \E r \in Readers : CaptureStep(r) \/ ReadStep(r)
      BY <3>2 DEF CaptureStep, ReadStep, CaptureLoads, CaptureLooksAtWriting, CaptureProbes, CaptureTries,
         ReadBegins, ReadChecks, ReadTakesGuard, ReadRefreshes, ReadGranted, ReadEnds
    <3>3. CASE \E p \in Peers : PeerStep(p)
      BY <3>3 DEF PeerStep, PeerLocks, PeerAppends, PeerSyncs, PeerReturns, PeerSyncFails
    <3>4. CASE UNCHANGED vars BY <3>4 DEF vars
    <3> QED BY <1>9, <3>1, <3>2, <3>3, <3>4
  <2> QED BY <1>8, <2>1
<1>10. CASE Kill \/ PowerLoss
  <2>1. pending' = << >> /\ drain' = "wait" BY <1>10 DEF Kill, PowerLoss, Reopened
  <2> QED BY <2>1 DEF QueueInv, Active, Filling
<1> QED BY <1>1, <1>2, <1>3, <1>4, <1>5, <1>6, <1>7, <1>9, <1>10 DEF Next, DrainStep

\* A commit still to be made; one of which there is a frame or an event.
Unmade(c) ==
    \/ c \in Submitters /\ submitter[c] \in {"idle", "checked"}
    \/ c \in Elements(pending)
    \/ drain \in Filling /\ c \in Elements(todo)
    \/ c \in Writers /\ writer[c] \in {"idle", "poll", "enter", "denied", "in", "busied"}
    \/ c \in Peers /\ peer[c] \in {"idle", "locked"}
Made(c) == InWal(c) \/ c \in Elements(events) \/ c \in Elements(deferred_events)

FreshInv == \A c \in Commits : Unmade(c) => ~Made(c)

\* What subscribers were told of and what is kept for them, in order.
Told == events \o deferred_events

\* A commit has one frame, and its event the place its frame has.
OrderInv ==
    /\ \A i, j \in 1..Len(wal) : wal[i] = wal[j] => i = j
    /\ \A i, j \in 1..Len(Told) : i < j =>
          \A m, n \in 1..Len(wal) : wal[m] = Told[i] /\ wal[n] = Told[j] => m < n

\* What was told or is kept to be told, as one log.
LEMMA ToldFacts ==
    ASSUME StoreType
    PROVE  /\ Told \in Seq(Commits) /\ Len(Told) \in Nat
           /\ \A i \in 1..Len(Told) : Told[i] \in Elements(events) \cup Elements(deferred_events)
           /\ \A i \in 1..Len(events) : i \in 1..Len(Told) /\ Told[i] = events[i]
<1>1. events \in Seq(Commits) /\ deferred_events \in Seq(Commits) BY DEF StoreType
<1>2. Told \in Seq(Commits) /\ Len(Told) = Len(events) + Len(deferred_events) BY <1>1 DEF Told
<1>3. \A i \in 1..Len(events) : Told[i] = events[i] BY <1>1 DEF Told
<1>4. ASSUME NEW i \in 1..Len(Told) PROVE Told[i] \in Elements(events) \cup Elements(deferred_events)
  <2>1. CASE i <= Len(events) BY <1>1, <1>2, <1>3, <2>1 DEF Elements
  <2>2. CASE i > Len(events)
    <3>1. i - Len(events) \in 1..Len(deferred_events) BY <1>1, <1>2, <2>2
    <3>2. Told[i] = deferred_events[i - Len(events)] BY <1>1, <1>2, <2>2 DEF Told
    <3> QED BY <3>1, <3>2 DEF Elements
  <2> QED BY <1>1, <2>1, <2>2
<1> QED BY <1>1, <1>2, <1>3, <1>4

\* A commit is told, now or when its group is durable.
LEMMA ToldAppends ==
    ASSUME StoreType, DeferInv, NEW c \in Commits, Notify(c)
    PROVE  /\ Len(Told') = Len(Told) + 1 /\ Told'[Len(Told) + 1] = c
           /\ \A i \in 1..Len(Told) : Told'[i] = Told[i]
           /\ \A x : x \in Elements(events)' \cup Elements(deferred_events)'
                       => x = c \/ x \in Elements(events) \cup Elements(deferred_events)
<1> DEFINE e == events
           d == deferred_events
<1>1. e \in Seq(Commits) /\ d \in Seq(Commits) BY DEF StoreType
<1>2. \/ events' = e /\ deferred_events' = Append(d, c)
      \/ events' = Append(e, c) /\ deferred_events' = << >> /\ d = << >>
  BY DEF Notify, DeferInv
<1>3. Told = e \o d /\ Told' = events' \o deferred_events' BY DEF Told
<1>4. Elements(events)' = {events'[i] : i \in 1..Len(events')}
      /\ Elements(deferred_events)' = {deferred_events'[i] : i \in 1..Len(deferred_events')}
      /\ Elements(e) = {e[i] : i \in 1..Len(e)} /\ Elements(d) = {d[i] : i \in 1..Len(d)}
  BY DEF Elements
<1> HIDE DEF e, d
<1>5. CASE events' = e /\ deferred_events' = Append(d, c)
  <2>1. Told' = e \o Append(d, c) BY <1>3, <1>5
  <2>2. /\ Len(e \o Append(d, c)) = Len(e \o d) + 1 /\ (e \o Append(d, c))[Len(e \o d) + 1] = c
        /\ \A i \in 1..Len(e \o d) : (e \o Append(d, c))[i] = (e \o d)[i]
    BY <1>1
  <2>3. \A i \in 1..Len(Append(d, c)) : Append(d, c)[i] = c \/ \E j \in 1..Len(d) : Append(d, c)[i] = d[j]
    BY <1>1
  <2>4. \A x : x \in Elements(events)' \cup Elements(deferred_events)' => x = c \/ x \in Elements(e) \cup Elements(d)
    BY <1>4, <1>5, <2>3
  <2> QED BY <1>3, <2>1, <2>2, <2>4 DEF e, d
<1>6. CASE events' = Append(e, c) /\ deferred_events' = << >> /\ d = << >>
  <2>1. Told' = Append(e, c) /\ Told = e BY <1>1, <1>3, <1>6
  <2>2. /\ Len(Append(e, c)) = Len(e) + 1 /\ Append(e, c)[Len(e) + 1] = c
        /\ \A i \in 1..Len(e) : Append(e, c)[i] = e[i]
    BY <1>1
  <2>3. \A i \in 1..Len(Append(e, c)) : Append(e, c)[i] = c \/ \E j \in 1..Len(e) : Append(e, c)[i] = e[j]
    BY <1>1
  <2>4. \A x : x \in Elements(events)' \cup Elements(deferred_events)' => x = c \/ x \in Elements(e) \cup Elements(d)
    BY <1>4, <1>6, <2>3
  <2> QED BY <2>1, <2>2, <2>4 DEF e, d
<1> QED BY <1>2, <1>5, <1>6 DEF e, d

\* Frames and events that were kept go from the end.
LEMMA OrderCut ==
    ASSUME StoreType, OrderInv, Len(wal') \in Nat, Len(Told') \in Nat, Len(wal') <= Len(wal), Len(Told') <= Len(Told),
           \A i \in 1..Len(wal') : wal'[i] = wal[i], \A i \in 1..Len(Told') : Told'[i] = Told[i]
    PROVE  OrderInv'
<1>1. Len(wal) \in Nat /\ Len(Told) \in Nat BY ToldFacts DEF StoreType
<1>2. /\ \A i \in 1..Len(wal') : i \in 1..Len(wal) /\ wal'[i] = wal[i]
      /\ \A i \in 1..Len(Told') : i \in 1..Len(Told) /\ Told'[i] = Told[i]
  BY <1>1
<1> QED BY <1>2 DEF OrderInv

\* A fresh commit's frame goes to the end, and its event, if any, too.
LEMMA OrderGrows ==
    ASSUME StoreType, OrderInv, NEW c \in Commits, ~Made(c), wal' = Append(wal, c),
           \/ Told' = Told
           \/ /\ Len(Told') = Len(Told) + 1 /\ Told'[Len(Told) + 1] = c
              /\ \A i \in 1..Len(Told) : Told'[i] = Told[i]
    PROVE  OrderInv'
<1>1. wal \in Seq(Commits) /\ Len(wal) \in Nat BY DEF StoreType
<1>2. Len(wal') = Len(wal) + 1 /\ wal'[Len(wal) + 1] = c /\ \A i \in 1..Len(wal) : wal'[i] = wal[i] BY <1>1
<1>3. \A i \in 1..Len(wal) : wal[i] # c BY DEF Made, InWal
<1>4. \A i, j \in 1..Len(wal') : wal'[i] = wal'[j] => i = j BY <1>1, <1>2, <1>3 DEF OrderInv
<1>5. Len(Told) \in Nat /\ \A i \in 1..Len(Told) : Told[i] # c BY ToldFacts DEF Made
<1>6. ASSUME NEW i \in 1..Len(Told'), NEW j \in 1..Len(Told'), i < j,
             NEW m \in 1..Len(wal'), NEW n \in 1..Len(wal'), wal'[m] = Told'[i], wal'[n] = Told'[j]
      PROVE  m < n
  <2>1. i \in 1..Len(Told) /\ Told'[i] = Told[i] BY <1>5, <1>6
  <2>2. m \in 1..Len(wal) /\ wal'[m] = wal[m] BY <1>1, <1>2, <1>5, <1>6, <2>1
  <2>3. CASE j \in 1..Len(Told)
    <3>1. Told'[j] = Told[j] BY <2>3
    <3>2. n \in 1..Len(wal) /\ wal'[n] = wal[n] BY <1>1, <1>2, <1>5, <1>6, <2>3, <3>1
    <3> QED BY <1>6, <2>1, <2>2, <2>3, <3>1, <3>2 DEF OrderInv
  <2>4. CASE j \notin 1..Len(Told)
    <3>1. Told'[j] = c BY <1>5, <1>6, <2>4
    <3>2. n = Len(wal) + 1 BY <1>1, <1>2, <1>3, <1>6, <3>1
    <3> QED BY <1>1, <2>2, <3>2
  <2> QED BY <2>3, <2>4
<1> QED BY <1>4, <1>6 DEF OrderInv

-----------------------------------------------------------------------------
\* No step makes a commit that was made be one still to be made.
LEMMA UnmadeShrinks ==
    ASSUME IInv, QueueInv, [Next]_vars, NEW c \in Commits, Unmade(c)' PROVE Unmade(c)
<1>0. StoreType BY DEF IInv
<1>a. ASSUME UNCHANGED <<submitter, pending, todo, drain, writer, peer>> PROVE Unmade(c)
  <2>1. Elements(pending)' = Elements(pending) /\ Elements(todo)' = Elements(todo) BY <1>a DEF Elements
  <2> QED BY <1>a, <2>1 DEF Unmade
<1>1. ASSUME NEW s \in Submitters, CheckDegraded(s) PROVE Unmade(c)
  <2>1. UNCHANGED <<pending, todo, drain, writer, peer>> BY <1>1 DEF CheckDegraded
  <2>2. /\ \A t \in Submitters : t # s => submitter'[t] = submitter[t]
        /\ submitter[s] = "idle"
    BY <1>0, <1>1 DEF CheckDegraded, StoreType
  <2>3. Elements(pending)' = Elements(pending) /\ Elements(todo)' = Elements(todo) BY <2>1 DEF Elements
  <2> QED BY <2>1, <2>2, <2>3 DEF Unmade
<1>2. ASSUME NEW s \in Submitters, Enqueue(s) PROVE Unmade(c)
  <2>1. UNCHANGED <<todo, drain, writer, peer>> /\ pending' = Append(pending, s) BY <1>2 DEF Enqueue
  <2>2. /\ \A t \in Submitters : t # s => submitter'[t] = submitter[t]
        /\ submitter[s] = "checked"
    BY <1>0, <1>2 DEF Enqueue, StoreType
  <2>3. Elements(todo)' = Elements(todo) BY <2>1 DEF Elements
  <2>4. pending \in Seq(Submitters) BY <1>0 DEF StoreType
  <2>5. \A x \in Elements(pending)' : x = s \/ x \in Elements(pending) BY <2>1, <2>4 DEF Elements
  <2> QED BY <2>1, <2>2, <2>3, <2>5 DEF Unmade
<1>3. CASE WaitAndDrain
  <2> DEFINE n == Least(Len(pending), MaxGroup)
  <2>1. pending \in Seq(Submitters) /\ n \in Nat /\ n <= Len(pending) /\ Len(pending) \in Nat
    BY <1>0, BoundsAssumption DEF StoreType, Least
  <2>2. /\ todo' = SubSeq(pending, 1, n) /\ pending' = SubSeq(pending, n + 1, Len(pending))
        /\ UNCHANGED <<submitter, writer, peer>>
    BY <1>3 DEF WaitAndDrain
  <2> HIDE DEF n
  <2>3. Len(todo') = n /\ \A i \in 1..n : todo'[i] = pending[i] BY <2>1, <2>2
  <2>4. Len(pending') = Len(pending) - n /\ \A i \in 1..(Len(pending) - n) : pending'[i] = pending[n + i]
    BY <2>1, <2>2
  <2>5. \A i \in 1..(Len(pending) - n) : n + i \in 1..Len(pending) BY <2>1
  <2>6. \A i \in 1..n : i \in 1..Len(pending) BY <2>1
  <2>7. \A x \in Elements(pending)' : x \in Elements(pending) BY <2>4, <2>5 DEF Elements
  <2>8. \A x \in Elements(todo)' : x \in Elements(pending) BY <2>3, <2>6 DEF Elements
  <2> QED BY <2>2, <2>7, <2>8 DEF Unmade
<1>4. CASE \/ DrainLocksWal \/ DrainPolls \/ DrainEnters \/ DrainRefreshes \/ DrainRefreshFails
           \/ DrainBeginsGroup \/ DrainApplies
  <2>1. UNCHANGED <<pending, submitter, writer, peer>> /\ drain \in Filling
        /\ (todo' = todo \/ (todo # << >> /\ todo' = Tail(todo)))
    BY <1>4 DEF DrainLocksWal, DrainPolls, DrainEnters, DrainRefreshes, DrainRefreshFails,
       DrainBeginsGroup, DrainApplies, Filling
  <2>2. todo \in Seq(Submitters) BY <1>0 DEF StoreType
  <2>3. \A x \in Elements(todo)' : x \in Elements(todo)
    <3>1. CASE todo' = todo BY <3>1 DEF Elements
    <3>2. CASE todo # << >> /\ todo' = Tail(todo)
      <4>1. Len(todo') = Len(todo) - 1 /\ Len(todo) \in Nat /\ \A i \in 1..Len(todo') : todo'[i] = todo[i + 1]
        BY <2>2, <3>2
      <4>2. \A i \in 1..Len(todo') : i + 1 \in 1..Len(todo) BY <4>1
      <4> QED BY <4>1, <4>2 DEF Elements
    <3> QED BY <2>1, <3>1, <3>2
  <2>4. Elements(pending)' = Elements(pending) BY <2>1 DEF Elements
  <2> QED BY <2>1, <2>3, <2>4 DEF Unmade
<1>5. CASE \/ DrainEndsGroup \/ DrainSyncs \/ DrainSyncFails \/ DrainTruncates \/ DrainFlushes \/ DrainEnds
  <2>1. UNCHANGED <<pending, submitter, writer, peer>> /\ drain' \notin Filling
    BY <1>5 DEF DrainEndsGroup, DrainSyncs, DrainSyncFails, DrainTruncates, DrainFlushes, DrainEnds, Filling
  <2>2. Elements(pending)' = Elements(pending) BY <2>1 DEF Elements
  <2> QED BY <2>1, <2>2 DEF Unmade
<1>7. CASE \/ DrainBusy \/ DrainUnwritable \/ DrainReportsFailure \/ DrainUpgradeFails
           \/ DrainDegrades \/ DrainAnswers
  <2>1. pending' = pending /\ drain' \notin Filling /\ UNCHANGED <<writer, peer>>
    BY <1>7 DEF DrainBusy, DrainUnwritable, DrainReportsFailure, DrainUpgradeFails, DrainDegrades,
       DrainAnswers, Answer, Filling
  <2>2. \A t \in Submitters : submitter'[t] = submitter[t] \/ submitter'[t] \in {"busy", "err", "ok"}
    BY <1>7 DEF DrainBusy, DrainUnwritable, DrainReportsFailure, DrainUpgradeFails, DrainDegrades,
       DrainAnswers, Answer
  <2>3. Elements(pending)' = Elements(pending) BY <2>1 DEF Elements
  <2> QED BY <2>1, <2>2, <2>3 DEF Unmade
<1>8. ASSUME NEW w \in Writers, WriterStep(w) PROVE Unmade(c)
  <2>1. UNCHANGED <<pending, submitter, todo, drain, peer>>
        /\ \A v \in Writers : v # w => writer'[v] = writer[v]
    BY <1>0, <1>8 DEF WriterStep, WriteLocksWal, WritePolls, WriteEnters, WriteRefreshFails, WriteCommits,
       WriteSyncFails, WriteRefused, WriteReleases, StoreType
  <2>2. writer'[w] \in {"idle", "poll", "enter", "denied", "in", "busied"}
           => writer[w] \in {"idle", "poll", "enter", "denied", "in", "busied"}
    BY <1>0, <1>8 DEF WriterStep, WriteLocksWal, WritePolls, WriteEnters, WriteRefreshFails, WriteCommits,
       WriteSyncFails, WriteRefused, WriteReleases, StoreType
  <2>3. Elements(pending)' = Elements(pending) /\ Elements(todo)' = Elements(todo) BY <2>1 DEF Elements
  <2> QED BY <2>1, <2>2, <2>3 DEF Unmade
<1>9. ASSUME NEW p \in Peers, PeerStep(p) PROVE Unmade(c)
  <2>1. UNCHANGED <<pending, submitter, todo, drain, writer>>
        /\ \A v \in Peers : v # p => peer'[v] = peer[v]
    BY <1>0, <1>9 DEF PeerStep, PeerLocks, PeerAppends, PeerSyncs, PeerReturns, PeerSyncFails, StoreType
  <2>2. peer'[p] \in {"idle", "locked"} => peer[p] \in {"idle", "locked"}
    BY <1>0, <1>9 DEF PeerStep, PeerLocks, PeerAppends, PeerSyncs, PeerReturns, PeerSyncFails, StoreType
  <2>3. Elements(pending)' = Elements(pending) /\ Elements(todo)' = Elements(todo) BY <2>1 DEF Elements
  <2> QED BY <2>1, <2>2, <2>3 DEF Unmade
<1>10. CASE \E r \in Readers : CaptureStep(r) \/ ReadStep(r)
  <2>1. UNCHANGED <<submitter, pending, todo, drain, writer, peer>>
    BY <1>10 DEF CaptureStep, ReadStep, CaptureLoads, CaptureLooksAtWriting, CaptureProbes, CaptureTries,
       ReadBegins, ReadChecks, ReadTakesGuard, ReadRefreshes, ReadGranted, ReadEnds
  <2> QED BY <1>a, <2>1
<1>11. CASE UNCHANGED vars BY <1>11, <1>a DEF vars
<1>12. CASE Kill \/ PowerLoss
  <2>1. pending' = << >> /\ drain' = "wait" BY <1>12 DEF Kill, PowerLoss, Reopened
  <2>2. Elements(pending)' = {} /\ drain' \notin Filling BY <2>1 DEF Elements, Filling
  <2>3. \A t \in Submitters : submitter'[t] \in {"idle", "checked"} => submitter'[t] = submitter[t]
    BY <1>12 DEF Kill, PowerLoss, Reopened
  <2>4. \A w \in Writers : writer'[w] \in {"idle", "poll", "enter", "denied", "in", "busied"}
            => writer'[w] = writer[w]
    BY <1>12 DEF Kill, PowerLoss, Reopened
  <2>5. \A p \in Peers : peer'[p] \in {"idle", "locked"} => peer'[p] = peer[p]
    BY <1>12 DEF Kill, PowerLoss
  <2> QED BY <2>2, <2>3, <2>4, <2>5 DEF Unmade
<1> QED BY <1>1, <1>2, <1>3, <1>4, <1>5, <1>7, <1>8, <1>9, <1>10, <1>11, <1>12 DEF Next, DrainStep

\* A step that makes commit c, and one that makes none: frames and events that
\* were kept only go from the end.
Makes(c) ==
    /\ Unmade(c) /\ ~Unmade(c)'
    /\ wal' = Append(wal, c)
    /\ Notify(c) \/ UNCHANGED <<events, deferred_events>>
MakesNone ==
    /\ Len(wal') \in Nat /\ Len(wal') <= Len(wal) /\ \A i \in 1..Len(wal') : wal'[i] = wal[i]
    /\ Len(Told') \in Nat /\ Len(Told') <= Len(Told) /\ \A i \in 1..Len(Told') : Told'[i] = Told[i]
    /\ Elements(events)' \cup Elements(deferred_events)' \subseteq Elements(events) \cup Elements(deferred_events)

\* A step that leaves the log and the events alone makes no commit.
LEMMA SameMakesNone ==
    ASSUME StoreType, UNCHANGED <<wal, events, deferred_events>> PROVE MakesNone
<1>1. Told' = Told /\ Elements(events)' = Elements(events) /\ Elements(deferred_events)' = Elements(deferred_events)
  BY DEF Told, Elements
<1>2. Len(wal) \in Nat /\ Len(Told) \in Nat BY ToldFacts DEF StoreType
<1> QED BY <1>1, <1>2 DEF MakesNone

\* Nor does one that cuts the log and may drop the events kept for later.
LEMMA CutMakesNone ==
    ASSUME StoreType, NEW k \in Nat, k <= Len(wal), wal' = SubSeq(wal, 1, k), events' = events,
           deferred_events' \in {deferred_events, << >>}
    PROVE  MakesNone
<1>1. Len(wal') = k /\ \A i \in 1..k : wal'[i] = wal[i] BY CutLog DEF StoreType
<1>2. CASE deferred_events' = deferred_events
  <2>1. Told' = Told /\ Elements(events)' = Elements(events) /\ Elements(deferred_events)' = Elements(deferred_events)
    BY <1>2 DEF Told, Elements
  <2> QED BY <1>1, <2>1, ToldFacts DEF MakesNone
<1>3. CASE deferred_events' = << >>
  <2>1. events \in Seq(Commits) BY DEF StoreType
  <2>2. Told' = events BY <1>3, <2>1 DEF Told
  <2>3. Elements(events)' = Elements(events) /\ Elements(deferred_events)' = {} BY <1>3 DEF Elements
  <2>4. Len(events) \in Nat /\ Len(Told) \in Nat /\ \A i \in 1..Len(events) : i \in 1..Len(Told) /\ Told[i] = events[i]
    BY <2>1, ToldFacts
  <2>5. Len(events) <= Len(Told)
    <3>1. CASE Len(events) = 0 BY <2>4, <3>1
    <3>2. CASE Len(events) # 0
      <4>1. Len(events) \in 1..Len(events) BY <2>4, <3>2
      <4> QED BY <2>4, <4>1
    <3> QED BY <3>1, <3>2
  <2> QED BY <1>1, <2>2, <2>3, <2>4, <2>5 DEF MakesNone
<1> QED BY <1>2, <1>3

\* Every step makes one commit, which was not made before, or none.
LEMMA StepMakes ==
    ASSUME IInv, QueueInv, [Next]_vars PROVE MakesNone \/ \E c \in Commits : Makes(c)
<1>0. StoreType /\ StoreType' BY NextIInv DEF IInv
<1>a. ASSUME UNCHANGED <<wal, events, deferred_events>> PROVE MakesNone BY <1>0, <1>a, SameMakesNone
<1>b. wal \in Seq(Commits) /\ Len(wal) \in Nat BY <1>0 DEF StoreType
<1>c. wal = SubSeq(wal, 1, Len(wal)) BY <1>b
<1>d. /\ \A x \in Elements(pending)' : x \in Submitters
      /\ \A x \in Elements(todo)' : x \in Submitters
  <2>1. pending' \in Seq(Submitters) /\ todo' \in Seq(Submitters) BY <1>0 DEF StoreType
  <2>2. /\ \A i \in 1..Len(pending') : pending'[i] \in Submitters
        /\ \A i \in 1..Len(todo') : todo'[i] \in Submitters
    BY <2>1
  <2> QED BY <2>2 DEF Elements
<1>1. CASE \E s \in Submitters : CheckDegraded(s) \/ Enqueue(s) BY <1>1, <1>a DEF CheckDegraded, Enqueue
<1>2. CASE \/ WaitAndDrain \/ DrainLocksWal \/ DrainPolls \/ DrainBusy \/ DrainUnwritable
           \/ DrainEnters \/ DrainRefreshes \/ DrainRefreshFails \/ DrainBeginsGroup
           \/ DrainEndsGroup \/ DrainSyncs \/ DrainSyncFails \/ DrainEnds \/ DrainAnswers
  BY <1>2, <1>a DEF WaitAndDrain, DrainLocksWal, DrainPolls, DrainBusy, DrainUnwritable,
     DrainEnters, DrainRefreshes, DrainRefreshFails, DrainBeginsGroup, DrainEndsGroup, DrainSyncs,
     DrainSyncFails, DrainEnds, DrainAnswers
<1>3. CASE DrainReportsFailure \/ DrainDegrades \/ DrainUpgradeFails
  <2>1. UNCHANGED <<wal, events>> /\ deferred_events' \in {deferred_events, << >>}
    BY <1>3 DEF DrainReportsFailure, DrainDegrades, DrainUpgradeFails
  <2>2. wal' = SubSeq(wal, 1, Len(wal)) /\ Len(wal) <= Len(wal) BY <1>b, <1>c, <2>1
  <2> QED BY <1>0, <1>b, <2>1, <2>2, CutMakesNone
<1>4. CASE DrainApplies
  <2>1. CASE UNCHANGED <<wal, events, deferred_events>> BY <2>1, <1>a
  <2>2. CASE wal' = Append(wal, Head(todo)) /\ Notify(Head(todo))
    <3>1. UNCHANGED <<pending, submitter, group, drain>> /\ todo' = Tail(todo) /\ todo # << >> /\ drain = "applying"
      BY <1>4 DEF DrainApplies
    <3>2. todo \in Seq(Submitters) BY <1>0 DEF StoreType
    <3>3. Len(todo') = Len(todo) - 1 /\ Len(todo) \in Nat \ {0} /\ \A i \in 1..Len(todo') : todo'[i] = todo[i + 1]
      BY <3>1, <3>2
    <3>4. PICK c \in Submitters : c = todo[1] /\ 1 \in 1..Len(todo) /\ c = Head(todo) BY <3>1, <3>2, <3>3
    <3>5. drain \in Filling /\ drain \in Active BY <3>1 DEF Filling, Active
    <3>6. c \in Elements(todo) BY <3>4 DEF Elements
    <3>7. c \in Elements(group) BY <3>5, <3>6 DEF QueueInv
    <3>8. submitter[c] = "waiting" /\ c \notin Elements(pending) BY <3>5, <3>7 DEF QueueInv
    <3>9. \A i \in 1..Len(todo') : i + 1 \in 1..Len(todo) /\ i + 1 # 1 BY <3>3
    <3>10. \A i \in 1..Len(todo') : todo'[i] # c BY <3>3, <3>4, <3>5, <3>9 DEF QueueInv
    <3>11. c \notin Elements(todo)' BY <3>10 DEF Elements
    <3>12. Elements(pending)' = Elements(pending) BY <3>1 DEF Elements
    <3>13. Unmade(c) BY <3>5, <3>6 DEF Unmade
    <3>14. c \notin Writers /\ c \notin Peers /\ c \in Commits BY <3>4, ThreadsAssumption DEF Commits
    <3>15. ~Unmade(c)' BY <3>1, <3>8, <3>11, <3>12, <3>14 DEF Unmade
    <3>16. wal' = Append(wal, c) /\ Notify(c) BY <2>2, <3>4
    <3>17. Makes(c) BY <3>13, <3>15, <3>16 DEF Makes
    <3> QED BY <3>14, <3>17
  <2> QED BY <1>4, <2>1, <2>2 DEF DrainApplies
<1>5. CASE DrainTruncates
  <2>1. UNCHANGED <<events, deferred_events>> BY <1>5 DEF DrainTruncates
  <2>2. pre_len \in Nat /\ pre_len <= Len(wal) BY <1>0, <1>5 DEF DrainTruncates, IInv, BoundInv, StoreType
  <2>3. wal' = wal \/ wal' = SubSeq(wal, 1, pre_len) BY <1>5 DEF DrainTruncates, CutAt
  <2> QED BY <1>0, <1>a, <2>1, <2>2, <2>3, CutMakesNone
<1>6. CASE DrainFlushes
  <2>1. wal' = wal /\ events' = Told /\ deferred_events' = << >> BY <1>6 DEF DrainFlushes, Told
  <2>2. Told \in Seq(Commits) /\ Len(Told) \in Nat
        /\ \A i \in 1..Len(Told) : Told[i] \in Elements(events) \cup Elements(deferred_events)
    BY <1>0, ToldFacts
  <2>3. Told' = Told BY <2>1, <2>2 DEF Told
  <2>4. /\ \A x \in Elements(events)' : \E i \in 1..Len(Told) : x = Told[i]
        /\ Elements(deferred_events)' = {}
    BY <2>1 DEF Elements
  <2> QED BY <1>b, <2>1, <2>2, <2>3, <2>4 DEF MakesNone
<1>7. ASSUME NEW w \in Writers, WriterStep(w) PROVE MakesNone \/ \E c \in Commits : Makes(c)
  <2>1. CASE \/ WriteLocksWal(w) \/ WritePolls(w) \/ WriteEnters(w) \/ WriteRefreshFails(w)
             \/ WriteRefused(w) \/ WriteReleases(w)
    BY <2>1, <1>a DEF WriteLocksWal, WritePolls, WriteEnters, WriteRefreshFails, WriteRefused, WriteReleases
  <2>2. CASE WriteCommits(w) \/ WriteSyncFails(w)
    <3>1. /\ writer[w] = "in" /\ wal' = Append(wal, w)
          /\ writer'[w] \in {"committed", "failed"}
          /\ Notify(w) \/ UNCHANGED <<events, deferred_events>>
      BY <1>0, <2>2 DEF WriteCommits, WriteSyncFails, StoreType
    <3>2. w \notin Submitters /\ w \notin Peers /\ w \in Commits BY ThreadsAssumption DEF Commits
    <3>3. Unmade(w) BY <3>1 DEF Unmade
    <3>4. ~Unmade(w)' BY <1>d, <3>1, <3>2 DEF Unmade
    <3> QED BY <3>1, <3>2, <3>3, <3>4 DEF Makes
  <2> QED BY <1>7, <2>1, <2>2 DEF WriterStep
<1>8. ASSUME NEW p \in Peers, PeerStep(p) PROVE MakesNone \/ \E c \in Commits : Makes(c)
  <2>1. CASE PeerLocks(p) \/ PeerSyncs(p) \/ PeerReturns(p)
    BY <2>1, <1>a DEF PeerLocks, PeerSyncs, PeerReturns
  <2>2. CASE PeerAppends(p)
    <3>1. /\ peer[p] = "locked" /\ wal' = Append(wal, p) /\ peer'[p] = "appended"
          /\ UNCHANGED <<events, deferred_events>>
      BY <1>0, <2>2 DEF PeerAppends, StoreType
    <3>2. p \notin Submitters /\ p \notin Writers /\ p \in Commits BY ThreadsAssumption DEF Commits
    <3>3. Unmade(p) BY <3>1 DEF Unmade
    <3>4. ~Unmade(p)' BY <1>d, <3>1, <3>2 DEF Unmade
    <3> QED BY <3>1, <3>2, <3>3, <3>4 DEF Makes
  <2>3. CASE PeerSyncFails(p)
    <3>1. pre_peer[p] \in Nat /\ pre_peer[p] <= Len(wal)
      BY <1>0, <2>3 DEF PeerSyncFails, IInv, BoundInv, StoreType
    <3>2. wal' = SubSeq(wal, 1, pre_peer[p]) /\ UNCHANGED <<events, deferred_events>> BY <2>3 DEF PeerSyncFails
    <3> QED BY <1>0, <3>1, <3>2, CutMakesNone
  <2> QED BY <1>8, <2>1, <2>2, <2>3 DEF PeerStep
<1>9. CASE \E r \in Readers : CaptureStep(r) \/ ReadStep(r)
  <2>1. UNCHANGED <<wal, events, deferred_events>>
    BY <1>9 DEF CaptureStep, ReadStep, CaptureLoads, CaptureLooksAtWriting, CaptureProbes, CaptureTries,
       ReadBegins, ReadChecks, ReadTakesGuard, ReadRefreshes, ReadGranted, ReadEnds
  <2> QED BY <1>a, <2>1
<1>10. CASE Kill
  <2>1. wal' = wal /\ events' = events /\ deferred_events' = << >> BY <1>10 DEF Kill, Reopened
  <2>2. wal' = SubSeq(wal, 1, Len(wal)) /\ Len(wal) <= Len(wal) BY <1>b, <1>c, <2>1
  <2> QED BY <1>0, <1>b, <2>1, <2>2, CutMakesNone
<1>11. CASE PowerLoss
  <2>1. PICK cut \in synced..Len(wal) : Reopened(SubSeq(wal, 1, cut)) BY <1>11 DEF PowerLoss
  <2>2. cut \in Nat /\ cut <= Len(wal) BY <1>0, <1>b, <2>1 DEF StoreType
  <2>3. wal' = SubSeq(wal, 1, cut) /\ events' = events /\ deferred_events' = << >> BY <2>1 DEF Reopened
  <2> QED BY <1>0, <2>2, <2>3, CutMakesNone
<1>12. CASE UNCHANGED vars BY <1>12, <1>a DEF vars
<1> QED BY <1>1, <1>2, <1>3, <1>4, <1>5, <1>6, <1>7, <1>8, <1>9, <1>10, <1>11, <1>12 DEF Next, DrainStep

\* A commit still to be made has left no trace, after each step.
LEMMA FreshKept == ASSUME IInv, QueueInv, FreshInv, [Next]_vars PROVE FreshInv'
<1>0. StoreType BY DEF IInv
<1> SUFFICES ASSUME NEW c \in Commits, Unmade(c)', Made(c)' PROVE FALSE BY DEF FreshInv
<1>1. Unmade(c) /\ ~Made(c) BY UnmadeShrinks DEF FreshInv
<1>2. CASE MakesNone
  <2>1. ~InWal(c)'
    <3>1. wal \in Seq(Commits) /\ Len(wal) \in Nat BY <1>0 DEF StoreType
    <3>2. \A i \in 1..Len(wal') : i \in 1..Len(wal) /\ wal'[i] = wal[i] BY <1>2, <3>1 DEF MakesNone
    <3> QED BY <1>1, <3>2 DEF InWal, Made
  <2> QED BY <1>1, <1>2, <2>1 DEF Made, MakesNone
<1>3. ASSUME NEW d \in Commits, Makes(d) PROVE FALSE
  <2>1. c # d BY <1>3 DEF Makes
  <2>2. ~InWal(c)'
    <3>1. wal \in Seq(Commits) /\ Len(wal) \in Nat /\ wal' = Append(wal, d) BY <1>0, <1>3 DEF StoreType, Makes
    <3>2. \A i \in 1..Len(wal') : wal'[i] = d \/ (i \in 1..Len(wal) /\ wal'[i] = wal[i]) BY <3>1
    <3> QED BY <1>1, <2>1, <3>2 DEF InWal, Made
  <2>3. c \notin Elements(events)' \cup Elements(deferred_events)'
    <3>1. CASE Notify(d) BY <1>0, <1>1, <2>1, <3>1, ToldAppends DEF Made, IInv
    <3>2. CASE UNCHANGED <<events, deferred_events>> BY <1>1, <3>2 DEF Made, Elements
    <3> QED BY <1>3, <3>1, <3>2 DEF Makes
  <2> QED BY <2>2, <2>3 DEF Made
<1> QED BY <1>2, <1>3, StepMakes

\* Frames stay single and events in the order of their frames, after each step.
LEMMA OrderKept == ASSUME IInv, QueueInv, FreshInv, OrderInv, [Next]_vars PROVE OrderInv'
<1>0. StoreType BY DEF IInv
<1>1. CASE MakesNone BY <1>0, <1>1, OrderCut DEF MakesNone
<1>2. ASSUME NEW c \in Commits, Makes(c) PROVE OrderInv'
  <2>1. ~Made(c) /\ wal' = Append(wal, c) BY <1>2 DEF Makes, FreshInv
  <2>2. CASE Notify(c)
    <3>1. /\ Len(Told') = Len(Told) + 1 /\ Told'[Len(Told) + 1] = c
          /\ \A i \in 1..Len(Told) : Told'[i] = Told[i]
      BY <1>0, <2>2, ToldAppends DEF IInv
    <3> QED BY <1>0, <2>1, <3>1, OrderGrows
  <2>3. CASE UNCHANGED <<events, deferred_events>>
    <3>1. Told' = Told BY <2>3 DEF Told
    <3> QED BY <1>0, <2>1, <3>1, OrderGrows
  <2> QED BY <1>2, <2>2, <2>3 DEF Makes
<1> QED BY <1>1, <1>2, StepMakes

\* A queue is fresh and in order at the start.
LEMMA OrderInit == Init => QueueInv /\ FreshInv /\ OrderInv
<1> SUFFICES ASSUME Init PROVE QueueInv /\ FreshInv /\ OrderInv OBVIOUS
<1>1. /\ pending = << >> /\ wal = << >> /\ events = << >> /\ deferred_events = << >> /\ drain = "wait"
  BY DEF Init
<1>2. Told = << >> BY <1>1 DEF Told
<1>3. Elements(events) = {} /\ Elements(deferred_events) = {} BY <1>1 DEF Elements
<1>4. QueueInv BY <1>1 DEF QueueInv, Active, Filling
<1>5. FreshInv BY <1>1, <1>3 DEF FreshInv, Made, InWal
<1>6. OrderInv BY <1>1, <1>2 DEF OrderInv
<1> QED BY <1>4, <1>5, <1>6

\* The invariant of the queue, the log and the events holds of every reachable state.
THEOREM OrderInvariant == Spec => [](QueueInv /\ FreshInv /\ OrderInv)
<1>1. Init => QueueInv /\ FreshInv /\ OrderInv BY OrderInit
<1>2. IInv /\ (QueueInv /\ FreshInv /\ OrderInv) /\ [Next]_vars => (QueueInv /\ FreshInv /\ OrderInv)'
  BY QueueKept, FreshKept, OrderKept
<1> QED BY <1>1, <1>2, InductiveInvariant, PTL DEF Spec

\* Subscribers see commits in the order of the WAL, whichever of the drain
\* thread and the direct writers made them, through every fault and crash.
THEOREM EventsOrdered == Spec => []EventsInWalOrder
<1>1. IInv /\ OrderInv => EventsInWalOrder
  <2> SUFFICES ASSUME IInv, OrderInv PROVE EventsInWalOrder OBVIOUS
  <2>1. \A i \in 1..Len(events) : i \in 1..Len(Told) /\ Told[i] = events[i] BY ToldFacts DEF IInv
  <2> QED BY <2>1 DEF OrderInv, EventsInWalOrder
<1> QED BY <1>1, InductiveInvariant, OrderInvariant, PTL

-----------------------------------------------------------------------------
(* A failed group is gone.                                                 *)

\* The steps of the drain thread between a group's first append and the end of
\* its truncation.
Cuttable == {"applying", "sync", "truncate"}

\* A submission with a frame is one that was applied, and none is left once a
\* failed group was cut off; its frame lies past the place of that cut.
FailInv ==
    /\ \A s \in Submitters : submitter[s] \in {"err", "busy"} => ~InWal(s)
    /\ drain \in Active =>
          \A s \in Elements(group) : InWal(s) => s \in applied /\ drain # "degrade"
    /\ drain \in Cuttable => \A i \in 1..Len(wal) : wal[i] \in Elements(group) => pre_len < i

\* No submission's frame appears or moves.
NoSubmission == \A i \in 1..Len(wal') : wal'[i] \in Submitters => i \in 1..Len(wal) /\ wal'[i] = wal[i]

\* So a submission with a frame had it before.
LEMMA NoSubmissionFacts ==
    ASSUME NoSubmission, NEW s \in Submitters, InWal(s)' PROVE InWal(s)
BY DEF NoSubmission, InWal

\* Steps that make no commit, or one of a direct writer or a peer, leave them alone.
LEMMA MakesNoSubmission ==
    ASSUME StoreType, MakesNone \/ \E c \in Writers \cup Peers : wal' = Append(wal, c) PROVE NoSubmission
<1>1. wal \in Seq(Commits) /\ Len(wal) \in Nat BY DEF StoreType
<1>2. CASE MakesNone BY <1>1, <1>2 DEF MakesNone, NoSubmission
<1>3. ASSUME NEW c \in Writers \cup Peers, wal' = Append(wal, c) PROVE NoSubmission
  <2>1. c \in Commits /\ c \notin Submitters BY ThreadsAssumption DEF Commits
  <2>2. \A i \in 1..Len(wal') : wal'[i] = c \/ (i \in 1..Len(wal) /\ wal'[i] = wal[i]) BY <1>1, <1>3, <2>1
  <2> QED BY <2>1, <2>2 DEF NoSubmission
<1> QED BY <1>2, <1>3

\* Steps that leave the group alone.
LEMMA FailSame ==
    ASSUME StoreType, FailInv, NoSubmission, UNCHANGED <<group, applied, pre_len>>,
           \A s \in Submitters : submitter'[s] \in {"err", "busy"} => submitter[s] \in {"err", "busy"} \/ ~InWal(s),
           drain' \in Active => drain \in Active, drain' \in Cuttable => drain \in Cuttable,
           drain' = "degrade" => drain = "degrade"
    PROVE  FailInv'
<1>1. Elements(group)' = Elements(group) BY DEF Elements
<1>2. \A s \in Elements(group) : s \in Submitters BY DEF StoreType, Elements
<1>3. \A s \in Submitters : InWal(s)' => InWal(s) BY NoSubmissionFacts
<1>4. \A s \in Submitters : submitter'[s] \in {"err", "busy"} => ~InWal(s)' BY <1>3 DEF FailInv
<1>5. drain' \in Active => \A s \in Elements(group) : InWal(s)' => s \in applied /\ drain' # "degrade"
  BY <1>2, <1>3 DEF FailInv
<1>6. drain' \in Cuttable => \A i \in 1..Len(wal') : wal'[i] \in Elements(group) => pre_len < i
  BY <1>2 DEF FailInv, NoSubmission
<1> QED BY <1>1, <1>4, <1>5, <1>6 DEF FailInv

\* A group is answered: who is refused has no frame.
LEMMA FailAnswer ==
    ASSUME StoreType, FailInv, drain' \notin Active, wal' = wal, NEW result, Answer(result),
           \A s \in Elements(group) : result[s] \in {"err", "busy"} => ~InWal(s)
    PROVE  FailInv'
<1>1. drain' \notin Cuttable BY DEF Active, Cuttable
<1>2. \A s \in Submitters : InWal(s)' => InWal(s) BY DEF InWal
<1>3. \A s \in Submitters : submitter'[s] = submitter[s] \/ (s \in Elements(group) /\ submitter'[s] = result[s])
  BY DEF Answer
<1> QED BY <1>1, <1>2, <1>3 DEF FailInv

\* Every step keeps a failed group out of the WAL, when truncating it works.
LEMMA FailKept ==
    ASSUME "truncate" \notin Faults, IInv, QueueInv, FreshInv, FailInv, [Next]_vars PROVE FailInv'
<1>0. StoreType BY DEF IInv
<1>a. wal \in Seq(Commits) /\ Len(wal) \in Nat BY <1>0 DEF StoreType
<1>b. \A s \in Elements(group) : s \in Submitters BY <1>0 DEF StoreType, Elements
<1>c. ASSUME wal' = wal PROVE NoSubmission BY <1>c DEF NoSubmission
<1>1. ASSUME NEW s \in Submitters, CheckDegraded(s) PROVE FailInv'
  <2>1. UNCHANGED <<wal, group, applied, pre_len, drain>> /\ submitter[s] = "idle"
        /\ \A t \in Submitters : t # s => submitter'[t] = submitter[t]
    BY <1>0, <1>1 DEF CheckDegraded, StoreType
  <2>2. ~InWal(s) BY <2>1 DEF FreshInv, Unmade, Made, Commits
  <2> QED BY <1>0, <1>c, <2>1, <2>2, FailSame
<1>2. ASSUME NEW s \in Submitters, Enqueue(s) PROVE FailInv'
  <2>1. UNCHANGED <<wal, group, applied, pre_len, drain>> /\ submitter'[s] = "waiting"
        /\ \A t \in Submitters : t # s => submitter'[t] = submitter[t]
    BY <1>0, <1>2 DEF Enqueue, StoreType
  <2> QED BY <1>0, <1>c, <2>1, FailSame
<1>3. CASE WaitAndDrain
  <2> DEFINE n == Least(Len(pending), MaxGroup)
  <2>1. pending \in Seq(Submitters) /\ n \in Nat /\ n <= Len(pending) /\ Len(pending) \in Nat
    BY <1>0, BoundsAssumption DEF StoreType, Least
  <2>2. group' = SubSeq(pending, 1, n) /\ UNCHANGED <<submitter, wal>> /\ drain' = "wal_mu"
    BY <1>3 DEF WaitAndDrain
  <2> HIDE DEF n
  <2>3. Len(group') = n /\ \A i \in 1..n : i \in 1..Len(pending) /\ group'[i] = pending[i] BY <2>1, <2>2
  <2>4. \A i \in 1..n : group'[i] \in Elements(pending) /\ group'[i] \in Submitters BY <2>1, <2>3 DEF Elements
  <2>5. \A s \in Elements(group)' : s \in Elements(pending) /\ s \in Submitters BY <2>3, <2>4 DEF Elements
  <2>6. \A s \in Elements(group)' : ~InWal(s) BY <2>5 DEF FreshInv, Unmade, Made, Commits
  <2>7. \A s : InWal(s)' <=> InWal(s) BY <2>2 DEF InWal
  <2> QED BY <2>2, <2>6, <2>7 DEF FailInv, Cuttable
<1>4. CASE DrainLocksWal \/ DrainPolls \/ DrainEnters \/ DrainRefreshes \/ DrainRefreshFails
  <2>1. UNCHANGED <<wal, submitter, group, applied, pre_len>> /\ drain \in Active
        /\ drain' \notin Cuttable /\ drain' # "degrade"
    BY <1>4 DEF DrainLocksWal, DrainPolls, DrainEnters, DrainRefreshes, DrainRefreshFails, Active, Cuttable
  <2> QED BY <1>0, <1>c, <2>1, FailSame
<1>5. CASE DrainBeginsGroup
  <2>1. UNCHANGED <<wal, submitter, group, applied>> /\ drain = "apply" /\ drain' = "applying" /\ pre_len' = Len(wal)
    BY <1>5 DEF DrainBeginsGroup
  <2>2. applied = {} BY <2>1 DEF IInv, ProgressInv
  <2>3. drain \in Active BY <2>1 DEF Active
  <2>4. \A s \in Elements(group) : ~InWal(s) BY <2>2, <2>3 DEF FailInv
  <2>5. \A i \in 1..Len(wal) : wal[i] \notin Elements(group) BY <2>4 DEF InWal
  <2>6. Elements(group)' = Elements(group) /\ \A s : InWal(s)' <=> InWal(s) BY <2>1 DEF Elements, InWal
  <2> QED BY <2>1, <2>4, <2>5, <2>6 DEF FailInv
<1>6. CASE DrainApplies
  <2>1. UNCHANGED <<submitter, group, pre_len, drain>> /\ todo # << >> /\ drain = "applying"
    BY <1>6 DEF DrainApplies
  <2>2. CASE UNCHANGED <<wal, applied>> BY <1>0, <1>c, <2>1, <2>2, FailSame
  <2>3. CASE wal' = Append(wal, Head(todo)) /\ applied' = applied \cup {Head(todo)}
    <3>1. todo \in Seq(Submitters) BY <1>0 DEF StoreType
    <3>2. PICK c \in Submitters : c = todo[1] /\ 1 \in 1..Len(todo) /\ c = Head(todo) BY <2>1, <3>1
    <3>3. drain \in Filling /\ drain \in Active BY <2>1 DEF Filling, Active
    <3>4. c \in Elements(group) BY <3>2, <3>3 DEF QueueInv, Elements
    <3>5. submitter[c] = "waiting" BY <3>3, <3>4 DEF QueueInv
    <3>6. wal' = Append(wal, c) /\ applied' = applied \cup {c} BY <2>3, <3>2
    <3>7. c \in Commits BY DEF Commits
    <3>8. \A i \in 1..Len(wal') : \/ i = Len(wal) + 1 /\ wal'[i] = c
                                  \/ i \in 1..Len(wal) /\ wal'[i] = wal[i]
      BY <1>a, <3>6, <3>7
    <3>9. \A s : InWal(s)' => s = c \/ InWal(s) BY <3>8 DEF InWal
    <3>10. Elements(group)' = Elements(group) BY <2>1 DEF Elements
    <3>11. pre_len \in Nat /\ pre_len < Len(wal) + 1 BY <1>0, <1>a, <2>1 DEF IInv, BoundInv, StoreType
    <3>12. \A s \in Submitters : submitter'[s] \in {"err", "busy"} => ~InWal(s)' BY <2>1, <3>5, <3>9 DEF FailInv
    <3>13. \A s \in Elements(group) : InWal(s)' => s \in applied' /\ drain' # "degrade"
      BY <2>1, <3>3, <3>6, <3>9 DEF FailInv
    <3>14. \A i \in 1..Len(wal') : wal'[i] \in Elements(group) => pre_len' < i
      BY <2>1, <3>8, <3>11 DEF FailInv, Cuttable
    <3> QED BY <2>1, <3>10, <3>12, <3>13, <3>14 DEF FailInv
  <2> QED BY <1>6, <2>2, <2>3 DEF DrainApplies
<1>7. CASE DrainEndsGroup \/ DrainSyncs \/ DrainSyncFails \/ DrainFlushes \/ DrainEnds
  <2>1. UNCHANGED <<wal, submitter, group, applied, pre_len>> /\ drain \in Active
        /\ (drain' \in Cuttable => drain \in Cuttable) /\ drain' # "degrade"
    BY <1>7 DEF DrainEndsGroup, DrainSyncs, DrainSyncFails, DrainFlushes, DrainEnds, Active, Cuttable
  <2> QED BY <1>0, <1>c, <2>1, FailSame
<1>8. CASE DrainTruncates
  <2>1. UNCHANGED <<submitter, group, applied>> /\ drain = "truncate" /\ drain' = "degrade"
        /\ wal' = SubSeq(wal, 1, pre_len)
    BY <1>8 DEF DrainTruncates, CutAt
  <2>2. pre_len \in Nat /\ pre_len <= Len(wal) BY <1>0, <2>1 DEF IInv, BoundInv, StoreType
  <2>3. Len(wal') = pre_len /\ \A i \in 1..pre_len : wal'[i] = wal[i] BY <1>a, <2>1, <2>2
  <2>4. \A i \in 1..Len(wal') : i \in 1..Len(wal) /\ wal'[i] = wal[i] /\ i <= pre_len BY <1>a, <2>2, <2>3
  <2>5. \A i \in 1..Len(wal) : wal[i] \in Elements(group) => pre_len < i BY <2>1 DEF FailInv, Cuttable
  <2>6. \A i \in 1..Len(wal') : wal'[i] \notin Elements(group) BY <1>a, <2>2, <2>3, <2>4, <2>5
  <2>7. \A s \in Elements(group) : ~InWal(s)' BY <2>6 DEF InWal
  <2>8. \A s : InWal(s)' => InWal(s) BY <2>4 DEF InWal
  <2>9. Elements(group)' = Elements(group) BY <2>1 DEF Elements
  <2> QED BY <2>1, <2>7, <2>8, <2>9 DEF FailInv, Cuttable
<1>9. CASE DrainBusy \/ DrainUnwritable \/ DrainReportsFailure \/ DrainUpgradeFails
  <2>1. /\ drain \in {"denied", "poll", "failing", "apply"} /\ drain' \notin Active /\ wal' = wal
        /\ \E result : Answer(result)
    BY <1>9 DEF DrainBusy, DrainUnwritable, DrainReportsFailure, DrainUpgradeFails, Active
  <2>2. applied = {} /\ drain \in Active BY <2>1 DEF IInv, ProgressInv, Active
  <2>3. \A s \in Elements(group) : ~InWal(s) BY <2>2 DEF FailInv
  <2> QED BY <1>0, <2>1, <2>3, FailAnswer
<1>10. CASE DrainDegrades
  <2>1. drain = "degrade" /\ drain' = "exited" /\ wal' = wal /\ Answer([s \in Submitters |-> "err"])
    BY <1>10 DEF DrainDegrades
  <2>2. drain \in Active /\ drain' \notin Active BY <2>1 DEF Active
  <2>3. \A s \in Elements(group) : ~InWal(s) BY <2>1, <2>2 DEF FailInv
  <2> QED BY <1>0, <2>1, <2>2, <2>3, FailAnswer
<1>11. CASE DrainAnswers
  <2>1. drain = "answer" /\ drain' = "wait" /\ wal' = wal
        /\ Answer([s \in Submitters |-> IF s \in applied THEN "ok" ELSE "err"])
    BY <1>11 DEF DrainAnswers
  <2>2. drain \in Active /\ drain' \notin Active BY <2>1 DEF Active
  <2>3. \A s \in Elements(group) : s \notin applied => ~InWal(s) BY <2>2 DEF FailInv
  <2> QED BY <1>0, <1>b, <2>1, <2>2, <2>3, FailAnswer
<1>12. ASSUME NEW w \in Writers, WriterStep(w) PROVE FailInv'
  <2>1. UNCHANGED <<submitter, group, applied, pre_len, drain>> /\ (wal' = wal \/ wal' = Append(wal, w))
    BY <1>12 DEF WriterStep, WriteLocksWal, WritePolls, WriteEnters, WriteRefreshFails, WriteCommits,
       WriteSyncFails, WriteRefused, WriteReleases
  <2>2. NoSubmission BY <1>0, <1>c, <2>1, MakesNoSubmission
  <2> QED BY <1>0, <2>1, <2>2, FailSame
<1>13. ASSUME NEW p \in Peers, PeerStep(p) PROVE FailInv'
  <2>1. UNCHANGED <<submitter, group, applied, pre_len, drain>>
    BY <1>13 DEF PeerStep, PeerLocks, PeerAppends, PeerSyncs, PeerReturns, PeerSyncFails
  <2>2. NoSubmission
    <3>1. CASE PeerSyncFails(p)
      <4>1. pre_peer[p] \in Nat /\ pre_peer[p] <= Len(wal) /\ wal' = SubSeq(wal, 1, pre_peer[p])
        BY <1>0, <3>1 DEF PeerSyncFails, IInv, BoundInv, StoreType
      <4>2. \A i \in 1..Len(wal') : i \in 1..Len(wal) /\ wal'[i] = wal[i] BY <1>a, <4>1
      <4> QED BY <4>2 DEF NoSubmission
    <3>2. CASE wal' = wal \/ wal' = Append(wal, p) BY <1>0, <1>c, <3>2, MakesNoSubmission
    <3> QED BY <1>13, <3>1, <3>2 DEF PeerStep, PeerLocks, PeerAppends, PeerSyncs, PeerReturns
  <2> QED BY <1>0, <2>1, <2>2, FailSame
<1>14. CASE \E r \in Readers : CaptureStep(r) \/ ReadStep(r)
  <2>1. UNCHANGED <<wal, submitter, group, applied, pre_len, drain>>
    BY <1>14 DEF CaptureStep, ReadStep, CaptureLoads, CaptureLooksAtWriting, CaptureProbes, CaptureTries,
       ReadBegins, ReadChecks, ReadTakesGuard, ReadRefreshes, ReadGranted, ReadEnds
  <2> QED BY <1>0, <1>c, <2>1, FailSame
<1>15. CASE UNCHANGED vars BY <1>0, <1>c, <1>15, FailSame DEF vars
<1>16. CASE Kill \/ PowerLoss
  <2>1. drain' = "wait" /\ \A t \in Submitters : submitter'[t] \in {"err", "busy"} => submitter'[t] = submitter[t]
    BY <1>16 DEF Kill, PowerLoss, Reopened
  <2>2. \A i \in 1..Len(wal') : i \in 1..Len(wal) /\ wal'[i] = wal[i]
    <3>1. CASE Kill BY <3>1 DEF Kill, Reopened
    <3>2. CASE PowerLoss
      <4>1. PICK cut \in synced..Len(wal) : wal' = SubSeq(wal, 1, cut) BY <3>2 DEF PowerLoss, Reopened
      <4>2. cut \in Nat /\ cut <= Len(wal) BY <1>0, <1>a, <4>1 DEF StoreType
      <4> QED BY <1>a, <4>1, <4>2
    <3> QED BY <1>16, <3>1, <3>2
  <2>3. \A s : InWal(s)' => InWal(s) BY <2>2 DEF InWal
  <2> QED BY <2>1, <2>3 DEF FailInv, Active, Cuttable
<1> QED BY <1>1, <1>2, <1>3, <1>4, <1>5, <1>6, <1>7, <1>8, <1>9, <1>10, <1>11, <1>12, <1>13, <1>14,
           <1>15, <1>16 DEF Next, DrainStep

\* As long as truncating the WAL works, a submission that was answered with an
\* error or Busy is in it no more: whatever the fsync of its group, the lock,
\* the upgrade or a crash did, nothing later makes it durable.
THEOREM FailedGroupsGone == ASSUME "truncate" \notin Faults PROVE Spec => []FailedGroupIsGone
<1>1. Init => FailInv
  BY DEF Init, FailInv, InWal, Active, Cuttable
<1>2. IInv /\ (QueueInv /\ FreshInv /\ OrderInv) /\ FailInv /\ [Next]_vars => FailInv' BY FailKept
<1>3. FailInv => FailedGroupIsGone BY DEF FailInv, InWal, FailedGroupIsGone, Elements
<1> QED BY <1>1, <1>2, <1>3, InductiveInvariant, OrderInvariant, PTL DEF Spec

-----------------------------------------------------------------------------
(* Memory is the replay of the WAL.                                        *)

\* Memory holds the frames below the cursor.
Replay ==
    /\ wal_consumed <= Len(wal) /\ Len(mem) = wal_consumed
    /\ \A i \in 1..wal_consumed : mem[i] = wal[i]

\* A handle that is not degraded holds the replay, but for a failed group that
\* was cut off under it; whoever is about to append stands at the end of the WAL.
MemInv ==
    ~degraded =>
    /\ Replay \/ (drain = "degrade" /\ Len(wal) < wal_consumed)
    /\ drain \in {"apply", "applying"} => wal_consumed = Len(wal)
    /\ \A w \in Writers : writer[w] = "in" => wal_consumed = Len(wal)

\* A refresh brings memory to the end of the WAL.
LEMMA RefreshReplays ==
    ASSUME TypeOK, Replay \/ Len(wal) < wal_consumed, Refresh, wal' = wal
    PROVE  Replay' /\ wal_consumed' = Len(wal')
<1>1. wal \in Seq(Commits) /\ mem \in Seq(Commits) /\ wal_consumed \in Nat /\ Len(wal) \in Nat
  BY DEF TypeOK, StoreType, HandleType
<1>2. wal_consumed' = Len(wal) BY DEF Refresh
<1>3. CASE Len(wal) < wal_consumed
  <2>1. mem' = wal BY <1>3 DEF Refresh
  <2> QED BY <1>1, <1>2, <2>1 DEF Replay
<1>4. CASE ~(Len(wal) < wal_consumed)
  <2> DEFINE tail == SubSeq(wal, wal_consumed + 1, Len(wal))
  <2>1. mem' = mem \o tail BY <1>4 DEF Refresh
  <2>2. /\ tail \in Seq(Commits) /\ Len(tail) = Len(wal) - wal_consumed
        /\ \A i \in 1..(Len(wal) - wal_consumed) : tail[i] = wal[wal_consumed + i]
    BY <1>1, <1>4
  <2>3. Len(mem) = wal_consumed /\ \A i \in 1..wal_consumed : mem[i] = wal[i] BY <1>4 DEF Replay
  <2> HIDE DEF tail
  <2>4. /\ Len(mem \o tail) = Len(wal)
        /\ \A i \in 1..Len(wal) : (mem \o tail)[i] = IF i <= Len(mem) THEN mem[i] ELSE tail[i - Len(mem)]
    BY <1>1, <1>4, <2>2, <2>3
  <2>5. ASSUME NEW i \in 1..Len(wal) PROVE (mem \o tail)[i] = wal[i]
    <3>1. CASE i <= wal_consumed BY <1>1, <2>3, <2>4, <3>1
    <3>2. CASE ~(i <= wal_consumed)
      <4>1. i - wal_consumed \in 1..(Len(wal) - wal_consumed) /\ wal_consumed + (i - wal_consumed) = i
        BY <1>1, <3>2
      <4>2. tail[i - wal_consumed] = wal[i] BY <2>2, <4>1
      <4> QED BY <1>1, <2>3, <2>4, <3>2, <4>2
    <3> QED BY <3>1, <3>2
  <2> QED BY <1>1, <1>2, <2>1, <2>4, <2>5 DEF Replay
<1> QED BY <1>3, <1>4

\* One commit goes to the end of both.
LEMMA AppendReplays ==
    ASSUME TypeOK, Replay, wal_consumed = Len(wal), NEW c \in Commits,
           wal' = Append(wal, c), mem' = Append(mem, c), wal_consumed' = wal_consumed + 1
    PROVE  Replay' /\ wal_consumed' = Len(wal')
<1>1. wal \in Seq(Commits) /\ mem \in Seq(Commits) /\ wal_consumed \in Nat /\ Len(wal) \in Nat
  BY DEF TypeOK, StoreType, HandleType
<1>2. /\ Len(wal') = Len(wal) + 1 /\ wal'[Len(wal) + 1] = c /\ \A i \in 1..Len(wal) : wal'[i] = wal[i]
      /\ Len(mem') = Len(mem) + 1 /\ mem'[Len(mem) + 1] = c /\ \A i \in 1..Len(mem) : mem'[i] = mem[i]
  BY <1>1
<1> QED BY <1>1, <1>2 DEF Replay

\* Steps that leave the WAL and memory alone.
LEMMA MemSame ==
    ASSUME MemInv, UNCHANGED <<wal, mem, wal_consumed>>,
           ~degraded' => ~degraded,
           drain' \in {"apply", "applying"} => drain \in {"apply", "applying"},
           ~degraded' /\ drain = "degrade" => drain' = "degrade",
           \A w \in Writers : writer'[w] = "in" => writer[w] = "in"
    PROVE  MemInv'
<1>1. Replay' <=> Replay BY DEF Replay
<1> QED BY <1>1 DEF MemInv

\* Every step keeps memory the replay of the WAL.
LEMMA MemKept ==
    ASSUME "directSync" \notin Faults, "peerSync" \notin Faults,
           IInv, TypeOK, MemInv, [Next]_vars
    PROVE  MemInv'
<1>0. StoreType BY DEF IInv
<1>a. /\ wal \in Seq(Commits) /\ mem \in Seq(Commits) /\ wal_consumed \in Nat /\ Len(wal) \in Nat
      /\ degraded \in BOOLEAN
  BY DEF TypeOK, StoreType, HandleType
<1>b. ASSUME Refresh, wal' = wal, ~degraded' => ~degraded PROVE MemInv'
  BY <1>b, RefreshReplays DEF MemInv
<1>1. CASE \E s \in Submitters : CheckDegraded(s) \/ Enqueue(s)
  BY <1>1, MemSame DEF CheckDegraded, Enqueue
<1>2. CASE \/ WaitAndDrain \/ DrainLocksWal \/ DrainPolls \/ DrainBusy \/ DrainUnwritable
           \/ DrainEnters \/ DrainUpgradeFails \/ DrainBeginsGroup \/ DrainEndsGroup
           \/ DrainSyncs \/ DrainSyncFails \/ DrainFlushes \/ DrainEnds \/ DrainAnswers
  <2>1. /\ UNCHANGED <<wal, mem, wal_consumed, degraded, writer>> /\ drain # "degrade"
        /\ drain' \in {"apply", "applying"} => drain \in {"apply", "applying"}
    BY <1>2 DEF WaitAndDrain, DrainLocksWal, DrainPolls, DrainBusy, DrainUnwritable, DrainEnters,
       DrainUpgradeFails, DrainBeginsGroup, DrainEndsGroup, DrainSyncs, DrainSyncFails, DrainFlushes,
       DrainEnds, DrainAnswers, Answer
  <2> QED BY <2>1, MemSame
<1>3. CASE DrainRefreshes BY <1>3, <1>b DEF DrainRefreshes
<1>4. CASE DrainRefreshFails \/ DrainReportsFailure \/ DrainDegrades
  BY <1>4 DEF DrainRefreshFails, DrainReportsFailure, DrainDegrades, MemInv
<1>5. CASE DrainApplies
  <2>1. UNCHANGED <<drain, writer, degraded>> /\ drain = "applying" /\ todo # << >> BY <1>5 DEF DrainApplies
  <2>2. CASE UNCHANGED <<wal, mem, wal_consumed>> BY <2>1, <2>2, MemSame
  <2>3. CASE /\ ~degraded /\ wal' = Append(wal, Head(todo)) /\ mem' = Append(mem, Head(todo))
             /\ wal_consumed' = wal_consumed + 1
    <3>1. todo \in Seq(Submitters) BY <1>0 DEF StoreType
    <3>2. PICK c \in Submitters : c = Head(todo) BY <2>1, <3>1
    <3>3. c \in Commits BY DEF Commits
    <3>4. Replay /\ wal_consumed = Len(wal) BY <2>1, <2>3 DEF MemInv
    <3>5. wal' = Append(wal, c) /\ mem' = Append(mem, c) BY <2>3, <3>2
    <3>6. Replay' /\ wal_consumed' = Len(wal') BY <2>3, <3>3, <3>4, <3>5, AppendReplays
    <3> QED BY <3>6 DEF MemInv
  <2> QED BY <1>5, <2>2, <2>3 DEF DrainApplies
<1>6. CASE DrainTruncates
  <2>1. UNCHANGED <<mem, wal_consumed, writer, degraded>> /\ drain = "truncate" /\ drain' = "degrade"
        /\ (wal' = wal \/ wal' = SubSeq(wal, 1, pre_len))
    BY <1>6 DEF DrainTruncates, CutAt
  <2>2. pre_len \in Nat /\ pre_len <= Len(wal) BY <1>0, <2>1 DEF IInv, BoundInv, StoreType
  <2>3. CASE wal' = wal BY <2>1, <2>3, MemSame
  <2>4. CASE wal' = SubSeq(wal, 1, pre_len)
    <3>1. Len(wal') = pre_len /\ \A i \in 1..pre_len : wal'[i] = wal[i] BY <1>a, <2>2, <2>4
    <3>2. wal_mu = Drain BY <2>1 DEF IInv, LockInv, DrainHoldsWal
    <3>3. \A w \in Writers : writer[w] # "in" BY <3>2, ThreadsAssumption DEF IInv, LockInv
    <3>4. ~degraded => Replay BY <2>1 DEF MemInv
    <3>5. ~degraded => Replay' \/ Len(wal') < wal_consumed' BY <1>a, <2>1, <2>2, <3>1, <3>4 DEF Replay
    <3> QED BY <2>1, <3>3, <3>5 DEF MemInv
  <2> QED BY <2>1, <2>3, <2>4
<1>7. ASSUME NEW w \in Writers, WriterStep(w) PROVE MemInv'
  <2>1. CASE WriteLocksWal(w) \/ WritePolls(w) \/ WriteRefused(w) \/ WriteReleases(w)
    <3>1. /\ UNCHANGED <<wal, mem, wal_consumed, degraded, drain>>
          /\ \A v \in Writers : writer'[v] = "in" => writer[v] = "in"
      BY <1>0, <2>1 DEF WriteLocksWal, WritePolls, WriteRefused, WriteReleases, StoreType
    <3> QED BY <3>1, MemSame
  <2>2. CASE WriteEnters(w)
    <3>1. CASE writer[w] = "enter" BY <2>2, <3>1, <1>b DEF WriteEnters
    <3>2. CASE writer[w] # "enter"
      <4>1. /\ UNCHANGED <<wal, mem, wal_consumed, degraded, drain>>
            /\ \A v \in Writers : writer'[v] = "in" => writer[v] = "in"
        BY <1>0, <2>2, <3>2 DEF WriteEnters, StoreType
      <4> QED BY <4>1, MemSame
    <3> QED BY <3>1, <3>2
  <2>3. CASE WriteRefreshFails(w) BY <2>3 DEF WriteRefreshFails, MemInv
  <2>4. CASE WriteCommits(w)
    <3>1. /\ ~degraded /\ writer[w] = "in" /\ wal' = Append(wal, w) /\ mem' = Append(mem, w)
          /\ wal_consumed' = wal_consumed + 1
      BY <2>4 DEF WriteCommits
    <3>2. Replay /\ wal_consumed = Len(wal) BY <1>a, <3>1 DEF MemInv
    <3>3. w \in Commits BY DEF Commits
    <3>4. Replay' /\ wal_consumed' = Len(wal') BY <3>1, <3>2, <3>3, AppendReplays
    <3> QED BY <3>4 DEF MemInv
  <2>5. ~WriteSyncFails(w) BY DEF WriteSyncFails
  <2> QED BY <1>7, <2>1, <2>2, <2>3, <2>4, <2>5 DEF WriterStep
<1>8. ASSUME NEW p \in Peers, PeerStep(p) PROVE MemInv'
  <2>1. CASE PeerLocks(p) \/ PeerSyncs(p) \/ PeerReturns(p)
    BY <2>1, MemSame DEF PeerLocks, PeerSyncs, PeerReturns
  <2>2. CASE PeerAppends(p)
    <3>1. UNCHANGED <<mem, wal_consumed, writer, drain, degraded>> /\ peer[p] = "locked" /\ wal' = Append(wal, p)
      BY <2>2 DEF PeerAppends
    <3>2. LOCK = p /\ p # Local /\ p \in Commits BY <3>1, ThreadsAssumption DEF IInv, LockInv, Commits
    <3>3. drain \notin {"apply", "applying", "degrade"} BY <3>2 DEF IInv, LockInv, DrainHoldsLock, DrainHoldsWal
    <3>4. ~degraded => \A w \in Writers : writer[w] # "in" BY <3>2 DEF IInv, LockInv
    <3>5. Len(wal') = Len(wal) + 1 /\ \A i \in 1..Len(wal) : wal'[i] = wal[i] BY <1>a, <3>1, <3>2
    <3>6. ~degraded => Replay BY <3>3 DEF MemInv
    <3>7. ~degraded => Replay' BY <1>a, <3>1, <3>5, <3>6 DEF Replay
    <3> QED BY <3>1, <3>3, <3>4, <3>7 DEF MemInv
  <2>3. ~PeerSyncFails(p) BY DEF PeerSyncFails
  <2> QED BY <1>8, <2>1, <2>2, <2>3 DEF PeerStep
<1>9. ASSUME NEW r \in Readers, CaptureStep(r) \/ ReadStep(r) PROVE MemInv'
  <2>1. CASE \/ CaptureStep(r) \/ ReadBegins(r) \/ ReadChecks(r) \/ ReadTakesGuard(r)
             \/ ReadGranted(r) \/ ReadEnds(r)
    <3>1. UNCHANGED <<wal, mem, wal_consumed, writer, drain, degraded>>
      BY <2>1 DEF CaptureStep, CaptureLoads, CaptureLooksAtWriting, CaptureProbes, CaptureTries,
         ReadBegins, ReadChecks, ReadTakesGuard, ReadGranted, ReadEnds
    <3> QED BY <3>1, MemSame
  <2>2. CASE ReadRefreshes(r)
    <3>1. CASE Refresh /\ degraded' = degraded BY <2>2, <3>1, <1>b DEF ReadRefreshes
    <3>2. CASE degraded' = TRUE BY <3>2 DEF MemInv
    <3> QED BY <2>2, <3>1, <3>2 DEF ReadRefreshes
  <2> QED BY <1>9, <2>1, <2>2 DEF ReadStep
<1>10. CASE Kill \/ PowerLoss
  <2>1. mem' = wal' /\ wal_consumed' = Len(wal') /\ drain' = "wait" BY <1>10 DEF Kill, PowerLoss, Reopened
  <2>2. \A w \in Writers : writer'[w] # "in" BY <1>10 DEF Kill, PowerLoss, Reopened
  <2>3. Len(wal') \in Nat BY NextIInv DEF IInv, StoreType
  <2>4. Replay' BY <2>1, <2>3 DEF Replay
  <2> QED BY <2>1, <2>2, <2>4 DEF MemInv
<1>11. CASE UNCHANGED vars BY <1>11, MemSame DEF vars
<1> QED BY <1>1, <1>2, <1>3, <1>4, <1>5, <1>6, <1>7, <1>8, <1>9, <1>10, <1>11 DEF Next, DrainStep

\* As long as no fsync of a direct write or of a peer fails, which leaves a
\* frame the handle has not applied or takes back one it has, a handle that is
\* not degraded holds exactly the replay of the WAL up to its cursor whenever
\* nobody holds the write guard.
THEOREM MemoryReplays ==
    ASSUME "directSync" \notin Faults, "peerSync" \notin Faults PROVE Spec => []MemoryIsReplay
<1>1. Init => MemInv BY DEF Init, MemInv, Replay
<1>2. IInv /\ TypeOK /\ MemInv /\ [Next]_vars => MemInv' BY MemKept
<1>3. TypeOK /\ MemInv => MemoryIsReplay
  <2> SUFFICES ASSUME TypeOK, MemInv, ~degraded, drain \notin {"truncate", "degrade"}
               PROVE  mem = SubSeq(wal, 1, wal_consumed)
    BY DEF MemoryIsReplay
  <2>1. Replay BY DEF MemInv
  <2>2. wal \in Seq(Commits) /\ mem \in Seq(Commits) /\ wal_consumed \in Nat
    BY DEF TypeOK, StoreType, HandleType
  <2> QED BY <2>1, <2>2 DEF Replay
<1> QED BY <1>1, <1>2, <1>3, InductiveInvariant, TypeCorrect, PTL DEF Spec

-----------------------------------------------------------------------------
(* Captures hold what had returned.                                        *)

InMem(c)  == \E i \in 1..Len(mem) : mem[i] = c
InSlot(c) == \E i \in 1..Len(slot.snap) : slot.snap[i] = c

\* A commit of this process that returned; one it applied and has not taken
\* back; of those the ones some guard was dropped since.
Own(c) == \/ c \in Submitters /\ submitter[c] = "ok"
          \/ c \in Writers /\ writer[c] = "ok"
Held(c) == \/ Own(c)
           \/ drain \in {"applying", "sync", "flush", "end", "answer"} /\ c \in applied
           \/ c \in Writers /\ writer[c] = "committed"
Shown(c) == \/ Own(c)
            \/ drain \in {"sync", "flush", "end", "answer"} /\ c \in applied

HeldInv == \A c \in Commits : /\ Held(c) => InWal(c) /\ InMem(c)
                              /\ Shown(c) => InSlot(c)

\* Only a group that waits for its fsync is cut off.
CutsAreStrict == drain = "truncate" => Strict

\* Only the failure of a group's fsync leads there.
LEMMA CutsKept == ASSUME CutsAreStrict, [Next]_vars PROVE CutsAreStrict'
<1>1. CASE DrainSyncFails BY <1>1 DEF DrainSyncFails, GroupNeedsSync, CutsAreStrict
<1>2. CASE \/ WaitAndDrain \/ DrainLocksWal \/ DrainPolls \/ DrainBusy \/ DrainUnwritable
           \/ DrainEnters \/ DrainRefreshes \/ DrainRefreshFails \/ DrainReportsFailure
           \/ DrainUpgradeFails \/ DrainBeginsGroup \/ DrainApplies \/ DrainEndsGroup
           \/ DrainSyncs \/ DrainTruncates \/ DrainDegrades \/ DrainFlushes \/ DrainEnds \/ DrainAnswers
  BY <1>2 DEF WaitAndDrain, DrainLocksWal, DrainPolls, DrainBusy, DrainUnwritable, DrainEnters,
     DrainRefreshes, DrainRefreshFails, DrainReportsFailure, DrainUpgradeFails, DrainBeginsGroup,
     DrainApplies, DrainEndsGroup, DrainSyncs, DrainTruncates, DrainDegrades, DrainFlushes, DrainEnds,
     DrainAnswers, CutsAreStrict
<1>3. CASE \E w \in Writers : WriterStep(w)
  BY <1>3 DEF WriterStep, WriteLocksWal, WritePolls, WriteEnters, WriteRefreshFails, WriteCommits,
     WriteSyncFails, WriteRefused, WriteReleases, CutsAreStrict
<1>4. CASE \E r \in Readers : CaptureStep(r) \/ ReadStep(r)
  BY <1>4 DEF CaptureStep, ReadStep, CaptureLoads, CaptureLooksAtWriting, CaptureProbes, CaptureTries,
     ReadBegins, ReadChecks, ReadTakesGuard, ReadRefreshes, ReadGranted, ReadEnds, CutsAreStrict
<1>5. CASE \E p \in Peers : PeerStep(p)
  BY <1>5 DEF PeerStep, PeerLocks, PeerAppends, PeerSyncs, PeerReturns, PeerSyncFails, CutsAreStrict
<1>6. CASE \E s \in Submitters : CheckDegraded(s) \/ Enqueue(s) BY <1>6 DEF CheckDegraded, Enqueue, CutsAreStrict
<1>7. CASE Kill \/ PowerLoss BY <1>7 DEF Kill, PowerLoss, Reopened, CutsAreStrict
<1>8. CASE UNCHANGED vars BY <1>8 DEF vars, CutsAreStrict
<1> QED BY <1>1, <1>2, <1>3, <1>4, <1>5, <1>6, <1>7, <1>8 DEF Next, DrainStep

\* Steps that take nothing out of the WAL or of memory, and hold nothing new.
LEMMA HeldSame ==
    ASSUME HeldInv, \A c \in Commits : Held(c)' => Held(c),
           \A c \in Commits : Held(c)' /\ InWal(c) => InWal(c)',
           \A c \in Commits : InWal(c) /\ InWal(c)' /\ InMem(c) => InMem(c)',
           \/ slot'.snap = mem'
           \/ slot' = slot /\ \A c \in Commits : Shown(c)' => Shown(c)
    PROVE  HeldInv'
<1>1. \A c \in Commits : Held(c)' => InWal(c)' /\ InMem(c)' BY DEF HeldInv
<1>2. \A c \in Commits : Shown(c)' => Held(c)' BY DEF Shown, Held, Own
<1>3. \A c \in Commits : Shown(c)' => InSlot(c)'
  <2>1. CASE slot'.snap = mem' BY <1>1, <1>2, <2>1 DEF InSlot, InMem
  <2>2. CASE slot' = slot /\ \A c \in Commits : Shown(c)' => Shown(c) BY <2>2 DEF InSlot, HeldInv
  <2> QED BY <2>1, <2>2
<1> QED BY <1>1, <1>3 DEF HeldInv

\* The same when the WAL and memory are left alone.
LEMMA HeldQuiet ==
    ASSUME HeldInv, UNCHANGED <<wal, mem>>, \A c \in Commits : Held(c)' => Held(c),
           \/ slot'.snap = mem'
           \/ slot' = slot /\ \A c \in Commits : Shown(c)' => Shown(c)
    PROVE  HeldInv'
<1>1. \A c : (InWal(c) => InWal(c)') /\ (InMem(c) => InMem(c)') BY DEF InWal, InMem
<1> QED BY <1>1, HeldSame

\* A commit is appended to both and is not yet shown.
LEMMA HeldGrows ==
    ASSUME TypeOK, HeldInv, NEW d \in Commits, wal' = Append(wal, d), mem' = Append(mem, d), slot' = slot,
           \A c \in Commits : Held(c)' => Held(c) \/ c = d,
           \A c \in Commits : Shown(c)' => Shown(c)
    PROVE  HeldInv'
<1>1. wal \in Seq(Commits) /\ mem \in Seq(Commits) BY DEF TypeOK, StoreType, HandleType
<1>2. InWal(d)' /\ \A c : InWal(c) => InWal(c)' BY <1>1, AppendWal
<1>3. /\ Len(mem') = Len(mem) + 1 /\ Len(mem) \in Nat /\ mem'[Len(mem) + 1] = d
      /\ \A i \in 1..Len(mem) : i \in 1..Len(mem') /\ mem'[i] = mem[i]
  BY <1>1, AppendLog
<1>4. Len(mem) + 1 \in 1..Len(mem') BY <1>3
<1>5. InMem(d)' /\ \A c : InMem(c) => InMem(c)' BY <1>3, <1>4 DEF InMem
<1>6. \A c : InSlot(c) => InSlot(c)' BY DEF InSlot
<1> QED BY <1>2, <1>5, <1>6 DEF HeldInv

\* A refresh loses no commit of the WAL.
LEMMA RefreshKeeps ==
    ASSUME TypeOK, Refresh, NEW c, InWal(c), InMem(c) PROVE InMem(c)'
<1>1. wal \in Seq(Commits) /\ mem \in Seq(Commits) /\ wal_consumed \in Nat /\ Len(wal) \in Nat
  BY DEF TypeOK, StoreType, HandleType
<1>2. CASE Len(wal) < wal_consumed
  <2>1. mem' = wal BY <1>2 DEF Refresh
  <2> QED BY <2>1 DEF InWal, InMem
<1>3. CASE ~(Len(wal) < wal_consumed)
  <2> DEFINE tail == SubSeq(wal, wal_consumed + 1, Len(wal))
  <2>1. mem' = mem \o tail /\ tail \in Seq(Commits) BY <1>1, <1>3 DEF Refresh
  <2> HIDE DEF tail
  <2>2. \A i \in 1..Len(mem) : i \in 1..Len(mem \o tail) /\ (mem \o tail)[i] = mem[i] BY <1>1, <2>1
  <2> QED BY <2>1, <2>2 DEF InMem
<1> QED BY <1>2, <1>3

\* What the frames an fsync covered hold is still there after a cut or a crash.
LEMMA DurableStays ==
    ASSUME IInv, DrainTruncates \/ PowerLoss \/ \E p \in Peers : PeerSyncFails(p), NEW c, OnDisk(c)
    PROVE  InWal(c)'
<1>0. wal \in Seq(Commits) /\ Len(wal) \in Nat /\ synced \in Nat /\ synced <= Len(wal)
  BY DEF IInv, StoreType, BoundInv
<1>a. ASSUME NEW k \in Nat, synced <= k, k <= Len(wal), wal' = SubSeq(wal, 1, k) PROVE InWal(c)'
  <2>1. Len(wal') = k /\ \A i \in 1..k : wal'[i] = wal[i] BY <1>0, <1>a
  <2>2. \A i \in 1..synced : i \in 1..Len(wal') /\ wal'[i] = wal[i] BY <1>0, <1>a, <2>1
  <2> QED BY <2>2 DEF OnDisk, InWal
<1>1. CASE DrainTruncates
  <2>1. pre_len \in Nat /\ synced <= pre_len /\ pre_len <= Len(wal)
    BY <1>1 DEF DrainTruncates, IInv, BoundInv, StoreType
  <2>2. CASE wal' = wal
    <3>1. \A i \in 1..synced : i \in 1..Len(wal') /\ wal'[i] = wal[i] BY <1>0, <2>2
    <3> QED BY <3>1 DEF OnDisk, InWal
  <2>3. CASE wal' = SubSeq(wal, 1, pre_len) BY <1>a, <2>1, <2>3
  <2> QED BY <1>1, <2>2, <2>3 DEF DrainTruncates, CutAt
<1>2. CASE PowerLoss
  <2>1. PICK cut \in synced..Len(wal) : wal' = SubSeq(wal, 1, cut) BY <1>2 DEF PowerLoss, Reopened
  <2>2. cut \in Nat /\ synced <= cut /\ cut <= Len(wal) BY <1>0, <2>1
  <2> QED BY <1>a, <2>1, <2>2
<1>3. ASSUME NEW p \in Peers, PeerSyncFails(p) PROVE InWal(c)'
  <2>1. pre_peer[p] \in Nat /\ synced <= pre_peer[p] /\ pre_peer[p] <= Len(wal)
    BY <1>3 DEF PeerSyncFails, IInv, BoundInv, StoreType
  <2>2. wal' = SubSeq(wal, 1, pre_peer[p]) BY <1>3 DEF PeerSyncFails
  <2> QED BY <1>a, <2>1, <2>2
<1> QED BY <1>1, <1>2, <1>3

\* Every step keeps what this process applied in the WAL and in memory, and what
\* was shown in the slot.
LEMMA HeldKept ==
    ASSUME Strict \/ "power" \notin Faults, IInv, TypeOK, QueueInv, CutsAreStrict, HeldInv, [Next]_vars
    PROVE  HeldInv'
<1>0. StoreType BY DEF IInv
<1>a. wal \in Seq(Commits) /\ mem \in Seq(Commits) /\ Len(wal) \in Nat /\ applied \in SUBSET Submitters
  BY DEF TypeOK, StoreType, HandleType
<1>b. \A c : InMem(c) /\ mem' = mem => InMem(c)' BY DEF InMem
<1>c. \A c : InWal(c) /\ wal' = wal => InWal(c)' BY DEF InWal
<1>1. CASE \E s \in Submitters : CheckDegraded(s) \/ Enqueue(s)
  <2>1. UNCHANGED <<wal, mem, slot, drain, applied, writer>> BY <1>1 DEF CheckDegraded, Enqueue
  <2>2. \A s \in Submitters : submitter'[s] = "ok" => submitter[s] = "ok"
    BY <1>0, <1>1 DEF CheckDegraded, Enqueue, StoreType
  <2>3. \A c \in Commits : (Held(c)' => Held(c)) /\ (Shown(c)' => Shown(c)) BY <2>1, <2>2 DEF Held, Shown, Own
  <2> QED BY <2>1, <2>3, HeldQuiet
<1>2. CASE WaitAndDrain \/ DrainLocksWal \/ DrainPolls \/ DrainEnters \/ DrainSyncs \/ DrainSyncFails
  <2>1. UNCHANGED <<wal, mem, slot, submitter, writer>>
    BY <1>2 DEF WaitAndDrain, DrainLocksWal, DrainPolls, DrainEnters, DrainSyncs, DrainSyncFails
  <2>2. drain' \in {"wal_mu", "poll", "enter", "denied", "refresh", "truncate"}
        \/ (drain = "sync" /\ drain' # "applying" /\ applied' = applied)
    BY <1>2 DEF WaitAndDrain, DrainLocksWal, DrainPolls, DrainEnters, DrainSyncs, DrainSyncFails
  <2>3. \A c \in Commits : (Held(c)' => Held(c)) /\ (Shown(c)' => Shown(c)) BY <2>1, <2>2 DEF Held, Shown, Own
  <2> QED BY <2>1, <2>3, HeldQuiet
<1>3. CASE DrainBeginsGroup
  <2>1. UNCHANGED <<wal, mem, slot, submitter, writer, applied>> /\ drain' = "applying" /\ drain = "apply"
    BY <1>3 DEF DrainBeginsGroup
  <2>2. applied = {} BY <2>1 DEF IInv, ProgressInv
  <2>3. \A c \in Commits : (Held(c)' => Held(c)) /\ (Shown(c)' => Shown(c)) BY <2>1, <2>2 DEF Held, Shown, Own
  <2> QED BY <2>1, <2>3, HeldQuiet
<1>4. CASE DrainBusy \/ DrainReportsFailure \/ DrainUpgradeFails \/ DrainDegrades \/ DrainUnwritable
  <2>1. UNCHANGED <<wal, mem, writer, applied>> /\ drain' \in {"wait", "exited"}
        /\ (slot' = slot \/ slot'.snap = mem')
    BY <1>4 DEF DrainBusy, DrainReportsFailure, DrainUpgradeFails, DrainDegrades, DrainUnwritable, BriefGuard,
       Publish, Answer
  <2>2. \A s \in Submitters : submitter'[s] = "ok" => submitter[s] = "ok"
    BY <1>4 DEF DrainBusy, DrainReportsFailure, DrainUpgradeFails, DrainDegrades, DrainUnwritable, Answer
  <2>3. \A c \in Commits : (Held(c)' => Held(c)) /\ (Shown(c)' => Shown(c)) BY <2>1, <2>2 DEF Held, Shown, Own
  <2> QED BY <2>1, <2>3, HeldQuiet
<1>5. CASE DrainRefreshFails \/ DrainEndsGroup \/ DrainFlushes \/ DrainEnds
  <2>1. UNCHANGED <<wal, mem, writer, applied, submitter>> /\ slot'.snap = mem'
        /\ (drain' = "failing" \/ drain \in {"applying", "flush", "end"})
    BY <1>5 DEF DrainRefreshFails, DrainEndsGroup, DrainFlushes, DrainEnds, BriefGuard, DropGuard, Publish
  <2>2. \A c \in Commits : Held(c)' => Held(c) BY <2>1 DEF Held, Own
  <2> QED BY <2>1, <2>2, HeldQuiet
<1>6. CASE DrainAnswers
  <2>1. UNCHANGED <<wal, mem, slot, writer, applied>> /\ drain' = "wait" /\ drain = "answer"
    BY <1>6 DEF DrainAnswers, Answer
  <2>2. \A s \in Submitters : submitter'[s] = "ok" => submitter[s] = "ok" \/ s \in applied
    BY <1>6 DEF DrainAnswers, Answer
  <2>3. \A c \in Commits : (Held(c)' => Held(c)) /\ (Shown(c)' => Shown(c)) BY <2>1, <2>2 DEF Held, Shown, Own
  <2> QED BY <2>1, <2>3, HeldQuiet
<1>7. CASE DrainRefreshes
  <2>1. UNCHANGED <<wal, submitter, writer>> /\ drain' = "apply" /\ slot'.snap = mem' /\ Refresh
    BY <1>7 DEF DrainRefreshes, DropGuard, Publish
  <2>2. \A c \in Commits : Held(c)' => Held(c) BY <2>1 DEF Held, Own
  <2> QED BY <1>c, <2>1, <2>2, RefreshKeeps, HeldSame
<1>8. CASE DrainApplies
  <2>1. UNCHANGED <<slot, submitter, writer, drain>> /\ drain = "applying" /\ todo # << >> BY <1>8 DEF DrainApplies
  <2>2. CASE UNCHANGED <<wal, mem, applied>>
    <3>1. \A c \in Commits : (Held(c)' => Held(c)) /\ (Shown(c)' => Shown(c)) BY <2>1, <2>2 DEF Held, Shown, Own
    <3> QED BY <2>1, <2>2, <3>1, HeldQuiet
  <2>3. CASE /\ wal' = Append(wal, Head(todo)) /\ mem' = Append(mem, Head(todo))
             /\ applied' = applied \cup {Head(todo)}
    <3>1. todo \in Seq(Submitters) BY <1>0 DEF StoreType
    <3>2. PICK d \in Submitters : d = Head(todo) BY <2>1, <3>1
    <3>3. d \in Commits BY DEF Commits
    <3>4. wal' = Append(wal, d) /\ mem' = Append(mem, d) /\ applied' = applied \cup {d} BY <2>3, <3>2
    <3>5. \A c \in Commits : (Held(c)' => Held(c) \/ c = d) /\ (Shown(c)' => Shown(c))
      BY <2>1, <3>4 DEF Held, Shown, Own
    <3> QED BY <2>1, <3>3, <3>4, <3>5, HeldGrows
  <2> QED BY <1>8, <2>2, <2>3 DEF DrainApplies
<1>9. CASE DrainTruncates
  <2>1. UNCHANGED <<mem, slot, submitter, writer>> /\ drain' = "degrade" /\ drain = "truncate" BY <1>9 DEF DrainTruncates
  <2>2. CASE wal' = wal
    <3>1. \A c \in Commits : (Held(c)' => Held(c)) /\ (Shown(c)' => Shown(c)) BY <2>1 DEF Held, Shown, Own
    <3> QED BY <2>1, <2>2, <3>1, HeldQuiet
  <2>3. CASE wal' # wal
    <3>1. Strict BY <2>1 DEF CutsAreStrict
    <3>2. \A c \in Commits : (Held(c)' => Held(c)) /\ (Shown(c)' => Shown(c)) BY <2>1 DEF Held, Shown, Own
    <3>3. \A c \in Commits : Held(c)' => OnDisk(c) BY <2>1, <3>1 DEF Held, Own, IInv, AckInv, ProgressInv
    <3>4. \A c \in Commits : Held(c)' => InWal(c)' BY <1>9, <3>3, DurableStays
    <3> QED BY <1>b, <2>1, <3>2, <3>4, HeldSame
  <2> QED BY <2>2, <2>3
<1>10. ASSUME NEW w \in Writers, WriterStep(w) PROVE HeldInv'
  <2>0. UNCHANGED <<submitter, drain, applied>>
    BY <1>10 DEF WriterStep, WriteLocksWal, WritePolls, WriteEnters, WriteRefreshFails, WriteCommits,
       WriteSyncFails, WriteRefused, WriteReleases
  <2>1. CASE WriteLocksWal(w) \/ WritePolls(w) \/ WriteRefreshFails(w) \/ WriteRefused(w)
    <3>1. UNCHANGED <<wal, mem, slot>>
          /\ \A v \in Writers : writer'[v] \in {"ok", "committed"} => writer'[v] = writer[v]
      BY <1>0, <2>1 DEF WriteLocksWal, WritePolls, WriteRefreshFails, WriteRefused, StoreType
    <3>2. \A c \in Commits : (Held(c)' => Held(c)) /\ (Shown(c)' => Shown(c)) BY <2>0, <3>1 DEF Held, Shown, Own
    <3> QED BY <3>1, <3>2, HeldQuiet
  <2>2. CASE WriteEnters(w)
    <3>1. UNCHANGED <<wal, slot>> /\ (Refresh \/ mem' = mem)
          /\ \A v \in Writers : writer'[v] \in {"ok", "committed"} => writer'[v] = writer[v]
      BY <1>0, <2>2 DEF WriteEnters, StoreType
    <3>2. \A c \in Commits : (Held(c)' => Held(c)) /\ (Shown(c)' => Shown(c)) BY <2>0, <3>1 DEF Held, Shown, Own
    <3> QED BY <1>b, <1>c, <3>1, <3>2, RefreshKeeps, HeldSame
  <2>3. CASE WriteCommits(w)
    <3>1. wal' = Append(wal, w) /\ mem' = Append(mem, w) /\ slot' = slot
          /\ writer'[w] = "committed" /\ \A v \in Writers : v # w => writer'[v] = writer[v]
      BY <1>0, <2>3 DEF WriteCommits, StoreType
    <3>2. \A c \in Commits : (Held(c)' => Held(c) \/ c = w) /\ (Shown(c)' => Shown(c))
      BY <2>0, <3>1 DEF Held, Shown, Own
    <3>3. w \in Commits BY DEF Commits
    <3> QED BY <3>1, <3>2, <3>3, HeldGrows
  <2>4. CASE WriteSyncFails(w)
    <3>1. wal' = Append(wal, w) /\ UNCHANGED <<mem, slot>>
          /\ \A v \in Writers : writer'[v] \in {"ok", "committed"} => writer'[v] = writer[v]
      BY <1>0, <2>4 DEF WriteSyncFails, StoreType
    <3>2. \A c \in Commits : (Held(c)' => Held(c)) /\ (Shown(c)' => Shown(c)) BY <2>0, <3>1 DEF Held, Shown, Own
    <3>3. w \in Commits BY DEF Commits
    <3>4. \A c : InWal(c) => InWal(c)' BY <1>a, <3>1, <3>3, AppendWal
    <3> QED BY <1>b, <3>1, <3>2, <3>4, HeldSame
  <2>5. CASE WriteReleases(w)
    <3>1. UNCHANGED <<wal, mem>> /\ slot'.snap = mem'
          /\ \A v \in Writers : writer'[v] \in {"ok", "committed"} => writer[v] \in {"ok", "committed"}
      BY <1>0, <2>5 DEF WriteReleases, DropGuard, Publish, StoreType
    <3>2. \A c \in Commits : Held(c)' => Held(c) BY <2>0, <3>1 DEF Held, Own
    <3> QED BY <3>1, <3>2, HeldQuiet
  <2> QED BY <1>10, <2>1, <2>2, <2>3, <2>4, <2>5 DEF WriterStep
<1>11. ASSUME NEW p \in Peers, PeerStep(p) PROVE HeldInv'
  <2>1. UNCHANGED <<mem, slot, submitter, writer, drain, applied>>
    BY <1>11 DEF PeerStep, PeerLocks, PeerAppends, PeerSyncs, PeerReturns, PeerSyncFails
  <2>2. \A c \in Commits : (Held(c)' => Held(c)) /\ (Shown(c)' => Shown(c)) BY <2>1 DEF Held, Shown, Own
  <2>3. CASE PeerSyncFails(p)
    <3>1. Strict /\ LOCK = p /\ p # Local BY <2>3, ThreadsAssumption DEF PeerSyncFails, IInv, LockInv
    <3>2. drain \notin {"applying", "sync", "flush", "end"} BY <3>1 DEF IInv, LockInv, DrainHoldsLock, DrainHoldsWal
    <3>3. \A c \in Commits : Held(c)' => OnDisk(c) BY <2>2, <3>1, <3>2 DEF Held, Own, IInv, AckInv, ProgressInv
    <3>4. \A c \in Commits : Held(c)' => InWal(c)' BY <2>3, <3>3, DurableStays
    <3> QED BY <1>b, <2>1, <2>2, <3>4, HeldSame
  <2>4. CASE wal' = wal \/ wal' = Append(wal, p)
    <3>1. p \in Commits BY DEF Commits
    <3>2. \A c : InWal(c) => InWal(c)' BY <1>a, <1>c, <2>4, <3>1, AppendWal
    <3> QED BY <1>b, <2>1, <2>2, <3>2, HeldSame
  <2> QED BY <1>11, <2>3, <2>4 DEF PeerStep, PeerLocks, PeerAppends, PeerSyncs, PeerReturns
<1>12. ASSUME NEW r \in Readers, CaptureStep(r) \/ ReadStep(r) PROVE HeldInv'
  <2>1. UNCHANGED <<wal, submitter, writer, drain, applied>>
        /\ (UNCHANGED <<mem, slot>> \/ (slot'.snap = mem' /\ (Refresh \/ mem' = mem)))
    BY <1>12 DEF CaptureStep, ReadStep, CaptureLoads, CaptureLooksAtWriting, CaptureProbes, CaptureTries,
       ReadBegins, ReadChecks, ReadTakesGuard, ReadRefreshes, ReadGranted, ReadEnds, DropGuard, Publish
  <2>2. \A c \in Commits : (Held(c)' => Held(c)) /\ (Shown(c)' => Shown(c)) BY <2>1 DEF Held, Shown, Own
  <2> QED BY <1>b, <1>c, <2>1, <2>2, RefreshKeeps, HeldSame
<1>13. CASE Kill \/ PowerLoss
  <2>1. mem' = wal' /\ slot'.snap = mem' /\ drain' = "wait" BY <1>13 DEF Kill, PowerLoss, Reopened, Publish
  <2>2. /\ \A s \in Submitters : submitter'[s] = "ok" => submitter[s] = "ok"
        /\ \A w \in Writers : writer'[w] # "committed" /\ (writer'[w] = "ok" => writer[w] = "ok")
    BY <1>13 DEF Kill, PowerLoss, Reopened
  <2>3. \A c \in Commits : (Held(c)' => Own(c) /\ Held(c)) BY <2>1, <2>2 DEF Held, Own
  <2>4. \A c \in Commits : Held(c)' /\ InWal(c) => InWal(c)'
    <3>1. CASE Kill BY <1>c, <3>1 DEF Kill, Reopened
    <3>2. CASE PowerLoss
      <4>1. Strict BY <3>2 DEF PowerLoss
      <4>2. \A c \in Commits : Held(c)' => OnDisk(c) BY <2>3, <4>1 DEF Own, IInv, AckInv
      <4> QED BY <3>2, <4>2, DurableStays
    <3> QED BY <1>13, <3>1, <3>2
  <2>5. \A c : InWal(c)' => InMem(c)' BY <2>1 DEF InWal, InMem
  <2> QED BY <2>1, <2>3, <2>4, <2>5, HeldSame
<1>14. CASE UNCHANGED vars
  <2>1. UNCHANGED <<wal, mem, slot, submitter, writer, drain, applied>> BY <1>14 DEF vars
  <2>2. \A c \in Commits : (Held(c)' => Held(c)) /\ (Shown(c)' => Shown(c)) BY <2>1 DEF Held, Shown, Own
  <2> QED BY <2>1, <2>2, HeldQuiet
<1> QED BY <1>1, <1>2, <1>3, <1>4, <1>5, <1>6, <1>7, <1>8, <1>9, <1>10, <1>11, <1>12, <1>13, <1>14
        DEF Next, DrainStep

\* What had returned when a capture began is in what it was served, and was in
\* the snapshot it cloned.
CapturesInv ==
    \A r \in Readers :
       /\ loaded[r][1].before \subseteq Returned
       /\ reader[r] \in {"loaded", "probe"} =>
             loaded[r][1].before \ Peers \subseteq Elements(loaded[r][1].snap)
       /\ capture[r].before \ Peers \subseteq Elements(capture[r].snap)

\* What has returned stays returned.
LEMMA ReturnedStays == ASSUME IInv, QueueInv, [Next]_vars PROVE Returned \subseteq Returned'
<1>0. StoreType BY DEF IInv
<1>1. \A s \in Submitters : submitter[s] = "ok" => submitter'[s] = "ok"
  <2>1. CASE \E s \in Submitters : CheckDegraded(s) \/ Enqueue(s) BY <1>0, <2>1 DEF CheckDegraded, Enqueue, StoreType
  <2>2. CASE \/ DrainBusy \/ DrainUnwritable \/ DrainReportsFailure \/ DrainUpgradeFails
             \/ DrainDegrades \/ DrainAnswers
    <3>1. drain \in Active /\ \E result : Answer(result)
      BY <2>2 DEF DrainBusy, DrainUnwritable, DrainReportsFailure, DrainUpgradeFails, DrainDegrades,
         DrainAnswers, Active
    <3>2. \A s \in Elements(group) : submitter[s] = "waiting" BY <3>1 DEF QueueInv
    <3> QED BY <3>1, <3>2 DEF Answer
  <2>3. CASE \/ WaitAndDrain \/ DrainLocksWal \/ DrainPolls \/ DrainEnters \/ DrainRefreshes
             \/ DrainRefreshFails \/ DrainBeginsGroup \/ DrainApplies \/ DrainEndsGroup
             \/ DrainSyncs \/ DrainSyncFails \/ DrainTruncates \/ DrainFlushes \/ DrainEnds
    BY <2>3 DEF WaitAndDrain, DrainLocksWal, DrainPolls, DrainEnters, DrainRefreshes, DrainRefreshFails,
       DrainBeginsGroup, DrainApplies, DrainEndsGroup, DrainSyncs, DrainSyncFails, DrainTruncates,
       DrainFlushes, DrainEnds
  <2>4. CASE \E w \in Writers : WriterStep(w)
    BY <2>4 DEF WriterStep, WriteLocksWal, WritePolls, WriteEnters, WriteRefreshFails, WriteCommits,
       WriteSyncFails, WriteRefused, WriteReleases
  <2>5. CASE \E r \in Readers : CaptureStep(r) \/ ReadStep(r)
    BY <2>5 DEF CaptureStep, ReadStep, CaptureLoads, CaptureLooksAtWriting, CaptureProbes, CaptureTries,
       ReadBegins, ReadChecks, ReadTakesGuard, ReadRefreshes, ReadGranted, ReadEnds
  <2>6. CASE \E p \in Peers : PeerStep(p)
    BY <2>6 DEF PeerStep, PeerLocks, PeerAppends, PeerSyncs, PeerReturns, PeerSyncFails
  <2>7. CASE Kill \/ PowerLoss BY <2>7 DEF Kill, PowerLoss, Reopened
  <2>8. CASE UNCHANGED vars BY <2>8 DEF vars
  <2> QED BY <2>1, <2>2, <2>3, <2>4, <2>5, <2>6, <2>7, <2>8 DEF Next, DrainStep
<1>2. /\ \A w \in Writers : writer[w] = "ok" => writer'[w] = "ok"
      /\ \A p \in Peers : peer[p] = "ok" => peer'[p] = "ok"
  <2>1. CASE \E w \in Writers : WriterStep(w)
    BY <1>0, <2>1 DEF WriterStep, WriteLocksWal, WritePolls, WriteEnters, WriteRefreshFails, WriteCommits,
       WriteSyncFails, WriteRefused, WriteReleases, StoreType
  <2>2. CASE \E p \in Peers : PeerStep(p)
    BY <1>0, <2>2 DEF PeerStep, PeerLocks, PeerAppends, PeerSyncs, PeerReturns, PeerSyncFails, StoreType
  <2>3. CASE Kill \/ PowerLoss BY <2>3 DEF Kill, PowerLoss, Reopened
  <2>4. CASE DrainStep
    BY <2>4 DEF DrainStep, WaitAndDrain, DrainLocksWal, DrainPolls, DrainBusy, DrainUnwritable,
       DrainEnters, DrainRefreshes, DrainRefreshFails, DrainReportsFailure, DrainUpgradeFails,
       DrainBeginsGroup, DrainApplies, DrainEndsGroup, DrainSyncs, DrainSyncFails, DrainTruncates,
       DrainDegrades, DrainFlushes, DrainEnds, DrainAnswers, Answer
  <2>5. CASE \E r \in Readers : CaptureStep(r) \/ ReadStep(r)
    BY <2>5 DEF CaptureStep, ReadStep, CaptureLoads, CaptureLooksAtWriting, CaptureProbes, CaptureTries,
       ReadBegins, ReadChecks, ReadTakesGuard, ReadRefreshes, ReadGranted, ReadEnds
  <2>6. CASE \E s \in Submitters : CheckDegraded(s) \/ Enqueue(s) BY <2>6 DEF CheckDegraded, Enqueue
  <2>7. CASE UNCHANGED vars BY <2>7 DEF vars
  <2> QED BY <2>1, <2>2, <2>3, <2>4, <2>5, <2>6, <2>7 DEF Next
<1> QED BY <1>1, <1>2 DEF Returned

\* A reader that is served snapshot t is served what it began with.
LEMMA ServeHolds ==
    ASSUME TypeOK, NEW r \in Readers, NEW t, capture' = [capture EXCEPT ![r] = [loaded[r][1] EXCEPT !.snap = t]]
    PROVE  /\ capture'[r].before = loaded[r][1].before /\ capture'[r].snap = t
           /\ capture'[r].via = loaded[r][1].via
           /\ \A q \in Readers : q # r => capture'[q] = capture[q]
<1>1. loaded[r][1] \in Captures /\ capture \in [Readers -> Captures] BY DEF TypeOK, HandleType
<1>2. capture'[r] = [loaded[r][1] EXCEPT !.snap = t] /\ \A q \in Readers : q # r => capture'[q] = capture[q]
  BY <1>1
<1> QED BY <1>1, <1>2 DEF Captures

\* Every step keeps the captures complete.
LEMMA CapturesKept ==
    ASSUME IInv, TypeOK, QueueInv, HeldInv, CapturesInv, [Next]_vars PROVE CapturesInv'
<1>0. Returned \subseteq Returned' BY ReturnedStays
<1>a. ASSUME UNCHANGED <<loaded, capture, reader>> PROVE CapturesInv'
  <2>1. \A r \in Readers : /\ Elements(loaded[r][1].snap)' = Elements(loaded[r][1].snap)
                           /\ Elements(capture[r].snap)' = Elements(capture[r].snap)
    BY <1>a DEF Elements
  <2> QED BY <1>0, <1>a, <2>1 DEF CapturesInv
<1>b. ASSUME NEW c \in Returned, c \notin Peers PROVE Own(c) /\ c \in Commits BY <1>b DEF Returned, Own, Commits
<1>c. \A c \in Returned \ Peers : c \in Elements(mem) /\ c \in Elements(slot.snap)
  BY <1>b DEF HeldInv, Held, Shown, InMem, InSlot, Elements
<1>1. CASE \/ \E s \in Submitters : CheckDegraded(s) \/ Enqueue(s)
           \/ \E w \in Writers : WriterStep(w)
           \/ \E p \in Peers : PeerStep(p)
           \/ UNCHANGED vars
  <2>1. UNCHANGED <<loaded, capture, reader>>
    <3>1. CASE \E s \in Submitters : CheckDegraded(s) \/ Enqueue(s) BY <3>1 DEF CheckDegraded, Enqueue
    <3>2. CASE \E w \in Writers : WriterStep(w)
      BY <3>2 DEF WriterStep, WriteLocksWal, WritePolls, WriteEnters, WriteRefreshFails, WriteCommits,
         WriteSyncFails, WriteRefused, WriteReleases
    <3>3. CASE \E p \in Peers : PeerStep(p)
      BY <3>3 DEF PeerStep, PeerLocks, PeerAppends, PeerSyncs, PeerReturns, PeerSyncFails
    <3>4. CASE UNCHANGED vars BY <3>4 DEF vars
    <3> QED BY <1>1, <3>1, <3>2, <3>3, <3>4
  <2> QED BY <1>a, <2>1
<1>2. CASE DrainStep
  <2>1. UNCHANGED <<loaded, capture, reader>>
    BY <1>2 DEF DrainStep, WaitAndDrain, DrainLocksWal, DrainPolls, DrainBusy, DrainUnwritable,
       DrainEnters, DrainRefreshes, DrainRefreshFails, DrainReportsFailure, DrainUpgradeFails,
       DrainBeginsGroup, DrainApplies, DrainEndsGroup, DrainSyncs, DrainSyncFails, DrainTruncates,
       DrainDegrades, DrainFlushes, DrainEnds, DrainAnswers, Answer
  <2> QED BY <1>a, <2>1
<1>3. CASE Kill \/ PowerLoss
  <2>1. /\ reader' = [r \in Readers |-> "idle"] /\ loaded' = [r \in Readers |-> <<Empty, 0>>]
        /\ capture' = [r \in Readers |-> Empty]
    BY <1>3 DEF Kill, PowerLoss, Reopened
  <2>2. Empty.before = {} BY DEF Empty
  <2>3. \A r \in Readers : reader'[r] = "idle" /\ loaded'[r][1] = Empty /\ capture'[r] = Empty BY <2>1
  <2> QED BY <2>2, <2>3 DEF CapturesInv
<1>4. ASSUME NEW r \in Readers, CaptureStep(r) \/ ReadStep(r) PROVE CapturesInv'
  <2>0. /\ reader \in [Readers -> {"idle", "loaded", "probe", "locked", "catchup", "stale1",
                               "refresh1", "check", "stale", "refresh", "grant", "reading"}]
        /\ loaded \in [Readers -> Captures \X Nat]
    BY DEF TypeOK, HandleType
  <2>a. ASSUME loaded' = loaded, NEW t, loaded[r][1].before \ Peers \subseteq Elements(t),
               capture' = [capture EXCEPT ![r] = [loaded[r][1] EXCEPT !.snap = t]],
               reader'[r] \notin {"loaded", "probe"},
               \A q \in Readers : q # r => reader'[q] = reader[q]
        PROVE  CapturesInv'
    <3>1. /\ capture'[r].before = loaded[r][1].before /\ capture'[r].snap = t
          /\ \A q \in Readers : q # r => capture'[q] = capture[q]
      BY <2>a, ServeHolds
    <3>2. /\ \A q \in Readers : Elements(loaded[q][1].snap)' = Elements(loaded[q][1].snap)
          /\ \A q \in Readers : q # r => Elements(capture[q].snap)' = Elements(capture[q].snap)
          /\ Elements(capture[r].snap)' = Elements(t)
      BY <2>a, <3>1 DEF Elements
    <3> QED BY <1>0, <2>a, <3>1, <3>2 DEF CapturesInv
  <2>b. ASSUME UNCHANGED <<loaded, capture>>, reader'[r] \in {"loaded", "probe"} => reader[r] \in {"loaded", "probe"},
               \A q \in Readers : q # r => reader'[q] = reader[q]
        PROVE  CapturesInv'
    <3>1. \A q \in Readers : /\ Elements(loaded[q][1].snap)' = Elements(loaded[q][1].snap)
                             /\ Elements(capture[q].snap)' = Elements(capture[q].snap)
      BY <2>b DEF Elements
    <3> QED BY <1>0, <2>b, <3>1 DEF CapturesInv
  <2>c. loaded[r][1].before \ Peers \subseteq Elements(mem) /\ loaded[r][1].before \ Peers \subseteq Elements(slot.snap)
    BY <1>c DEF CapturesInv
  <2>1. CASE CaptureLoads(r) \/ ReadBegins(r)
    <3>1. /\ capture' = capture /\ \A q \in Readers : q # r => loaded'[q] = loaded[q] /\ reader'[q] = reader[q]
          /\ loaded'[r][1].before = Returned /\ (reader'[r] = "check" \/ loaded'[r][1].snap = slot.snap)
      BY <2>0, <2>1 DEF CaptureLoads, ReadBegins
    <3>2. /\ \A q \in Readers : q # r => Elements(loaded[q][1].snap)' = Elements(loaded[q][1].snap)
          /\ \A q \in Readers : Elements(capture[q].snap)' = Elements(capture[q].snap)
          /\ reader'[r] = "check" \/ Elements(loaded[r][1].snap)' = Elements(slot.snap)
      BY <3>1 DEF Elements
    <3>3. Returned \ Peers \subseteq Elements(slot.snap) BY <1>c
    <3> QED BY <1>0, <3>1, <3>2, <3>3 DEF CapturesInv
  <2>2. CASE CaptureLooksAtWriting(r) \/ CaptureProbes(r)
    <3>1. loaded' = loaded /\ (\A q \in Readers : q # r => reader'[q] = reader[q]) /\ reader[r] \in {"loaded", "probe"}
      BY <2>0, <2>2 DEF CaptureLooksAtWriting, CaptureProbes, Serve
    <3>2. \/ Serve(r, loaded[r][1].snap)
          \/ capture' = capture
      BY <2>2 DEF CaptureLooksAtWriting, CaptureProbes
    <3>3. CASE Serve(r, loaded[r][1].snap)
      <4>1. /\ capture' = [capture EXCEPT ![r] = [loaded[r][1] EXCEPT !.snap = loaded[r][1].snap]]
            /\ reader'[r] = "idle"
        BY <2>0, <3>3 DEF Serve
      <4>2. loaded[r][1].before \ Peers \subseteq Elements(loaded[r][1].snap) BY <3>1 DEF CapturesInv
      <4> QED BY <2>a, <3>1, <4>1, <4>2
    <3>4. CASE capture' = capture BY <2>b, <3>1, <3>4
    <3> QED BY <3>2, <3>3, <3>4
  <2>3. CASE CaptureTries(r)
    <3>1. loaded' = loaded /\ (\A q \in Readers : q # r => reader'[q] = reader[q]) /\ reader'[r] \notin {"loaded", "probe"}
      BY <2>0, <2>3 DEF CaptureTries, Serve
    <3>2. CASE Serve(r, mem) BY <2>a, <2>c, <3>1, <3>2 DEF Serve
    <3>3. CASE Serve(r, slot.snap) BY <2>a, <2>c, <3>1, <3>3 DEF Serve
    <3>4. CASE capture' = capture BY <2>b, <3>1, <3>4
    <3> QED BY <2>3, <3>2, <3>3, <3>4 DEF CaptureTries
  <2>4. CASE ReadChecks(r) \/ ReadTakesGuard(r) \/ ReadRefreshes(r) \/ ReadEnds(r)
    <3>1. UNCHANGED <<loaded, capture>> /\ (\A q \in Readers : q # r => reader'[q] = reader[q])
          /\ reader'[r] \notin {"loaded", "probe"}
      BY <2>0, <2>4 DEF ReadChecks, ReadTakesGuard, ReadRefreshes, ReadEnds
    <3> QED BY <2>b, <3>1
  <2>5. CASE ReadGranted(r)
    <3>1. /\ loaded' = loaded /\ capture' = [capture EXCEPT ![r] = [loaded[r][1] EXCEPT !.snap = mem]]
          /\ \A q \in Readers : q # r => reader'[q] = reader[q]
          /\ reader'[r] \notin {"loaded", "probe"}
      BY <2>0, <2>5 DEF ReadGranted
    <3> QED BY <2>a, <2>c, <3>1
  <2> QED BY <1>4, <2>1, <2>2, <2>3, <2>4, <2>5 DEF CaptureStep, ReadStep
<1> QED BY <1>1, <1>2, <1>3, <1>4 DEF Next

\* Under Strict, or without power losses, a capture holds every commit of this
\* process that had returned when it began, whatever else fails.
THEOREM CapturesSee ==
    ASSUME Strict \/ "power" \notin Faults PROVE Spec => []CapturesSeeReturned
<1>1. Init => CutsAreStrict /\ HeldInv /\ CapturesInv
  <2> SUFFICES ASSUME Init PROVE CutsAreStrict /\ HeldInv /\ CapturesInv OBVIOUS
  <2>1. CutsAreStrict BY DEF Init, CutsAreStrict
  <2>2. HeldInv BY DEF Init, HeldInv, Held, Shown, Own
  <2>3. \A r \in Readers : reader[r] = "idle" /\ loaded[r][1] = Empty /\ capture[r] = Empty BY DEF Init
  <2>4. Empty.before = {} BY DEF Empty
  <2>5. CapturesInv BY <2>3, <2>4 DEF CapturesInv
  <2> QED BY <2>1, <2>2, <2>5
<1>2. (IInv /\ TypeOK /\ (QueueInv /\ FreshInv /\ OrderInv) /\ (CutsAreStrict /\ HeldInv /\ CapturesInv)
          /\ [Next]_vars) => (CutsAreStrict /\ HeldInv /\ CapturesInv)'
  BY CutsKept, HeldKept, CapturesKept
<1>3. CapturesInv => CapturesSeeReturned BY DEF CapturesInv, CapturesSeeReturned
<1> QED BY <1>1, <1>2, <1>3, InductiveInvariant, TypeCorrect, OrderInvariant, PTL DEF Spec

-----------------------------------------------------------------------------
(* Reads see the peers' commits.                                           *)

\* The frame of a peer that has appended it is in the WAL, up to its failure.
PeersInv == \A p \in Peers : peer[p] \in {"appended", "synced", "ok"} => InWal(p)

\* What a read that awaits the guard began with is in memory, and in what a
\* read was granted; what is cloned from the slot is never granted to a read.
ReadInv ==
    \A r \in Readers :
       /\ reader[r] \in {"loaded", "probe", "locked"} => loaded[r][1].via = "reader"
       /\ ~degraded /\ reader[r] = "grant" => \A c \in loaded[r][1].before : InMem(c)
       /\ ~degraded /\ capture[r].via = "read" => capture[r].before \subseteq Elements(capture[r].snap)

\* A step that is not a cut leaves every frame in the WAL.
LEMMA WalStays ==
    ASSUME IInv, [Next]_vars
    PROVE  \/ \A c : InWal(c) => InWal(c)'
           \/ DrainTruncates \/ PowerLoss \/ \E p \in Peers : PeerSyncFails(p)
<1>0. wal \in Seq(Commits) /\ todo \in Seq(Submitters) BY DEF IInv, StoreType
<1>a. ASSUME wal' = wal PROVE \A c : InWal(c) => InWal(c)' BY <1>a DEF InWal
<1>b. ASSUME NEW d \in Commits, wal' = Append(wal, d) PROVE \A c : InWal(c) => InWal(c)' BY <1>0, <1>b, AppendWal
<1>1. CASE \E s \in Submitters : CheckDegraded(s) \/ Enqueue(s) BY <1>1, <1>a DEF CheckDegraded, Enqueue
<1>2. CASE \/ WaitAndDrain \/ DrainLocksWal \/ DrainPolls \/ DrainBusy \/ DrainUnwritable
           \/ DrainEnters \/ DrainRefreshes \/ DrainRefreshFails \/ DrainReportsFailure
           \/ DrainUpgradeFails \/ DrainBeginsGroup \/ DrainEndsGroup \/ DrainSyncs \/ DrainSyncFails
           \/ DrainDegrades \/ DrainFlushes \/ DrainEnds \/ DrainAnswers
  BY <1>2, <1>a DEF WaitAndDrain, DrainLocksWal, DrainPolls, DrainBusy, DrainUnwritable, DrainEnters,
     DrainRefreshes, DrainRefreshFails, DrainReportsFailure, DrainUpgradeFails, DrainBeginsGroup,
     DrainEndsGroup, DrainSyncs, DrainSyncFails, DrainDegrades, DrainFlushes, DrainEnds, DrainAnswers
<1>3. CASE DrainApplies
  <2>1. Head(todo) \in Submitters BY <1>0, <1>3 DEF DrainApplies
  <2>2. PICK d \in Submitters : d = Head(todo) BY <2>1
  <2>3. d \in Commits /\ (wal' = wal \/ wal' = Append(wal, d)) BY <1>3, <2>2 DEF DrainApplies, Commits
  <2> QED BY <1>a, <1>b, <2>3
<1>4. ASSUME NEW w \in Writers, WriterStep(w) PROVE \A c : InWal(c) => InWal(c)'
  <2>1. w \in Commits /\ (wal' = wal \/ wal' = Append(wal, w))
    BY <1>4 DEF WriterStep, WriteLocksWal, WritePolls, WriteEnters, WriteRefreshFails, WriteCommits,
       WriteSyncFails, WriteRefused, WriteReleases, Commits
  <2> QED BY <1>a, <1>b, <2>1
<1>5. ASSUME NEW p \in Peers, PeerStep(p), ~PeerSyncFails(p) PROVE \A c : InWal(c) => InWal(c)'
  <2>1. p \in Commits /\ (wal' = wal \/ wal' = Append(wal, p))
    BY <1>5 DEF PeerStep, PeerLocks, PeerAppends, PeerSyncs, PeerReturns, Commits
  <2> QED BY <1>a, <1>b, <2>1
<1>6. CASE \E r \in Readers : CaptureStep(r) \/ ReadStep(r)
  BY <1>6, <1>a DEF CaptureStep, ReadStep, CaptureLoads, CaptureLooksAtWriting, CaptureProbes, CaptureTries,
     ReadBegins, ReadChecks, ReadTakesGuard, ReadRefreshes, ReadGranted, ReadEnds
<1>7. CASE Kill BY <1>7, <1>a DEF Kill, Reopened
<1>8. CASE UNCHANGED vars BY <1>8, <1>a DEF vars
<1> QED BY <1>1, <1>2, <1>3, <1>4, <1>5, <1>6, <1>7, <1>8 DEF Next, DrainStep

\* Until a crash, memory loses no commit of the WAL, and a degraded handle
\* stays degraded.
LEMMA MemStays ==
    ASSUME IInv, TypeOK, [Next]_vars
    PROVE  \/ Kill \/ PowerLoss
           \/ (degraded => degraded') /\ \A c : InWal(c) /\ InMem(c) => InMem(c)'
<1>0. mem \in Seq(Commits) /\ todo \in Seq(Submitters) /\ degraded \in BOOLEAN BY DEF TypeOK, StoreType, HandleType
<1>a. ASSUME mem' = mem \/ Refresh PROVE \A c : InWal(c) /\ InMem(c) => InMem(c)'
  <2>1. CASE mem' = mem BY <2>1 DEF InMem
  <2>2. CASE Refresh BY <2>2, RefreshKeeps
  <2> QED BY <1>a, <2>1, <2>2
<1>b. ASSUME NEW d \in Commits, mem' = Append(mem, d) PROVE \A c : InMem(c) => InMem(c)'
  <2>1. \A i \in 1..Len(mem) : i \in 1..Len(mem') /\ mem'[i] = mem[i] BY <1>0, <1>b
  <2> QED BY <2>1 DEF InMem
<1>1. CASE \E s \in Submitters : CheckDegraded(s) \/ Enqueue(s) BY <1>1, <1>a DEF CheckDegraded, Enqueue
<1>2. CASE \/ WaitAndDrain \/ DrainLocksWal \/ DrainPolls \/ DrainBusy \/ DrainUnwritable
           \/ DrainEnters \/ DrainRefreshes \/ DrainRefreshFails \/ DrainReportsFailure
           \/ DrainUpgradeFails \/ DrainBeginsGroup \/ DrainEndsGroup \/ DrainSyncs \/ DrainSyncFails
           \/ DrainTruncates \/ DrainDegrades \/ DrainFlushes \/ DrainEnds \/ DrainAnswers
  <2>1. (mem' = mem \/ Refresh) /\ (degraded => degraded')
    BY <1>2 DEF WaitAndDrain, DrainLocksWal, DrainPolls, DrainBusy, DrainUnwritable, DrainEnters,
     DrainRefreshes, DrainRefreshFails, DrainReportsFailure, DrainUpgradeFails, DrainBeginsGroup,
     DrainEndsGroup, DrainSyncs, DrainSyncFails, DrainTruncates, DrainDegrades, DrainFlushes, DrainEnds,
     DrainAnswers
  <2> QED BY <1>a, <2>1
<1>3. CASE DrainApplies
  <2>1. Head(todo) \in Submitters BY <1>0, <1>3 DEF DrainApplies
  <2>2. PICK d \in Submitters : d = Head(todo) BY <2>1
  <2>3. d \in Commits /\ degraded' = degraded /\ (mem' = mem \/ mem' = Append(mem, d))
    BY <1>3, <2>2 DEF DrainApplies, Commits
  <2> QED BY <1>a, <1>b, <2>3
<1>4. ASSUME NEW w \in Writers, WriterStep(w)
      PROVE  (degraded => degraded') /\ \A c : InWal(c) /\ InMem(c) => InMem(c)'
  <2>1. w \in Commits /\ (degraded => degraded') /\ (mem' = mem \/ Refresh \/ mem' = Append(mem, w))
    BY <1>4 DEF WriterStep, WriteLocksWal, WritePolls, WriteEnters, WriteRefreshFails, WriteCommits,
       WriteSyncFails, WriteRefused, WriteReleases, Commits
  <2> QED BY <1>a, <1>b, <2>1
<1>5. CASE \E p \in Peers : PeerStep(p)
  <2>1. UNCHANGED <<mem, degraded>>
    BY <1>5 DEF PeerStep, PeerLocks, PeerAppends, PeerSyncs, PeerReturns, PeerSyncFails
  <2> QED BY <1>a, <2>1
<1>6. CASE \E r \in Readers : CaptureStep(r) \/ ReadStep(r)
  <2>1. (mem' = mem \/ Refresh) /\ (degraded => degraded')
    BY <1>6 DEF CaptureStep, ReadStep, CaptureLoads, CaptureLooksAtWriting, CaptureProbes, CaptureTries,
       ReadBegins, ReadChecks, ReadTakesGuard, ReadRefreshes, ReadGranted, ReadEnds
  <2> QED BY <1>a, <2>1
<1>7. CASE UNCHANGED vars BY <1>7, <1>a DEF vars
<1> QED BY <1>1, <1>2, <1>3, <1>4, <1>5, <1>6, <1>7 DEF Next, DrainStep

\* Every step keeps the peers' frames in the WAL.
LEMMA PeersKept ==
    ASSUME Strict \/ "power" \notin Faults, "peerSync" \notin Faults,
           IInv, CutsAreStrict, PeersInv, [Next]_vars
    PROVE  PeersInv'
<1>0. StoreType BY DEF IInv
<1> DEFINE Gone == {"appended", "synced", "ok"}
<1>1. CASE DrainTruncates
  <2>1. Strict /\ peer' = peer /\ LOCK = Local
    BY <1>1 DEF DrainTruncates, CutsAreStrict, IInv, LockInv, DrainHoldsLock, DrainHoldsWal
  <2>2. \A p \in Peers : peer[p] \in Gone => OnDisk(p)
    BY <2>1, ThreadsAssumption DEF IInv, LockInv, AckInv, ProgressInv
  <2> QED BY <1>1, <2>1, <2>2, DurableStays DEF PeersInv
<1>2. CASE PowerLoss
  <2>1. Strict /\ \A p \in Peers : peer'[p] \in Gone => peer[p] = "ok" BY <1>2 DEF PowerLoss
  <2>2. \A p \in Peers : peer[p] = "ok" => OnDisk(p) BY <2>1 DEF IInv, AckInv
  <2> QED BY <1>2, <2>1, <2>2, DurableStays DEF PeersInv
<1>3. \A p \in Peers : ~PeerSyncFails(p) BY DEF PeerSyncFails
<1>4. CASE /\ \A c : InWal(c) => InWal(c)'
           /\ \A p \in Peers : peer'[p] \in Gone => peer[p] \in Gone \/ InWal(p)'
  BY <1>4 DEF PeersInv
<1>5. CASE peer' = peer BY <1>1, <1>2, <1>3, <1>4, <1>5, WalStays
<1>6. ASSUME NEW p \in Peers, PeerStep(p) PROVE PeersInv'
  <2>1. \A q \in Peers : q # p => peer'[q] = peer[q]
    BY <1>0, <1>6 DEF PeerStep, PeerLocks, PeerAppends, PeerSyncs, PeerReturns, PeerSyncFails, StoreType
  <2>2. CASE PeerAppends(p)
    <3>1. wal' = Append(wal, p) /\ p \in Commits /\ wal \in Seq(Commits)
      BY <1>0, <2>2 DEF PeerAppends, StoreType, Commits
    <3>2. InWal(p)' /\ \A c : InWal(c) => InWal(c)' BY <3>1, AppendWal
    <3> QED BY <1>4, <2>1, <3>2
  <2>3. CASE PeerLocks(p) \/ PeerSyncs(p) \/ PeerReturns(p)
    <3>1. wal' = wal /\ (peer'[p] \in Gone => peer[p] \in Gone)
      BY <1>0, <2>3 DEF PeerLocks, PeerSyncs, PeerReturns, StoreType
    <3>2. \A c : InWal(c) => InWal(c)' BY <3>1 DEF InWal
    <3> QED BY <1>4, <2>1, <3>1, <3>2
  <2> QED BY <1>3, <1>6, <2>2, <2>3 DEF PeerStep
<1>7. CASE \/ \E s \in Submitters : CheckDegraded(s) \/ Enqueue(s)
           \/ \E r \in Readers : CaptureStep(r) \/ ReadStep(r)
           \/ Kill \/ UNCHANGED vars
  <2>1. peer' = peer
    BY <1>7 DEF CheckDegraded, Enqueue, CaptureStep, ReadStep, CaptureLoads, CaptureLooksAtWriting,
       CaptureProbes, CaptureTries, ReadBegins, ReadChecks, ReadTakesGuard, ReadRefreshes, ReadGranted,
       ReadEnds, Kill, vars
  <2> QED BY <1>5, <2>1
<1>8. CASE \E w \in Writers : WriterStep(w)
  <2>1. peer' = peer
    BY <1>8 DEF WriterStep, WriteLocksWal, WritePolls, WriteEnters, WriteRefreshFails, WriteCommits,
       WriteSyncFails, WriteRefused, WriteReleases
  <2> QED BY <1>5, <2>1
<1>9. CASE DrainStep
  <2>1. peer' = peer
    BY <1>9 DEF DrainStep, WaitAndDrain, DrainLocksWal, DrainPolls, DrainBusy, DrainUnwritable,
       DrainEnters, DrainRefreshes, DrainRefreshFails, DrainReportsFailure, DrainUpgradeFails,
       DrainBeginsGroup, DrainApplies, DrainEndsGroup, DrainSyncs, DrainSyncFails, DrainTruncates,
       DrainDegrades, DrainFlushes, DrainEnds, DrainAnswers, Answer
  <2> QED BY <1>5, <2>1
<1> QED BY <1>2, <1>6, <1>7, <1>8, <1>9 DEF Next

\* What has returned is in the WAL, so in memory once that is up to date.
LEMMA ReturnedInWal ==
    ASSUME HeldInv, PeersInv PROVE \A c \in Returned : InWal(c)
BY DEF Returned, HeldInv, Held, Own, PeersInv, Commits

\* Memory that is up to date holds every frame.
LEMMA ReplayHolds ==
    ASSUME TypeOK, Replay, wal_consumed = Len(wal), NEW c, InWal(c) PROVE InMem(c)
BY DEF TypeOK, HandleType, Replay, InWal, InMem

\* Every step keeps the reads complete.
LEMMA ReadKept ==
    ASSUME IInv, TypeOK, TypeOK', QueueInv, MemInv, MemInv', HeldInv, PeersInv, CapturesInv, ReadInv, [Next]_vars
    PROVE  ReadInv'
<1>a. \A r \in Readers : \A c \in loaded[r][1].before : InWal(c)
  BY ReturnedInWal DEF CapturesInv
<1>b. ASSUME UNCHANGED <<loaded, capture, reader>>, ~Kill, ~PowerLoss PROVE ReadInv'
  <2>1. \A r \in Readers : Elements(capture[r].snap)' = Elements(capture[r].snap) BY <1>b DEF Elements
  <2>2. (degraded => degraded') /\ \A c : InWal(c) /\ InMem(c) => InMem(c)' BY <1>b, MemStays
  <2> QED BY <1>a, <1>b, <2>1, <2>2 DEF ReadInv
<1>3. CASE Kill \/ PowerLoss
  <2>1. /\ reader' = [r \in Readers |-> "idle"] /\ capture' = [r \in Readers |-> Empty]
    BY <1>3 DEF Kill, PowerLoss, Reopened
  <2>2. Empty.via = "reader" BY DEF Empty
  <2>3. \A r \in Readers : reader'[r] = "idle" /\ capture'[r] = Empty BY <2>1
  <2> QED BY <2>2, <2>3 DEF ReadInv
<1> SUFFICES ASSUME ~Kill, ~PowerLoss PROVE ReadInv' BY <1>3
<1>c. (degraded => degraded') /\ \A c : InWal(c) /\ InMem(c) => InMem(c)' BY MemStays
<1>1. CASE \/ \E s \in Submitters : CheckDegraded(s) \/ Enqueue(s)
           \/ \E w \in Writers : WriterStep(w)
           \/ \E p \in Peers : PeerStep(p)
           \/ UNCHANGED vars
  <2>1. UNCHANGED <<loaded, capture, reader>>
    <3>1. CASE \E s \in Submitters : CheckDegraded(s) \/ Enqueue(s) BY <3>1 DEF CheckDegraded, Enqueue
    <3>2. CASE \E w \in Writers : WriterStep(w)
      BY <3>2 DEF WriterStep, WriteLocksWal, WritePolls, WriteEnters, WriteRefreshFails, WriteCommits,
         WriteSyncFails, WriteRefused, WriteReleases
    <3>3. CASE \E p \in Peers : PeerStep(p)
      BY <3>3 DEF PeerStep, PeerLocks, PeerAppends, PeerSyncs, PeerReturns, PeerSyncFails
    <3>4. CASE UNCHANGED vars BY <3>4 DEF vars
    <3> QED BY <1>1, <3>1, <3>2, <3>3, <3>4
  <2> QED BY <1>b, <2>1
<1>2. CASE DrainStep
  <2>1. UNCHANGED <<loaded, capture, reader>>
    BY <1>2 DEF DrainStep, WaitAndDrain, DrainLocksWal, DrainPolls, DrainBusy, DrainUnwritable,
       DrainEnters, DrainRefreshes, DrainRefreshFails, DrainReportsFailure, DrainUpgradeFails,
       DrainBeginsGroup, DrainApplies, DrainEndsGroup, DrainSyncs, DrainSyncFails, DrainTruncates,
       DrainDegrades, DrainFlushes, DrainEnds, DrainAnswers, Answer
  <2> QED BY <1>b, <2>1
<1>4. ASSUME NEW r \in Readers, CaptureStep(r) \/ ReadStep(r) PROVE ReadInv'
  <2>0. /\ reader \in [Readers -> {"idle", "loaded", "probe", "locked", "catchup", "stale1",
                               "refresh1", "check", "stale", "refresh", "grant", "reading"}]
        /\ loaded \in [Readers -> Captures \X Nat]
    BY DEF TypeOK, HandleType
  <2>w. wal' = wal /\ (~Refresh => mem' = mem)
    BY <1>4 DEF CaptureStep, ReadStep, CaptureLoads, CaptureLooksAtWriting, CaptureProbes, CaptureTries,
     ReadBegins, ReadChecks, ReadTakesGuard, ReadRefreshes, ReadGranted, ReadEnds
  <2>a. ASSUME loaded' = loaded, NEW t,
               ~degraded /\ loaded[r][1].via = "read" => loaded[r][1].before \subseteq Elements(t),
               capture' = [capture EXCEPT ![r] = [loaded[r][1] EXCEPT !.snap = t]],
               reader'[r] \in {"idle", "reading"},
               \A q \in Readers : q # r => reader'[q] = reader[q]
        PROVE  ReadInv'
    <3>1. /\ capture'[r].before = loaded[r][1].before /\ capture'[r].snap = t /\ capture'[r].via = loaded[r][1].via
          /\ \A q \in Readers : q # r => capture'[q] = capture[q]
      BY <2>a, ServeHolds
    <3>2. /\ \A q \in Readers : q # r => Elements(capture[q].snap)' = Elements(capture[q].snap)
          /\ Elements(capture[r].snap)' = Elements(t)
      BY <3>1 DEF Elements
    <3> QED BY <1>a, <1>c, <2>a, <3>1, <3>2 DEF ReadInv
  <2>b. ASSUME UNCHANGED <<loaded, capture>>,
               reader'[r] \in {"loaded", "probe", "locked"} => reader[r] \in {"loaded", "probe", "locked"},
               ~degraded' /\ reader'[r] = "grant" => \A c \in loaded[r][1].before : InMem(c)',
               \A q \in Readers : q # r => reader'[q] = reader[q]
        PROVE  ReadInv'
    <3>1. \A q \in Readers : Elements(capture[q].snap)' = Elements(capture[q].snap) BY <2>b DEF Elements
    <3> QED BY <1>a, <1>c, <2>b, <3>1 DEF ReadInv
  <2>1. CASE CaptureLoads(r) \/ ReadBegins(r)
    <3>1. /\ capture' = capture /\ \A q \in Readers : q # r => loaded'[q] = loaded[q] /\ reader'[q] = reader[q]
          /\ reader'[r] = "check" \/ (reader'[r] = "loaded" /\ loaded'[r][1].via = "reader")
      BY <2>0, <2>1 DEF CaptureLoads, ReadBegins
    <3>2. \A q \in Readers : Elements(capture[q].snap)' = Elements(capture[q].snap) BY <3>1 DEF Elements
    <3> QED BY <1>a, <1>c, <3>1, <3>2 DEF ReadInv
  <2>2. CASE CaptureLooksAtWriting(r) \/ CaptureProbes(r) \/ CaptureTries(r)
    <3>1. loaded' = loaded /\ (\A q \in Readers : q # r => reader'[q] = reader[q])
          /\ reader[r] \in {"loaded", "probe", "locked"} /\ reader'[r] # "grant"
      BY <2>0, <2>2 DEF CaptureLooksAtWriting, CaptureProbes, CaptureTries, Serve
    <3>2. loaded[r][1].via # "read" BY <3>1 DEF ReadInv
    <3>3. ASSUME NEW t, Serve(r, t) PROVE ReadInv'
      <4>1. reader'[r] = "idle" BY <2>0, <3>3 DEF Serve
      <4> QED BY <2>a, <3>1, <3>2, <3>3, <4>1 DEF Serve
    <3>4. CASE capture' = capture BY <2>b, <3>1, <3>4
    <3> QED BY <2>2, <3>3, <3>4 DEF CaptureLooksAtWriting, CaptureProbes, CaptureTries
  <2>3. CASE ReadChecks(r)
    <3>1. /\ UNCHANGED <<loaded, capture, degraded>> /\ (\A q \in Readers : q # r => reader'[q] = reader[q])
          /\ reader'[r] \notin {"loaded", "probe", "locked"} /\ (reader'[r] = "grant" => ~Stale)
      BY <2>0, <2>3 DEF ReadChecks
    <3>2. ASSUME ~degraded, ~Stale PROVE \A c : InWal(c) => InMem(c)
      <4>1. wal_consumed = Len(wal) /\ Len(wal) \in Nat BY <3>2 DEF Stale, TypeOK, StoreType
      <4>2. Replay BY <3>2, <4>1 DEF MemInv
      <4> QED BY <4>1, <4>2, ReplayHolds
    <3> QED BY <1>a, <1>c, <2>b, <3>1, <3>2
  <2>4. CASE ReadRefreshes(r)
    <3>1. /\ UNCHANGED <<loaded, capture>> /\ (\A q \in Readers : q # r => reader'[q] = reader[q])
          /\ reader'[r] \notin {"loaded", "probe", "locked"} /\ (~degraded' => Refresh)
      BY <2>0, <2>4 DEF ReadRefreshes
    <3>2. ASSUME ~degraded' PROVE \A c : InWal(c) => InMem(c)'
      <4>1. Replay' /\ wal_consumed' = Len(wal')
        BY <1>c, <2>w, <3>1, <3>2, RefreshReplays DEF MemInv
      <4>2. wal_consumed' \in Nat BY DEF TypeOK, HandleType
      <4> QED BY <2>w, <4>1, <4>2 DEF Replay, InWal, InMem
    <3> QED BY <1>a, <2>b, <3>1, <3>2
  <2>5. CASE ReadTakesGuard(r) \/ ReadEnds(r)
    <3>1. UNCHANGED <<loaded, capture>> /\ (\A q \in Readers : q # r => reader'[q] = reader[q])
          /\ reader'[r] \notin {"loaded", "probe", "locked", "grant"}
      BY <2>0, <2>5 DEF ReadTakesGuard, ReadEnds
    <3> QED BY <2>b, <3>1
  <2>6. CASE ReadGranted(r)
    <3>1. /\ loaded' = loaded /\ capture' = [capture EXCEPT ![r] = [loaded[r][1] EXCEPT !.snap = mem]]
          /\ \A q \in Readers : q # r => reader'[q] = reader[q]
          /\ reader[r] = "grant" /\ reader'[r] \in {"idle", "reading"}
      BY <2>0, <2>6 DEF ReadGranted
    <3>2. ~degraded => loaded[r][1].before \subseteq Elements(mem) BY <3>1 DEF ReadInv, InMem, Elements
    <3> QED BY <2>a, <3>1, <3>2
  <2> QED BY <1>4, <2>1, <2>2, <2>3, <2>4, <2>5, <2>6 DEF CaptureStep, ReadStep
<1> QED BY <1>1, <1>2, <1>4 DEF Next

\* Where in addition no fsync of a direct write or of a peer fails, a read of a
\* handle that is not degraded holds every commit that had returned when the
\* read began, those of other processes included.
THEOREM ReadsSee ==
    ASSUME Strict \/ "power" \notin Faults, "directSync" \notin Faults, "peerSync" \notin Faults
    PROVE  Spec => []ReadsSeePeers
<1> DEFINE J == CutsAreStrict /\ HeldInv /\ CapturesInv /\ MemInv /\ PeersInv /\ ReadInv
<1>1. Init => J
  <2> SUFFICES ASSUME Init PROVE J OBVIOUS
  <2>1. CutsAreStrict BY DEF Init, CutsAreStrict
  <2>2. HeldInv BY DEF Init, HeldInv, Held, Shown, Own
  <2>3. \A r \in Readers : reader[r] = "idle" /\ loaded[r][1] = Empty /\ capture[r] = Empty BY DEF Init
  <2>4. Empty.before = {} BY DEF Empty
  <2>5. CapturesInv BY <2>3, <2>4 DEF CapturesInv
  <2>6. MemInv BY DEF Init, MemInv, Replay
  <2>7. PeersInv BY DEF Init, PeersInv
  <2>8. ReadInv BY <2>3, <2>4 DEF ReadInv
  <2> QED BY <2>1, <2>2, <2>5, <2>6, <2>7, <2>8
<1>2. IInv /\ TypeOK /\ TypeOK' /\ (QueueInv /\ FreshInv /\ OrderInv) /\ J /\ [Next]_vars => J'
  BY CutsKept, HeldKept, CapturesKept, MemKept, PeersKept, ReadKept
<1>3. J => ReadsSeePeers BY DEF ReadInv, ReadsSeePeers
<1> HIDE DEF J
<1> QED BY <1>1, <1>2, <1>3, InductiveInvariant, TypeCorrect, OrderInvariant, PTL DEF Spec

-----------------------------------------------------------------------------
(* Captures advance.                                                       *)

\* Who stands between taking and dropping the write guard holds it.
GuardInv ==
    /\ drain \in {"refresh", "applying"} => guard = Drain
    /\ \A w \in Writers : writer[w] \in {"in", "busied", "committed", "failed"} => guard = w
    /\ \A r \in Readers : reader[r] \in {"refresh1", "refresh"} => guard = r

\* Every step keeps the write guard with one holder.
LEMMA GuardKept == ASSUME TypeOK, GuardInv, [Next]_vars PROVE GuardInv'
<1>0. /\ writer \in [Writers -> {"idle", "poll", "enter", "denied", "in", "busied",
                                 "committed", "failed", "ok", "err", "busy", "lost"}]
      /\ reader \in [Readers -> {"idle", "loaded", "probe", "locked", "catchup", "stale1",
                               "refresh1", "check", "stale", "refresh", "grant", "reading"}]
  BY DEF TypeOK, StoreType, HandleType
<1>a. /\ \A w \in Writers : w # None /\ w # Drain /\ w \notin Readers
      /\ \A r \in Readers : r # None /\ r # Drain
      /\ Drain # None
  BY ThreadsAssumption
<1>1. CASE \E s \in Submitters : CheckDegraded(s) \/ Enqueue(s) BY <1>1 DEF CheckDegraded, Enqueue, GuardInv
<1>2. CASE DrainEnters \/ DrainBeginsGroup
  <2>1. guard = None /\ guard' = Drain /\ UNCHANGED <<writer, reader>>
    BY <1>2 DEF DrainEnters, DrainBeginsGroup, TakeGuard, WriteFree
  <2> QED BY <1>a, <2>1 DEF GuardInv
<1>3. CASE DrainRefreshes \/ DrainRefreshFails \/ DrainEndsGroup
  <2>1. /\ drain \in {"refresh", "applying"} /\ drain' \notin {"refresh", "applying"} /\ guard' = None
        /\ UNCHANGED <<writer, reader>>
    BY <1>3 DEF DrainRefreshes, DrainRefreshFails, DrainEndsGroup, DropGuard
  <2> QED BY <1>a, <2>1 DEF GuardInv
<1>4. CASE \/ WaitAndDrain \/ DrainLocksWal \/ DrainPolls \/ DrainBusy \/ DrainUnwritable
           \/ DrainReportsFailure \/ DrainUpgradeFails \/ DrainApplies \/ DrainSyncs \/ DrainSyncFails
           \/ DrainTruncates \/ DrainDegrades \/ DrainFlushes \/ DrainEnds \/ DrainAnswers
  <2>1. /\ UNCHANGED <<guard, writer, reader>> /\ (drain' \in {"refresh", "applying"} => drain' = drain)
    BY <1>4 DEF WaitAndDrain, DrainLocksWal, DrainPolls, DrainBusy, DrainUnwritable, DrainReportsFailure,
       DrainUpgradeFails, DrainApplies, DrainSyncs, DrainSyncFails, DrainTruncates, DrainDegrades,
       DrainFlushes, DrainEnds, DrainAnswers, Answer, BriefGuard
  <2> QED BY <2>1 DEF GuardInv
<1>5. ASSUME NEW w \in Writers, WriterStep(w) PROVE GuardInv'
  <2>0. UNCHANGED <<drain, reader>> /\ \A v \in Writers : v # w => writer'[v] = writer[v]
    BY <1>0, <1>5 DEF WriterStep, WriteLocksWal, WritePolls, WriteEnters, WriteRefreshFails, WriteCommits,
       WriteSyncFails, WriteRefused, WriteReleases
  <2>1. CASE WriteEnters(w) \/ WriteRefreshFails(w)
    <3>1. guard = None /\ guard' = w BY <2>1 DEF WriteEnters, WriteRefreshFails, TakeGuard, WriteFree
    <3> QED BY <1>a, <2>0, <3>1 DEF GuardInv
  <2>2. CASE WriteReleases(w)
    <3>1. /\ writer[w] \in {"committed", "failed", "busied"} /\ writer'[w] \in {"ok", "err", "busy"}
          /\ guard' = None
      BY <1>0, <2>2 DEF WriteReleases, DropGuard
    <3>2. guard = w BY <3>1 DEF GuardInv
    <3> QED BY <1>a, <2>0, <3>1, <3>2 DEF GuardInv
  <2>3. CASE WriteLocksWal(w) \/ WritePolls(w) \/ WriteCommits(w) \/ WriteSyncFails(w) \/ WriteRefused(w)
    <3>1. /\ guard' = guard
          /\ writer'[w] \in {"in", "busied", "committed", "failed"} => writer[w] = "in"
      BY <1>0, <2>3 DEF WriteLocksWal, WritePolls, WriteCommits, WriteSyncFails, WriteRefused
    <3> QED BY <2>0, <3>1 DEF GuardInv
  <2> QED BY <1>5, <2>1, <2>2, <2>3 DEF WriterStep
<1>6. ASSUME NEW r \in Readers, CaptureStep(r) \/ ReadStep(r) PROVE GuardInv'
  <2>0. UNCHANGED <<drain, writer>> /\ \A q \in Readers : q # r => reader'[q] = reader[q]
    BY <1>0, <1>6 DEF CaptureStep, ReadStep, CaptureLoads, CaptureLooksAtWriting, CaptureProbes, CaptureTries,
     ReadBegins, ReadChecks, ReadTakesGuard, ReadRefreshes, ReadGranted, ReadEnds, Serve
  <2>1. CASE ReadTakesGuard(r)
    <3>1. guard = None /\ guard' = r BY <2>1 DEF ReadTakesGuard, TakeGuard, WriteFree
    <3> QED BY <1>a, <2>0, <3>1 DEF GuardInv
  <2>2. CASE ReadRefreshes(r)
    <3>1. reader[r] \in {"refresh1", "refresh"} /\ reader'[r] \in {"check", "grant"} /\ guard' = None
      BY <1>0, <2>2 DEF ReadRefreshes, DropGuard
    <3>2. guard = r BY <3>1 DEF GuardInv
    <3> QED BY <1>a, <2>0, <3>1, <3>2 DEF GuardInv
  <2>3. CASE CaptureStep(r) \/ ReadBegins(r) \/ ReadChecks(r) \/ ReadGranted(r) \/ ReadEnds(r)
    <3>1. guard' = guard /\ reader'[r] \notin {"refresh1", "refresh"}
      BY <1>0, <2>3 DEF CaptureStep, CaptureLoads, CaptureLooksAtWriting, CaptureProbes, CaptureTries,
         ReadBegins, ReadChecks, ReadGranted, ReadEnds, Serve
    <3> QED BY <2>0, <3>1 DEF GuardInv
  <2> QED BY <1>6, <2>1, <2>2, <2>3 DEF ReadStep
<1>7. CASE \E p \in Peers : PeerStep(p)
  BY <1>7 DEF PeerStep, PeerLocks, PeerAppends, PeerSyncs, PeerReturns, PeerSyncFails, GuardInv
<1>8. CASE Kill \/ PowerLoss
  <2>1. drain' = "wait" /\ (\A w \in Writers : writer'[w] \notin {"in", "busied", "committed", "failed"})
        /\ \A r \in Readers : reader'[r] = "idle"
    BY <1>8 DEF Kill, PowerLoss, Reopened
  <2> QED BY <2>1 DEF GuardInv
<1>9. CASE UNCHANGED vars BY <1>9 DEF vars, GuardInv
<1> QED BY <1>1, <1>2, <1>3, <1>4, <1>5, <1>6, <1>7, <1>8, <1>9 DEF Next, DrainStep

\* Log s is where log t began.
Before(s, t) == Len(s) <= Len(t) /\ \A i \in 1..Len(s) : s[i] = t[i]

\* The order of logs is transitive ...
LEMMA BeforeTrans ==
    ASSUME NEW s \in Seq(Commits), NEW t \in Seq(Commits), NEW u \in Seq(Commits), Before(s, t), Before(t, u)
    PROVE  Before(s, u)
BY DEF Before

\* ... and reflexive.
LEMMA BeforeSelf == ASSUME NEW s \in Seq(Commits) PROVE Before(s, s)
BY DEF Before

\* Until a group fails: the cursor is in the WAL, the slot lags memory only
\* while the guard is held, and a reader's last capture lies before the snapshot
\* it has cloned, which lies before the slot.
AdvanceInv ==
    drain \notin {"degrade", "exited"} =>
    /\ wal_consumed <= Len(wal)
    /\ Before(slot.snap, mem) /\ (guard = None => slot.snap = mem)
    /\ \A r \in Readers :
         /\ Before(capture[r].snap, slot.snap)
         /\ reader[r] \in {"loaded", "probe"} =>
               Before(loaded[r][1].snap, slot.snap) /\ Before(capture[r].snap, loaded[r][1].snap)

\* The logs a reader meets.
LEMMA SnapTypes ==
    ASSUME TypeOK
    PROVE  /\ mem \in Seq(Commits) /\ slot.snap \in Seq(Commits) /\ wal \in Seq(Commits)
           /\ wal_consumed \in Nat /\ Len(wal) \in Nat
           /\ \A r \in Readers : capture[r].snap \in Seq(Commits) /\ loaded[r][1].snap \in Seq(Commits)
BY DEF TypeOK, StoreType, HandleType, Snapshots, Captures

\* Until a group fails or the process restarts, memory only grows, the cursor
\* stays in the WAL, and the slot is left alone or holds what memory does.
LEMMA MemAdvances ==
    ASSUME "peerSync" \notin Faults, IInv, TypeOK, GuardInv, AdvanceInv, [Next]_vars, ~Kill, ~PowerLoss,
           drain' \notin {"degrade", "exited"}
    PROVE  /\ drain \notin {"degrade", "exited"}
           /\ Before(mem, mem') /\ wal_consumed' <= Len(wal')
           /\ \/ slot'.snap = mem'
              \/ slot' = slot /\ (guard' = None => mem' = mem /\ guard = None)
<1>0. /\ mem \in Seq(Commits) /\ wal \in Seq(Commits) /\ wal_consumed \in Nat /\ Len(wal) \in Nat
      /\ todo \in Seq(Submitters)
  BY SnapTypes DEF TypeOK, StoreType
<1>a. /\ \A w \in Writers : w # None
      /\ \A r \in Readers : r # None
      /\ Drain # None
  BY ThreadsAssumption
<1>b. ASSUME mem' = mem PROVE Before(mem, mem') BY <1>0, <1>b, BeforeSelf
<1>c. ASSUME NEW d \in Commits, mem' = Append(mem, d) PROVE Before(mem, mem')
  BY <1>0, <1>c, AppendLog DEF Before
<1>d. ASSUME drain \notin {"degrade", "exited"}, Refresh, wal' = wal
      PROVE  Before(mem, mem') /\ wal_consumed' <= Len(wal')
  <2>1. ~(Len(wal) < wal_consumed) BY <1>0, <1>d DEF AdvanceInv
  <2> DEFINE tail == SubSeq(wal, wal_consumed + 1, Len(wal))
  <2>t. tail \in Seq(Commits) BY <1>0, <2>1
  <2>u. mem' = mem \o tail /\ wal_consumed' = Len(wal) BY <1>d, <2>1 DEF Refresh
  <2>2. mem' = mem \o tail /\ tail \in Seq(Commits) /\ wal_consumed' = Len(wal) BY <2>t, <2>u
  <2> HIDE DEF tail
  <2>3. Len(mem) <= Len(mem \o tail) /\ \A i \in 1..Len(mem) : (mem \o tail)[i] = mem[i] BY <1>0, <2>2
  <2> QED BY <1>0, <1>d, <2>2, <2>3 DEF Before
<1>e. ASSUME drain \notin {"degrade", "exited"}, UNCHANGED <<mem, wal, wal_consumed>>
      PROVE  Before(mem, mem') /\ wal_consumed' <= Len(wal')
  BY <1>b, <1>e DEF AdvanceInv
<1>f. ASSUME drain \notin {"degrade", "exited"}, NEW d \in Commits, wal' = Append(wal, d),
             wal_consumed' \in {wal_consumed, wal_consumed + 1}
      PROVE  wal_consumed' <= Len(wal')
  <2>1. Len(wal') = Len(wal) + 1 BY <1>0, <1>f, AppendLog
  <2>2. wal_consumed <= Len(wal) BY <1>f DEF AdvanceInv
  <2> QED BY <1>0, <1>f, <2>1, <2>2
<1>1. CASE \E s \in Submitters : CheckDegraded(s) \/ Enqueue(s) BY <1>1, <1>e DEF CheckDegraded, Enqueue
<1>2. CASE DrainEnters \/ DrainBeginsGroup
  BY <1>2, <1>a, <1>e DEF DrainEnters, DrainBeginsGroup, TakeGuard
<1>3. CASE DrainRefreshes BY <1>3, <1>d DEF DrainRefreshes, DropGuard, Publish
<1>4. CASE \/ DrainRefreshFails \/ DrainBusy \/ DrainUpgradeFails \/ DrainEndsGroup \/ DrainFlushes \/ DrainEnds
  <2>1. UNCHANGED <<mem, wal, wal_consumed>> /\ slot'.snap = mem' /\ drain \notin {"degrade", "exited"}
    BY <1>4 DEF DrainRefreshFails, DrainBusy, DrainUpgradeFails, DrainEndsGroup, DrainFlushes, DrainEnds,
       BriefGuard, DropGuard, Publish, Answer
  <2> QED BY <1>e, <2>1
<1>5. CASE \/ WaitAndDrain \/ DrainLocksWal \/ DrainPolls \/ DrainUnwritable \/ DrainSyncs \/ DrainSyncFails
           \/ DrainAnswers
  <2>1. UNCHANGED <<mem, wal, wal_consumed, slot, guard>> /\ drain \notin {"degrade", "exited"}
    BY <1>5 DEF WaitAndDrain, DrainLocksWal, DrainPolls, DrainUnwritable, DrainSyncs, DrainSyncFails,
       DrainAnswers, Answer
  <2> QED BY <1>e, <2>1
<1>6. CASE DrainReportsFailure \/ DrainTruncates \/ DrainDegrades
  BY <1>6 DEF DrainReportsFailure, DrainTruncates, DrainDegrades
<1>7. CASE DrainApplies
  <2>1. UNCHANGED <<slot, guard, drain>> /\ drain = "applying" /\ todo # << >> BY <1>7 DEF DrainApplies
  <2>2. guard' # None BY <1>a, <2>1 DEF GuardInv
  <2>3. CASE UNCHANGED <<mem, wal, wal_consumed>> BY <1>e, <2>1, <2>2, <2>3
  <2>4. CASE /\ wal' = Append(wal, Head(todo)) /\ mem' = Append(mem, Head(todo))
             /\ wal_consumed' = wal_consumed + 1
    <3>1. Head(todo) \in Commits BY <1>0, <2>1 DEF Commits
    <3>2. PICK d \in Commits : d = Head(todo) BY <3>1
    <3>3. wal' = Append(wal, d) /\ mem' = Append(mem, d) BY <2>4, <3>2
    <3> QED BY <1>c, <1>f, <2>1, <2>2, <2>4, <3>3
  <2> QED BY <1>7, <2>3, <2>4 DEF DrainApplies
<1>8. ASSUME NEW w \in Writers, WriterStep(w)
      PROVE  /\ drain \notin {"degrade", "exited"}
             /\ Before(mem, mem') /\ wal_consumed' <= Len(wal')
             /\ \/ slot'.snap = mem'
                \/ slot' = slot /\ (guard' = None => mem' = mem /\ guard = None)
  <2>0. drain' = drain
    BY <1>8 DEF WriterStep, WriteLocksWal, WritePolls, WriteEnters, WriteRefreshFails, WriteCommits,
       WriteSyncFails, WriteRefused, WriteReleases
  <2>1. CASE WriteLocksWal(w) \/ WritePolls(w) \/ WriteRefused(w)
    <3>1. UNCHANGED <<mem, wal, wal_consumed, slot, guard>> BY <2>1 DEF WriteLocksWal, WritePolls, WriteRefused
    <3> QED BY <1>e, <2>0, <3>1
  <2>2. CASE WriteEnters(w) \/ WriteRefreshFails(w)
    <3>1. guard' = w /\ slot' = slot /\ wal' = wal /\ (Refresh \/ UNCHANGED <<mem, wal_consumed>>)
      BY <2>2 DEF WriteEnters, WriteRefreshFails, TakeGuard
    <3> QED BY <1>a, <1>d, <1>e, <2>0, <3>1
  <2>3. CASE WriteCommits(w)
    <3>1. /\ guard' = guard /\ slot' = slot /\ wal' = Append(wal, w) /\ mem' = Append(mem, w)
          /\ wal_consumed' = wal_consumed + 1 /\ writer[w] = "in"
      BY <2>3 DEF WriteCommits
    <3>2. guard' # None /\ w \in Commits BY <1>a, <3>1 DEF GuardInv, Commits
    <3> QED BY <1>c, <1>f, <2>0, <3>1, <3>2
  <2>4. CASE WriteSyncFails(w)
    <3>1. UNCHANGED <<mem, guard, slot>> /\ wal' = Append(wal, w) /\ wal_consumed' = wal_consumed + 1
      BY <2>4 DEF WriteSyncFails
    <3>2. w \in Commits BY DEF Commits
    <3> QED BY <1>b, <1>f, <2>0, <3>1, <3>2
  <2>5. CASE WriteReleases(w)
    <3>1. UNCHANGED <<mem, wal, wal_consumed>> /\ slot'.snap = mem' BY <2>5 DEF WriteReleases, DropGuard, Publish
    <3> QED BY <1>e, <2>0, <3>1
  <2> QED BY <1>8, <2>1, <2>2, <2>3, <2>4, <2>5 DEF WriterStep
<1>9. ASSUME NEW p \in Peers, PeerStep(p)
      PROVE  /\ drain \notin {"degrade", "exited"}
             /\ Before(mem, mem') /\ wal_consumed' <= Len(wal')
             /\ slot' = slot /\ (guard' = None => mem' = mem /\ guard = None)
  <2>0. UNCHANGED <<drain, mem, wal_consumed, slot, guard>>
    BY <1>9 DEF PeerStep, PeerLocks, PeerAppends, PeerSyncs, PeerReturns, PeerSyncFails
  <2>1. wal' = wal \/ wal' = Append(wal, p)
    BY <1>9 DEF PeerStep, PeerLocks, PeerAppends, PeerSyncs, PeerReturns, PeerSyncFails
  <2>2. p \in Commits BY DEF Commits
  <2> QED BY <1>b, <1>e, <1>f, <2>0, <2>1, <2>2
<1>10. ASSUME NEW r \in Readers, CaptureStep(r) \/ ReadStep(r)
       PROVE  /\ drain \notin {"degrade", "exited"}
              /\ Before(mem, mem') /\ wal_consumed' <= Len(wal')
              /\ \/ slot'.snap = mem'
                 \/ slot' = slot /\ (guard' = None => mem' = mem /\ guard = None)
  <2>1. /\ UNCHANGED <<drain, wal>> /\ (Refresh \/ UNCHANGED <<mem, wal_consumed>>)
        /\ \/ slot'.snap = mem'
           \/ UNCHANGED <<slot, mem>> /\ (guard' = guard \/ guard' = r)
    BY <1>10 DEF CaptureStep, ReadStep, CaptureLoads, CaptureLooksAtWriting, CaptureProbes, CaptureTries,
     ReadBegins, ReadChecks, ReadTakesGuard, ReadRefreshes, ReadGranted, ReadEnds, DropGuard, TakeGuard, Publish
  <2> QED BY <1>a, <1>d, <1>e, <2>1
<1>11. CASE UNCHANGED vars BY <1>11, <1>e DEF vars
<1> QED BY <1>1, <1>2, <1>3, <1>4, <1>5, <1>6, <1>7, <1>8, <1>9, <1>10, <1>11 DEF Next, DrainStep

\* Until a group fails or the process restarts, no reader's capture goes back,
\* nor does it pass what the reader has cloned, or that the slot.
LEMMA CapturesMove ==
    ASSUME "peerSync" \notin Faults, IInv, TypeOK, TypeOK', GuardInv, AdvanceInv, [Next]_vars, ~Kill, ~PowerLoss,
           drain' \notin {"degrade", "exited"}, NEW r \in Readers
    PROVE  /\ Before(slot.snap, slot'.snap)
           /\ Before(capture[r].snap, capture'[r].snap) /\ Before(capture'[r].snap, slot'.snap)
           /\ reader'[r] \in {"loaded", "probe"} =>
                 Before(loaded'[r][1].snap, slot'.snap) /\ Before(capture'[r].snap, loaded'[r][1].snap)
<1>0. /\ mem \in Seq(Commits) /\ slot.snap \in Seq(Commits) /\ capture[r].snap \in Seq(Commits)
      /\ loaded[r][1].snap \in Seq(Commits)
  BY SnapTypes
<1>1. mem' \in Seq(Commits) /\ slot'.snap \in Seq(Commits) BY DEF TypeOK, HandleType, Snapshots
<1>2. /\ drain \notin {"degrade", "exited"} /\ Before(mem, mem')
      /\ \/ slot'.snap = mem'
         \/ slot' = slot /\ (guard' = None => mem' = mem /\ guard = None)
  BY MemAdvances
<1>3. /\ Before(slot.snap, mem) /\ (guard = None => slot.snap = mem) /\ Before(capture[r].snap, slot.snap)
      /\ reader[r] \in {"loaded", "probe"} =>
            Before(loaded[r][1].snap, slot.snap) /\ Before(capture[r].snap, loaded[r][1].snap)
  BY <1>2 DEF AdvanceInv
<1>4. Before(slot.snap, slot'.snap)
  <2>1. CASE slot'.snap = mem' BY <1>0, <1>1, <1>2, <1>3, <2>1, BeforeTrans
  <2>2. CASE slot' = slot BY <1>0, <2>2, BeforeSelf
  <2> QED BY <1>2, <2>1, <2>2
<1>a. ASSUME UNCHANGED <<capture, loaded>>, reader'[r] \in {"loaded", "probe"} => reader[r] \in {"loaded", "probe"}
      PROVE  /\ Before(capture[r].snap, capture'[r].snap) /\ Before(capture'[r].snap, slot'.snap)
             /\ reader'[r] \in {"loaded", "probe"} =>
                   Before(loaded'[r][1].snap, slot'.snap) /\ Before(capture'[r].snap, loaded'[r][1].snap)
  <2>1. Before(capture[r].snap, capture[r].snap) BY <1>0, BeforeSelf
  <2>2. Before(capture[r].snap, slot'.snap) BY <1>0, <1>1, <1>3, <1>4, BeforeTrans
  <2>3. Before(loaded[r][1].snap, slot.snap) => Before(loaded[r][1].snap, slot'.snap)
    BY <1>0, <1>1, <1>4, BeforeTrans
  <2> QED BY <1>3, <1>a, <2>1, <2>2, <2>3
<1>5. CASE \/ \E s \in Submitters : CheckDegraded(s) \/ Enqueue(s)
           \/ \E w \in Writers : WriterStep(w)
           \/ \E p \in Peers : PeerStep(p)
           \/ UNCHANGED vars
  <2>1. UNCHANGED <<loaded, capture, reader>>
    <3>1. CASE \E s \in Submitters : CheckDegraded(s) \/ Enqueue(s) BY <3>1 DEF CheckDegraded, Enqueue
    <3>2. CASE \E w \in Writers : WriterStep(w)
      BY <3>2 DEF WriterStep, WriteLocksWal, WritePolls, WriteEnters, WriteRefreshFails, WriteCommits,
         WriteSyncFails, WriteRefused, WriteReleases
    <3>3. CASE \E p \in Peers : PeerStep(p)
      BY <3>3 DEF PeerStep, PeerLocks, PeerAppends, PeerSyncs, PeerReturns, PeerSyncFails
    <3>4. CASE UNCHANGED vars BY <3>4 DEF vars
    <3> QED BY <1>5, <3>1, <3>2, <3>3, <3>4
  <2> QED BY <1>4, <1>a, <2>1
<1>6. CASE DrainStep
  <2>1. UNCHANGED <<loaded, capture, reader>>
    BY <1>6 DEF DrainStep, WaitAndDrain, DrainLocksWal, DrainPolls, DrainBusy, DrainUnwritable,
       DrainEnters, DrainRefreshes, DrainRefreshFails, DrainReportsFailure, DrainUpgradeFails,
       DrainBeginsGroup, DrainApplies, DrainEndsGroup, DrainSyncs, DrainSyncFails, DrainTruncates,
       DrainDegrades, DrainFlushes, DrainEnds, DrainAnswers, Answer
  <2> QED BY <1>4, <1>a, <2>1
<1>7. ASSUME NEW q \in Readers, CaptureStep(q) \/ ReadStep(q)
      PROVE  /\ Before(capture[r].snap, capture'[r].snap) /\ Before(capture'[r].snap, slot'.snap)
             /\ reader'[r] \in {"loaded", "probe"} =>
                   Before(loaded'[r][1].snap, slot'.snap) /\ Before(capture'[r].snap, loaded'[r][1].snap)
  <2>0. /\ reader \in [Readers -> {"idle", "loaded", "probe", "locked", "catchup", "stale1",
                               "refresh1", "check", "stale", "refresh", "grant", "reading"}]
        /\ loaded \in [Readers -> Captures \X Nat] /\ capture \in [Readers -> Captures]
    BY DEF TypeOK, HandleType
  <2>1. CASE q # r
    <3>1. reader'[r] = reader[r] /\ loaded'[r] = loaded[r]
      BY <1>7, <2>0, <2>1 DEF CaptureStep, ReadStep, CaptureLoads, CaptureLooksAtWriting, CaptureProbes,
         CaptureTries, ReadBegins, ReadChecks, ReadTakesGuard, ReadRefreshes, ReadGranted, ReadEnds, Serve
    <3>2. capture'[r] = capture[r]
      BY <1>7, <2>0, <2>1 DEF CaptureStep, ReadStep, CaptureLoads, CaptureLooksAtWriting, CaptureProbes,
         CaptureTries, ReadBegins, ReadChecks, ReadTakesGuard, ReadRefreshes, ReadGranted, ReadEnds, Serve
    <3>3. Before(capture[r].snap, capture[r].snap) BY <1>0, BeforeSelf
    <3>4. Before(capture[r].snap, slot'.snap) BY <1>0, <1>1, <1>3, <1>4, BeforeTrans
    <3>5. Before(loaded[r][1].snap, slot.snap) => Before(loaded[r][1].snap, slot'.snap)
      BY <1>0, <1>1, <1>4, BeforeTrans
    <3> QED BY <1>3, <3>1, <3>2, <3>3, <3>4, <3>5
  <2>2. CASE q = r
    <3>a. ASSUME NEW t \in Seq(Commits), Before(capture[r].snap, t), Before(t, slot.snap),
                 capture' = [capture EXCEPT ![r] = [loaded[r][1] EXCEPT !.snap = t]],
                 reader'[r] \notin {"loaded", "probe"}
          PROVE  Before(capture[r].snap, capture'[r].snap) /\ Before(capture'[r].snap, slot'.snap)
      <4>1. capture'[r].snap = t BY <3>a, ServeHolds
      <4>2. Before(t, slot'.snap) BY <1>0, <1>1, <1>4, <3>a, BeforeTrans
      <4> QED BY <3>a, <4>1, <4>2
    <3>b. Before(slot.snap, slot.snap) BY <1>0, BeforeSelf
    <3>1. CASE CaptureLoads(r) \/ ReadBegins(r)
      <4>1. /\ capture' = capture /\ slot' = slot
            /\ reader'[r] = "check" \/ loaded'[r][1].snap = slot.snap
        BY <2>0, <3>1 DEF CaptureLoads, ReadBegins
      <4>2. Before(capture[r].snap, capture[r].snap) BY <1>0, BeforeSelf
      <4> QED BY <1>3, <3>b, <4>1, <4>2
    <3>2. CASE CaptureLooksAtWriting(r) \/ CaptureProbes(r)
      <4>1. loaded' = loaded /\ reader[r] \in {"loaded", "probe"}
            /\ (Serve(r, loaded[r][1].snap) \/ capture' = capture)
        BY <3>2 DEF CaptureLooksAtWriting, CaptureProbes
      <4>2. CASE Serve(r, loaded[r][1].snap)
        <5>1. reader'[r] = "idle" BY <2>0, <4>2 DEF Serve
        <5>2. Before(capture[r].snap, loaded[r][1].snap) /\ Before(loaded[r][1].snap, slot.snap) BY <1>3, <4>1
        <5> QED BY <1>0, <3>a, <4>2, <5>1, <5>2 DEF Serve
      <4>3. CASE capture' = capture BY <1>a, <4>1, <4>3
      <4> QED BY <4>1, <4>2, <4>3
    <3>3. CASE CaptureTries(r)
      <4>1. loaded' = loaded /\ reader'[r] \notin {"loaded", "probe"} BY <2>0, <3>3 DEF CaptureTries, Serve
      <4>2. CASE guard = None /\ Serve(r, mem) BY <1>0, <1>3, <3>a, <3>b, <4>1, <4>2 DEF Serve
      <4>3. CASE Serve(r, slot.snap) BY <1>0, <1>3, <3>a, <3>b, <4>1, <4>3 DEF Serve
      <4>4. CASE capture' = capture BY <1>a, <4>1, <4>4
      <4> QED BY <3>3, <4>2, <4>3, <4>4 DEF CaptureTries
    <3>4. CASE ReadChecks(r) \/ ReadTakesGuard(r) \/ ReadRefreshes(r) \/ ReadEnds(r)
      <4>1. UNCHANGED <<loaded, capture>> /\ reader'[r] \notin {"loaded", "probe"}
        BY <2>0, <3>4 DEF ReadChecks, ReadTakesGuard, ReadRefreshes, ReadEnds
      <4> QED BY <1>a, <4>1
    <3>5. CASE ReadGranted(r)
      <4>1. /\ capture' = [capture EXCEPT ![r] = [loaded[r][1] EXCEPT !.snap = mem]]
            /\ reader'[r] \notin {"loaded", "probe"} /\ guard = None
        BY <2>0, <3>5 DEF ReadGranted
      <4> QED BY <1>0, <1>3, <3>a, <3>b, <4>1
    <3> QED BY <1>7, <2>2, <3>1, <3>2, <3>3, <3>4, <3>5 DEF CaptureStep, ReadStep
  <2> QED BY <2>1, <2>2
<1> QED BY <1>4, <1>5, <1>6, <1>7 DEF Next

\* Every step keeps captures, clones, slot and memory in order.
LEMMA AdvanceKept ==
    ASSUME "peerSync" \notin Faults, IInv, TypeOK, TypeOK', GuardInv, AdvanceInv, [Next]_vars
    PROVE  AdvanceInv'
<1>0. mem' \in Seq(Commits) /\ Len(wal') \in Nat BY DEF TypeOK, HandleType, StoreType
<1>1. CASE Kill \/ PowerLoss
  <2>1. /\ reader' = [r \in Readers |-> "idle"] /\ capture' = [r \in Readers |-> Empty]
        /\ slot'.snap = mem' /\ wal_consumed' = Len(wal')
    BY <1>1 DEF Kill, PowerLoss, Reopened, Publish
  <2>2. \A r \in Readers : reader'[r] = "idle" /\ capture'[r].snap = << >> BY <2>1 DEF Empty
  <2>3. Before(<< >>, mem') /\ Before(mem', mem') BY <1>0 DEF Before
  <2> QED BY <1>0, <2>1, <2>2, <2>3 DEF AdvanceInv
<1>2. ASSUME ~Kill, ~PowerLoss, drain' \notin {"degrade", "exited"} PROVE AdvanceInv'
  <2>1. /\ drain \notin {"degrade", "exited"} /\ Before(mem, mem') /\ wal_consumed' <= Len(wal')
        /\ \/ slot'.snap = mem'
           \/ slot' = slot /\ (guard' = None => mem' = mem /\ guard = None)
    BY <1>2, MemAdvances
  <2>2. Before(slot.snap, mem) /\ (guard = None => slot.snap = mem) BY <2>1 DEF AdvanceInv
  <2>3. Before(slot'.snap, mem')
    <3>1. slot.snap \in Seq(Commits) /\ mem \in Seq(Commits) BY SnapTypes
    <3> QED BY <1>0, <2>1, <2>2, <3>1, BeforeTrans, BeforeSelf
  <2>4. guard' = None => slot'.snap = mem' BY <2>1, <2>2
  <2> QED BY <1>2, <2>1, <2>3, <2>4, CapturesMove DEF AdvanceInv
<1> QED BY <1>1, <1>2 DEF AdvanceInv

\* As long as no peer's fsync fails, whose truncation the handle follows, the
\* captures of one reader never go back in time, until a group of this process
\* fails and is taken back or the process restarts.
THEOREM CapturesAdvances ==
    ASSUME "peerSync" \notin Faults PROVE Spec => CapturesAdvance
<1> DEFINE J == GuardInv /\ AdvanceInv
           Advances == \A r \in Readers : crashes' = crashes /\ drain' \notin {"truncate", "degrade", "exited"} =>
                          /\ Len(capture[r].snap) <= Len(capture'[r].snap)
                          /\ SubSeq(capture'[r].snap, 1, Len(capture[r].snap)) = capture[r].snap
<1>1. Init => J
  <2> SUFFICES ASSUME Init PROVE J OBVIOUS
  <2>1. GuardInv BY DEF Init, GuardInv
  <2>2. \A r \in Readers : reader[r] = "idle" /\ capture[r].snap = << >> BY DEF Init, Empty
  <2>3. slot.snap = << >> /\ mem = << >> /\ wal = << >> /\ wal_consumed = 0 BY DEF Init
  <2>4. Before(<< >>, << >>) BY DEF Before
  <2>5. AdvanceInv BY <2>2, <2>3, <2>4 DEF AdvanceInv
  <2> QED BY <2>1, <2>5
<1>2. IInv /\ TypeOK /\ TypeOK' /\ J /\ [Next]_vars => J' BY GuardKept, AdvanceKept
<1>3. IInv /\ TypeOK /\ TypeOK' /\ J /\ [Next]_vars => [Advances]_vars
  <2> SUFFICES ASSUME IInv, TypeOK, TypeOK', J, [Next]_vars, NEW r \in Readers, crashes' = crashes,
                      drain' \notin {"truncate", "degrade", "exited"}
               PROVE  /\ Len(capture[r].snap) <= Len(capture'[r].snap)
                      /\ SubSeq(capture'[r].snap, 1, Len(capture[r].snap)) = capture[r].snap
    OBVIOUS
  <2>1. crashes \in Nat BY DEF TypeOK, StoreType
  <2>2. ~Kill /\ ~PowerLoss BY <2>1 DEF Kill, PowerLoss, Reopened
  <2>3. Before(capture[r].snap, capture'[r].snap) BY <2>2, CapturesMove
  <2>4. capture[r].snap \in Seq(Commits) /\ capture'[r].snap \in Seq(Commits)
    BY DEF TypeOK, HandleType, Captures
  <2> DEFINE a == capture[r].snap
             b == capture'[r].snap
  <2>5. Before(a, b) /\ a \in Seq(Commits) /\ b \in Seq(Commits) BY <2>3, <2>4
  <2> HIDE DEF a, b
  <2>6. Len(a) <= Len(b) /\ SubSeq(b, 1, Len(a)) = a BY <2>5 DEF Before
  <2> QED BY <2>6 DEF a, b
<1>4. CapturesAdvance <=> [][Advances]_vars BY DEF CapturesAdvance
<1> HIDE DEF J, Advances
<1> QED BY <1>1, <1>2, <1>3, <1>4, InductiveInvariant, TypeCorrect, PTL DEF Spec
=============================================================================
