------------------------------- MODULE Backup -------------------------------
(***************************************************************************)
(* The backup worker (crates/backup/src/worker.rs, disk.rs) over the files *)
(* of a store that this process and a peer write, and the durable position *)
(* the engine gives it (core-api/src/durable_wal.rs).                      *)
(*                                                                         *)
(* The worker shares no lock with the store: it looks at snapshot.bin,     *)
(* wal.bin and snapshot.intent one after the other, asks the engine what   *)
(* is durable in a third place, and pairs the two by identities.  Each of  *)
(* those reads is a step, so are the requests to the bucket, and any of    *)
(* the requests may fail or lose its answer.                               *)
(*                                                                         *)
(* A commit is a number, the content of a file the sequence of the commits *)
(* in it.  Bytes are frames: an offset counts frames.  Snapshots are the   *)
(* ones that replace their WAL by an empty one; archives, side files and   *)
(* lineages are left out.                                                  *)
(***************************************************************************)
EXTENDS Integers, Sequences, FiniteSets, SequencesExt, FiniteSetsExt

CONSTANTS
    Faults,       \* the faults that happen: "kill", "power", "snapshot", "fsync", "bucket"
    SegmentMax,   \* the longest segment (segment.rs, MAX_SEGMENT_BYTES)
    RetainN,      \* retain_n
    Budgets       \* the FsyncPolicy (whether every commit is fsynced), and the bounds:
                  \* how many commits, snapshots and faults there may be

ASSUME BackupAssumption ==
    /\ Faults \subseteq {"kill", "power", "snapshot", "fsync", "bucket"}
    /\ SegmentMax \in Nat \ {0} /\ RetainN \in Nat
    /\ Budgets \subseteq [strict : BOOLEAN, commits : Nat, snapshots : Nat, faults : Nat]

VARIABLES
    snap,       \* snapshot.bin: its identity, the commits in it
    wal,        \* wal.bin: its inode, its frames, how many of them are on disk for good
    intent,     \* snapshot.intent: the records in it
    floor,      \* wal.floor: the commits before the first frame of wal.bin
    left,       \* the fsync policy; the commits, snapshots and faults still to come
    writer,     \* who holds the store's write lock, and how far it is
    eng,        \* this process's handle: the files it follows, its cursors
    pos,        \* DurableWal: the position
    unvouched,  \* DurableWal: the end of the bytes applied that nobody vouched for, or NoTail
    step,       \* the worker: where its step is, and the locals of it
    job,        \* what the worker remembers of this tenure
    bucket      \* the objects in the bucket

store  == <<snap, wal, intent, floor>>
engine == <<eng, pos, unvouched>>
worker == <<step, job>>
vars   == <<store, left, writer, engine, worker, bucket>>

None    == -1
NoTail  == [len |-> 0, frames |-> 0]
NoClaim == [gen |-> None, len |-> 0, frames |-> 0]
Free    == [by |-> "none", stage |-> "none"]
NoEng   == [snap |-> 0, wal |-> 0, consumed |-> 0, total |-> 0, unsettled |-> FALSE]
NoPos   == [gen |-> None, len |-> 0, frames |-> None, snapshot |-> None, wal |-> None,
            busy |-> FALSE]
NoLook  == [snapshot |-> None, wal |-> None, len |-> 0, intent |-> FALSE]
NoGen   == [num |-> None, key |-> << >>, floor |-> 0, snap |-> 0, segs |-> << >>]
NoSnap  == [id |-> 0, state |-> << >>]
NoJob   == [resumed |-> FALSE, refused |-> FALSE, next |-> 0, allocated |-> {}, gen |-> NoGen,
            dirty |-> FALSE, known |-> FALSE, target |-> None, versions |-> {}, stale |-> {}]

\* look, claim and pos: what was read last (DiskState, unvouched bytes, the
\* WalPosition); disk and before: what the step goes by; the rest: what it read
\* from the files, the manifest it wrote, what retention keeps and deletes.
NoStep ==
    [pc |-> "idle", then |-> << >>, look |-> NoLook, claim |-> NoClaim, pos |-> NoPos,
     disk |-> NoLook, before |-> NoPos, base |-> FALSE, snap |-> NoSnap, floor |-> 0,
     frames |-> << >>, n |-> None, kept |-> {}, doomed |-> {}, owned |-> {}]

-----------------------------------------------------------------------------
(* What an open makes of the files.                                        *)

\* SnapshotIntent: true of this snapshot and a WAL that begins as it names.
Standing(s, frames, intents) ==
    {i \in intents : i.state = s.state /\ IsPrefix(i.frames, frames)}

\* The frames of the WAL that the snapshot already holds, which an interrupted
\* snapshot's intent tells.
HeldFrames(s, frames, intents) ==
    Max({0} \cup {Len(i.frames) : i \in Standing(s, frames, intents)})

Loaded(s, frames, intents) ==
    s.state \o SubSeq(frames, HeldFrames(s, frames, intents) + 1, Len(frames))

Store == Loaded(snap, wal.frames, intent)

\* The commits on stable storage: the snapshot's, and the fsynced frames after.
Durable ==
    snap.state \o SubSeq(wal.frames, HeldFrames(snap, wal.frames, intent) + 1, wal.synced)

-----------------------------------------------------------------------------
(* The engine's handle: refresh_checking, and the position it keeps.       *)

Total == floor + Len(wal.frames)

\* load_from_disk ends with DurableWal::loaded.
Load(generation) ==
    /\ eng' = [snap |-> snap.id, wal |-> wal.id, consumed |-> Len(wal.frames),
               total |-> Total,
               unsettled |-> intent # Standing(snap, wal.frames, intent)]
    /\ pos' = [gen |-> generation, len |-> 0, frames |-> floor, snapshot |-> snap.id,
               wal |-> wal.id, busy |-> FALSE]
    /\ unvouched' = IF wal.frames = << >> THEN NoTail
                    ELSE [len |-> Len(wal.frames), frames |-> Total]

MustReload(beforeAppend) ==
    \/ snap.id # eng.snap
    \/ Len(wal.frames) < eng.consumed
    \/ (beforeAppend \/ Len(wal.frames) > eng.consumed) /\ wal.id # eng.wal

\* DurableWal::absorbed, and the cursors of the handle.
Absorb ==
    /\ eng' = [eng EXCEPT !.consumed = Len(wal.frames),
                          !.total = @ + Len(wal.frames) - eng.consumed]
    /\ unvouched' = IF Len(wal.frames) > pos.len
                    THEN [len |-> Len(wal.frames), frames |-> eng'.total]
                    ELSE unvouched
    /\ UNCHANGED pos

RefreshChecking(beforeAppend) ==
    IF MustReload(beforeAppend) THEN Load(pos.gen + 1)
    ELSE IF Len(wal.frames) = eng.consumed THEN UNCHANGED engine
    ELSE Absorb

\* DurableWal::synced, of the position p the handle has at cursor e.
Synced(p, e) ==
    /\ pos' = [p EXCEPT !.len = e.consumed, !.frames = e.total]
    /\ unvouched' = IF unvouched.len =< e.consumed THEN NoTail ELSE unvouched

\* A read of this process that meets no writer of it follows the peer.
Up == step.pc # "down"
MayRefresh == Up /\ (writer.by # "us" \/ writer.stage = "appended")

Refresh ==
    /\ MayRefresh
    /\ RefreshChecking(FALSE)
    /\ engine' # engine
    /\ UNCHANGED <<store, left, writer, worker, bucket>>

-----------------------------------------------------------------------------
(* Commits and snapshots, of this process ("us") and of a peer.            *)

Processes == {"us", "peer"}

\* The write lock is taken for a commit or a snapshot: the handle catches up.
Lock(p) ==
    /\ writer = Free
    /\ left.commits > 0 \/ left.snapshots > 0
    /\ IF p = "us" THEN Up /\ RefreshChecking(TRUE) ELSE UNCHANGED engine
    /\ writer' = [by |-> p, stage |-> "locked"]
    /\ UNCHANGED <<store, left, worker, bucket>>

\* settle_snapshot_intent: records that are not true any more go before an
\* append, if the handle knows of them.
Settle(p) ==
    LET settled == Standing(snap, wal.frames, intent) IN
    IF p = "us" THEN intent' = IF eng.unsettled THEN settled ELSE intent
    ELSE intent' \in {intent, settled}

AppendFrame(p) ==
    /\ writer.by = p /\ writer.stage = "locked"
    /\ left.commits > 0
    /\ Settle(p)
    /\ left' = [left EXCEPT !.commits = @ - 1]
    /\ wal' = [wal EXCEPT !.frames = Append(@, left.commits)]
    /\ eng' = IF p = "us"
              THEN [eng EXCEPT !.consumed = @ + 1, !.total = @ + 1, !.unsettled = FALSE]
              ELSE eng
    /\ writer' = [writer EXCEPT !.stage = "appended"]
    /\ UNCHANGED <<snap, floor, pos, unvouched, worker, bucket>>

\* The fsync of the commit, or none under a policy that skips it.
EndScope(p) ==
    /\ writer.by = p /\ writer.stage = "appended"
    /\ \/ /\ wal' = [wal EXCEPT !.synced = Len(wal.frames)]
          /\ IF p = "us" THEN Synced(pos, eng) ELSE UNCHANGED <<pos, unvouched>>
       \/ ~left.strict /\ UNCHANGED <<wal, pos, unvouched>>
    /\ writer' = Free
    /\ UNCHANGED <<snap, intent, floor, left, eng, worker, bucket>>

\* snapshot_with: the position is marked, and a snapshot that is to replace
\* its WAL writes its intent, beside one that stands.
BeginSnapshot(p) ==
    /\ writer.by = p /\ writer.stage = "locked"
    /\ left.snapshots > 0
    /\ left' = [left EXCEPT !.snapshots = @ - 1]
    /\ pos' = IF p = "us" THEN [pos EXCEPT !.busy = TRUE] ELSE pos
    /\ intent' = {[state |-> Store, frames |-> wal.frames]}
                   \cup Standing(snap, wal.frames, intent)
    /\ eng' = IF p = "us" THEN [eng EXCEPT !.unsettled = TRUE] ELSE eng
    /\ writer' = [writer EXCEPT !.stage = "begun"]
    /\ UNCHANGED <<snap, wal, floor, unvouched, worker, bucket>>

WriteSnapshot(p) ==
    /\ writer.by = p /\ writer.stage = "begun"
    /\ snap' = [id |-> snap.id + 1, state |-> Store]
    /\ writer' = [writer EXCEPT !.stage = "written"]
    /\ UNCHANGED <<wal, intent, floor, left, engine, worker, bucket>>

\* The floor and the replacement WAL, with DurableWal::replaced before them.
\* The new file takes an inode that the file before the old one may have had.
ReplaceWal(p) ==
    /\ writer.by = p /\ writer.stage = "written"
    /\ wal' = [id |-> 1 - wal.id, frames |-> << >>, synced |-> 0]
    /\ floor' = Total
    /\ IF p = "us"
       THEN /\ pos' = [pos EXCEPT !.gen = @ + 1, !.len = 0, !.frames = None]
            /\ unvouched' = NoTail
       ELSE UNCHANGED <<pos, unvouched>>
    /\ writer' = [writer EXCEPT !.stage = "replaced"]
    /\ UNCHANGED <<snap, intent, left, eng, worker, bucket>>

\* The intent is emptied, the handle takes its markers from the disk again.
EndSnapshot(p) ==
    /\ writer.by = p /\ writer.stage = "replaced"
    /\ intent' = {}
    /\ IF p = "us"
       THEN /\ eng' = [snap |-> snap.id, wal |-> wal.id, consumed |-> Len(wal.frames),
                       total |-> Total, unsettled |-> FALSE]
            /\ Synced([pos EXCEPT !.snapshot = snap.id, !.wal = wal.id, !.busy = FALSE], eng')
       ELSE UNCHANGED engine
    /\ writer' = Free
    /\ UNCHANGED <<snap, wal, floor, left, worker, bucket>>

-----------------------------------------------------------------------------
(* Faults of the store.                                                    *)

Fault(kind) ==
    /\ kind \in Faults
    /\ left.faults > 0
    /\ left' = [left EXCEPT !.faults = @ - 1]

\* A snapshot fails with an error between two of its writes.
SnapshotFails(p) ==
    /\ writer.by = p /\ writer.stage \in {"begun", "written", "replaced"}
    /\ Fault("snapshot")
    /\ writer' = Free
    /\ pos' = IF p = "us" THEN [pos EXCEPT !.busy = FALSE] ELSE pos
    /\ UNCHANGED <<store, eng, unvouched, worker, bucket>>

Down ==
    /\ step' = [NoStep EXCEPT !.pc = "down"]
    /\ job' = NoJob
    /\ eng' = NoEng /\ pos' = NoPos /\ unvouched' = NoTail

Kill(p) ==
    /\ Fault("kill")
    /\ IF p = "us" THEN Up /\ Down ELSE writer.by = p /\ UNCHANGED <<engine, worker>>
    /\ writer' = IF writer.by = p THEN Free ELSE writer
    /\ UNCHANGED <<store, bucket>>

\* Frames that no fsync covered may be gone; the ones left are on the disk.
PowerLoss ==
    /\ Fault("power")
    /\ \E k \in wal.synced .. Len(wal.frames) :
          wal' = [wal EXCEPT !.frames = SubSeq(@, 1, k), !.synced = k]
    /\ Down
    /\ writer' = Free
    /\ UNCHANGED <<snap, intent, floor, bucket>>

\* This process is started again: its handle loads, its worker begins anew.
Boot ==
    /\ ~Up
    /\ Load(0)
    /\ step' = NoStep
    /\ UNCHANGED <<store, left, writer, job, bucket>>

-----------------------------------------------------------------------------
(* The worker's looks: disk::observe and durable_wal_position.             *)

outside == <<store, left, writer, engine, bucket>>

\* The step goes on to look and then to the steps called next, to ask for the
\* position and then to the one called next, to the one called label; or ends.
Looking(s, next) == [s EXCEPT !.pc = "lookSnapshot", !.then = next, !.look = NoLook,
                              !.pos = NoPos]
Asking(s, next)  == [s EXCEPT !.pc = "unvouched", !.then = <<next>>, !.pos = NoPos]
To(s, label)     == [s EXCEPT !.pc = label]
Done             == NoStep

Key(p) == <<p.gen, p.snapshot, p.wal>>
Follows(p, d) == p.snapshot = d.snapshot /\ p.wal = d.wal

\* A mutant of UnchangedUntil: only what the WAL's length shows.
UnchangedLength(before, after) == after.len >= before.len

\* DiskState::unchanged_until.
UnchangedUntil(before, after) ==
    /\ ~before.intent /\ ~after.intent
    /\ before.snapshot = after.snapshot
    /\ before.wal = after.wal
    /\ after.len >= before.len

Shipped(segs) == FlattenSeq([i \in DOMAIN segs |-> segs[i].frames])
Cursor == Len(Shipped(job.gen.segs))

\* run_once and ship_segments decide by what was just read.  A first look:
Observed(s) ==
    IF s.look.intent THEN Done ELSE Asking([s EXCEPT !.disk = s.look], "positioned")

\* The handle and the disk agree, and a restore point is there to extend or
\* a new one to be built.
Decided(s) ==
    IF s.pos.busy \/ ~Follows(s.pos, s.disk) \/ s.disk.len < s.pos.len THEN Done
    ELSE IF job.gen.key # Key(s.pos) THEN To([s EXCEPT !.before = s.pos], "openSnapshot")
    ELSE Looking(s, <<"unvouched", "ship">>)

\* The disk differs from the handle: the handle catches up, and a second look
\* must show that the disk held still.
Positioned(s) ==
    IF Follows(s.pos, s.disk) /\ s.disk.len = s.pos.len THEN Decided(s) ELSE To(s, "catchUp")

CaughtUp(s) ==
    IF UnchangedUntil(s.disk, s.look) THEN Asking([s EXCEPT !.disk = s.look], "decide") ELSE Done

\* Nothing more to ship, or not now: the loop of ship_segments is left.
AllShipped(s) == To([NoStep EXCEPT !.base = s.base], "shipped")

Ship(s) ==
    IF \/ s.look.intent \/ ~Follows(s.pos, s.look)
       \/ job.gen.key # Key(s.pos) \/ s.pos.len =< Cursor
    THEN AllShipped(s) ELSE To([s EXCEPT !.disk = s.look], "readSegment")

SegmentRead(s) ==
    IF /\ UnchangedUntil(s.disk, s.look)
       /\ job.gen.key = Key(s.pos)
       /\ s.frames # << >>
    THEN To([NoStep EXCEPT !.base = s.base, !.frames = s.frames], "putSegment")
    ELSE AllShipped(s)

\* A look or the position is read: the step goes on where it was called.
Return(s) ==
    LET on == [s EXCEPT !.pc = Head(s.then), !.then = Tail(s.then)] IN
    CASE on.pc = "observed"    -> Observed(on)
      [] on.pc = "positioned"  -> Positioned(on)
      [] on.pc = "caughtUp"    -> CaughtUp(on)
      [] on.pc = "decide"      -> Decided(on)
      [] on.pc = "ship"        -> Ship(on)
      [] on.pc = "segmentRead" -> SegmentRead(on)
      [] OTHER -> on

\* The metadata of snapshot.bin, of wal.bin and of snapshot.intent, in turn.
ObserveSnapshot ==
    /\ step.pc = "lookSnapshot"
    /\ step' = To([step EXCEPT !.look.snapshot = snap.id], "lookWal")
    /\ UNCHANGED <<outside, job>>

ObserveWal ==
    /\ step.pc = "lookWal"
    /\ step' = To([step EXCEPT !.look.wal = wal.id, !.look.len = Len(wal.frames)], "lookIntent")
    /\ UNCHANGED <<outside, job>>

ObserveIntent ==
    /\ step.pc = "lookIntent"
    /\ step' = Return([step EXCEPT !.look.intent = intent # {}])
    /\ UNCHANGED <<outside, job>>

\* durable_wal_position: bytes nobody has vouched for are fsynced first.
Unvouched ==
    /\ step.pc = "unvouched"
    /\ step' = IF unvouched = NoTail THEN To(step, "position")
               ELSE To([step EXCEPT !.claim = [gen |-> pos.gen, len |-> unvouched.len,
                                               frames |-> unvouched.frames]], "fsync")
    /\ UNCHANGED <<outside, job>>

\* The fsync of wal.bin, whichever file that is by now.
FsyncWal ==
    /\ step.pc = "fsync"
    /\ \/ /\ wal' = [wal EXCEPT !.synced = Len(wal.frames)]
          /\ step' = To(step, "position")
          /\ UNCHANGED left
       \/ /\ Fault("fsync")
          /\ step' = To([step EXCEPT !.claim = NoClaim], "position")
          /\ UNCHANGED wal
    /\ UNCHANGED <<snap, intent, floor, writer, engine, bucket, job>>

\* A mutant of Position: the claim is taken whatever the WAL is by now.
PositionUnchecked ==
    /\ step.pc = "position"
    /\ pos' = IF pos.len < step.claim.len
              THEN [pos EXCEPT !.len = step.claim.len, !.frames = step.claim.frames]
              ELSE pos
    /\ unvouched' = IF unvouched.len =< step.claim.len THEN NoTail ELSE unvouched
    /\ step' = Return([step EXCEPT !.pos = pos', !.claim = NoClaim])
    /\ UNCHANGED <<store, left, writer, eng, bucket, job>>

\* DurableWal::vouch, unless the WAL was replaced meanwhile; then get.
Position ==
    /\ step.pc = "position"
    /\ IF step.claim.gen # pos.gen THEN UNCHANGED <<pos, unvouched>>
       ELSE /\ pos' = IF pos.len < step.claim.len
                      THEN [pos EXCEPT !.len = step.claim.len, !.frames = step.claim.frames]
                      ELSE pos
            /\ unvouched' = IF unvouched.len =< step.claim.len THEN NoTail ELSE unvouched
    /\ step' = Return([step EXCEPT !.pos = pos', !.claim = NoClaim])
    /\ UNCHANGED <<store, left, writer, eng, bucket, job>>

-----------------------------------------------------------------------------
(* run_once: the start of a step.                                          *)

\* A step begins; the first of a tenure reads what LATEST names.
StartStep ==
    /\ step.pc = "idle" /\ ~job.refused
    /\ IF job.resumed THEN step' = Looking(step, <<"observed">>) /\ UNCHANGED job
       ELSE /\ job' = [job EXCEPT !.known = TRUE, !.target = bucket.latest]
            /\ step' = Asking(step, "resume")
    /\ UNCHANGED outside

\* resume: refused when the store holds fewer commits than LATEST, put off
\* while their number is not known; otherwise no generation is used twice.
Resume ==
    /\ step.pc = "resume"
    /\ IF step.pos.frames < job.target
       THEN /\ job' = [job EXCEPT !.refused = step.pos.frames # None]
            /\ step' = Done
       ELSE /\ job' = [job EXCEPT !.resumed = TRUE,
                         !.next = 1 + Max({None} \cup {o.num : o \in bucket.snaps}
                                                 \cup {o.num : o \in bucket.segs}
                                                 \cup {m.num : m \in bucket.mans})]
            /\ step' = Looking(step, <<"observed">>)
    /\ UNCHANGED outside

CatchUp ==
    /\ step.pc = "catchUp"
    /\ MayRefresh
    /\ RefreshChecking(FALSE)
    /\ step' = Looking(step, <<"caughtUp">>)
    /\ UNCHANGED <<store, left, writer, bucket, job>>

-----------------------------------------------------------------------------
(* upload_base: a generation of its own beside the snapshot on disk.       *)

OpenSnapshot ==
    /\ step.pc = "openSnapshot"
    /\ step' = To([step EXCEPT !.snap = snap, !.base = TRUE], "readChain")
    /\ UNCHANGED <<outside, job>>

ReadChain ==
    /\ step.pc = "readChain"
    /\ step' = Looking([step EXCEPT !.floor = floor], <<"unvouched", "baseRead">>)
    /\ UNCHANGED <<outside, job>>

\* Kept only if the disk held still; the number is burned before any upload.
BaseRead ==
    /\ step.pc = "baseRead"
    /\ IF /\ UnchangedUntil(step.disk, step.look)
          /\ step.snap.id = step.disk.snapshot
          /\ Key(step.pos) = Key(step.before)
          /\ ~step.pos.busy
       THEN /\ job' = [job EXCEPT !.next = @ + 1, !.allocated = @ \cup {job.next}]
            /\ step' = To(step, "putSnapshot")
       ELSE /\ step' = Done
            /\ UNCHANGED job
    /\ UNCHANGED outside

local == <<store, writer, engine>>

\* A request that turns the bucket into after: done and answered; or one that
\* ends the step, done with its answer lost, or not done.
Answered(after) == bucket' = after /\ UNCHANGED left
Fails(after) ==
    /\ Fault("bucket")
    /\ bucket' \in {bucket, after}
    /\ step' = Done

PutSnapshot ==
    /\ step.pc = "putSnapshot"
    /\ LET num == job.next - 1
           after == [bucket EXCEPT !.snaps =
                       IF step.snap = NoSnap THEN @ ELSE @ \cup {[num |-> num, snap |-> step.snap]}] IN
       \/ /\ Answered(after)
          /\ job' = [job EXCEPT !.dirty = TRUE,
                       !.gen = [num |-> num, key |-> Key(step.before), floor |-> step.floor,
                                snap |-> step.snap.id, segs |-> << >>]]
          /\ step' = Looking([NoStep EXCEPT !.base = TRUE], <<"unvouched", "ship">>)
       \/ Fails(after) /\ UNCHANGED job
    /\ UNCHANGED local

-----------------------------------------------------------------------------
(* ship_segments: the durable bytes of the generation, read between looks. *)

\* A mutant of ReadSegment: to the end of the file, durable or not.
ReadSegmentToEnd ==
    /\ step.pc = "readSegment"
    /\ step' = Looking([step EXCEPT !.frames = SubSeq(wal.frames, Cursor + 1, Len(wal.frames))],
                       <<"unvouched", "segmentRead">>)
    /\ UNCHANGED <<outside, job>>

\* read_new_segment: whole frames from the cursor on, of the file now there.
ReadSegment ==
    /\ step.pc = "readSegment"
    /\ LET end == Min({Cursor + SegmentMax, step.pos.len, Len(wal.frames)}) IN
       step' = Looking([step EXCEPT !.frames = SubSeq(wal.frames, Cursor + 1, end)],
                       <<"unvouched", "segmentRead">>)
    /\ UNCHANGED <<outside, job>>

\* put_immutable: one already there holds the same bytes, for a generation's
\* number is used once.
PutSegment ==
    /\ step.pc = "putSegment"
    /\ LET s == [num |-> job.gen.num, start |-> Cursor, frames |-> step.frames]
           after == [bucket EXCEPT !.segs = @ \cup {s}] IN
       \/ /\ Answered(after)
          /\ job' = [job EXCEPT !.gen.segs = Append(@, s), !.dirty = TRUE]
          /\ step' = Looking([NoStep EXCEPT !.base = step.base], <<"unvouched", "ship">>)
       \/ Fails(after) /\ UNCHANGED job
    /\ UNCHANGED local

\* A restore point is written after every base, otherwise when one is due.
Due ==
    /\ step.pc = "shipped"
    /\ step.base \/ job.dirty
    /\ step' = To(step, "putManifest")
    /\ UNCHANGED <<outside, job>>

NotDue ==
    /\ step.pc = "shipped"
    /\ ~step.base
    /\ step' = Done
    /\ UNCHANGED <<outside, job>>

-----------------------------------------------------------------------------
(* write_manifest: the restore point, then LATEST, then retention.         *)

Manifest ==
    [n |-> job.gen.floor + Cursor, num |-> job.gen.num, floor |-> job.gen.floor,
     snap |-> job.gen.snap, segs |-> job.gen.segs]

\* A mutant of Conflict: the step ends, the worker forgets nothing.
ConflictRemembered ==
    /\ step' = Done
    /\ UNCHANGED <<left, bucket, job>>

\* The bucket refused a write: the lease is dropped, and with it everything
\* the worker knows of the bucket (conflict, reset_tenure).
Conflict ==
    /\ job' = NoJob
    /\ step' = Done
    /\ UNCHANGED <<left, bucket>>

\* put_manifest: over the version this tenure wrote, or over any that is there
\* when it has written none; refused when that changed.
PutManifest ==
    /\ step.pc = "putManifest"
    /\ LET m == Manifest
           after == [bucket EXCEPT !.mans = {o \in @ : o.n # m.n} \cup {m}] IN
       \/ m.n \in job.stale /\ Conflict
       \/ /\ m.n \notin job.stale
          /\ Answered(after)
          /\ job' = [job EXCEPT !.versions = @ \cup {m.n}]
          /\ step' = To([step EXCEPT !.n = m.n], "putLatest")
       \/ /\ m.n \notin job.stale
          /\ Fails(after)
          /\ job' = [job EXCEPT !.stale = IF bucket' = after THEN @ \cup (job.versions \cap {m.n})
                                          ELSE @]
    /\ UNCHANGED local

PutLatest ==
    /\ step.pc = "putLatest"
    /\ LET after == [bucket EXCEPT !.latest = step.n] IN
       \/ ~job.known /\ Conflict
       \/ /\ job.known
          /\ Answered(after)
          /\ job' = [job EXCEPT !.target = step.n, !.dirty = FALSE]
          /\ step' = IF RetainN > 0 THEN To(step, "retain") ELSE Done
       \/ /\ job.known
          /\ Fails(after)
          /\ job' = [job EXCEPT !.known = bucket' = bucket]
    /\ UNCHANGED local

NewestOf(S, k) == {m \in S : Cardinality({o \in S : o.n > m.n}) < k}

\* A mutant of Retain: the newest only.
RetainNewest ==
    /\ step.pc = "retain"
    /\ LET kept == NewestOf(bucket.mans, RetainN) IN
       step' = IF kept = bucket.mans THEN Done
               ELSE To([step EXCEPT !.kept = kept, !.doomed = bucket.mans \ kept,
                                    !.owned = job.allocated \cup {m.num : m \in bucket.mans}],
                       "deleteManifests")
    /\ UNCHANGED <<outside, job>>

\* apply_retention lists the manifests: the newest stay, and so do the one
\* just written and the one LATEST names.
Retain ==
    /\ step.pc = "retain"
    /\ LET kept == NewestOf(bucket.mans, RetainN)
                     \cup {m \in bucket.mans : m.n \in {step.n, job.target}} IN
       step' = IF kept = bucket.mans THEN Done
               ELSE To([step EXCEPT !.kept = kept, !.doomed = bucket.mans \ kept,
                                    !.owned = job.allocated \cup {m.num : m \in bucket.mans}],
                       "deleteManifests")
    /\ UNCHANGED <<outside, job>>

\* The surplus manifests go first, in the order of their keys.
DeleteManifest ==
    /\ step.pc = "deleteManifests"
    /\ \E m \in step.doomed :
         LET after == [bucket EXCEPT !.mans = @ \ {m}] IN
         /\ \A o \in step.doomed : m.n =< o.n
         /\ \/ Answered(after) /\ step' = [step EXCEPT !.doomed = @ \ {m}]
            \/ Fails(after)
    /\ UNCHANGED <<local, job>>

Objects(m) ==
    {o \in bucket.snaps : o.num = m.num /\ m.snap # 0} \cup Range(m.segs)

\* Then what none of the kept ones names, of generations of this lineage:
\* snapshots, and the segments of generations older than every kept one.
DeleteObjects ==
    /\ step.pc = "deleteManifests"
    /\ step.doomed = {}
    /\ LET named == UNION {Objects(m) : m \in step.kept}
           oldest == Min({m.num : m \in step.kept})
           doomed == ({o \in bucket.snaps : o.num \in step.owned}
                      \cup {o \in bucket.segs : /\ o.num \in step.owned /\ o.num < oldest
                                                /\ o.num # job.gen.num}) \ named IN
       \E gone \in SUBSET doomed :
         /\ bucket' = [bucket EXCEPT !.snaps = @ \ gone, !.segs = @ \ gone]
         /\ IF gone = doomed THEN UNCHANGED left ELSE Fault("bucket")
    /\ step' = Done
    /\ UNCHANGED <<local, job>>

-----------------------------------------------------------------------------
Init ==
    /\ snap = NoSnap
    /\ wal = [id |-> 0, frames |-> << >>, synced |-> 0]
    /\ intent = {} /\ floor = 0
    /\ left \in Budgets
    /\ writer = Free
    /\ eng = NoEng
    /\ pos = [gen |-> 0, len |-> 0, frames |-> 0, snapshot |-> 0, wal |-> 0, busy |-> FALSE]
    /\ unvouched = NoTail
    /\ step = NoStep /\ job = NoJob
    /\ bucket = [snaps |-> {}, segs |-> {}, mans |-> {}, latest |-> None]

Writing(p) ==
    \/ AppendFrame(p) \/ EndScope(p)
    \/ BeginSnapshot(p) \/ WriteSnapshot(p) \/ ReplaceWal(p) \/ EndSnapshot(p)

Working ==
    \/ ObserveSnapshot \/ ObserveWal \/ ObserveIntent
    \/ Unvouched \/ FsyncWal \/ Position
    \/ StartStep \/ Resume \/ CatchUp
    \/ OpenSnapshot \/ ReadChain \/ BaseRead \/ PutSnapshot
    \/ ReadSegment \/ PutSegment
    \/ Due \/ NotDue \/ PutManifest \/ PutLatest
    \/ Retain \/ DeleteManifest \/ DeleteObjects

Next ==
    \/ \E p \in Processes : Lock(p) \/ Writing(p) \/ SnapshotFails(p) \/ Kill(p)
    \/ PowerLoss \/ Boot
    \/ Refresh
    \/ Working

\* A write scope ends, a process that died is started again, the worker's
\* loop goes on, and its manifest interval passes.
Fairness ==
    /\ \A p \in Processes : WF_vars(Writing(p))
    /\ WF_vars(Working) /\ WF_vars(Boot)
    /\ SF_vars(Due)

Spec == Init /\ [][Next]_vars
FairSpec == Spec /\ Fairness

-----------------------------------------------------------------------------
(* Properties.                                                             *)

Stages == {"none", "locked", "appended", "begun", "written", "replaced"}

TypeOK ==
    /\ wal.synced \in 0 .. Len(wal.frames) /\ wal.id \in {0, 1}
    /\ writer \in [by : Processes \cup {"none"}, stage : Stages]
    /\ eng.consumed \in Nat /\ eng.total \in Nat
    /\ pos.len \in Nat /\ pos.frames \in Nat \cup {None}
    /\ step.then \in Seq(STRING) /\ job.next \in Nat /\ job.target \in Nat \cup {None}
    /\ bucket.latest \in Nat \cup {None}

\* The store a restore point gives back: a restored directory has no intent.
Base(m) ==
    LET s == {o \in bucket.snaps : o.num = m.num}
    IN IF m.snap = 0 THEN NoSnap
       ELSE (CHOOSE o \in s : TRUE).snap

Restored(m, more) == Loaded(Base(m), Shipped(m.segs) \o more, {})

\* tail_segments: of the segments left, in the order of their keys, the first is
\* taken if it starts at the end of what was taken before; otherwise none is.
KeyBefore(s, t) == \/ s.start < t.start
                   \/ s.start = t.start /\ Len(s.frames) < Len(t.frames)
TakeNext(t) ==
    LET next == {s \in t.rest : /\ s.start = t.end
                                /\ \A o \in t.rest \ {s} : KeyBefore(s, o)}
        s == CHOOSE s \in next : TRUE
    IN IF next = {} THEN [t EXCEPT !.rest = {}]
       ELSE [end |-> t.end + Len(s.frames), frames |-> t.frames \o s.frames,
             rest |-> t.rest \ {s}]

\* The segments after a manifest's, while each continues the one before it.
TailOf(m) ==
    LET end == Len(Shipped(m.segs))
        later == {s \in bucket.segs : s.num = m.num /\ s.start >= end}
        taken[k \in 0 .. Cardinality(later)] ==
            IF k = 0 THEN [end |-> end, frames |-> << >>, rest |-> later]
            ELSE TakeNext(taken[k - 1])
    IN taken[Cardinality(later)].frames

\* "Every manifest in the bucket verifies, and LATEST names one of them"
\* (worker.rs, Objects and ordering), a crash between any two requests and a
\* lost answer to any of them included: a manifest's objects are all there.
PointIsComplete ==
    /\ \A m \in bucket.mans :
          /\ m.snap # 0 => \E o \in bucket.snaps : o.num = m.num
          /\ Range(m.segs) \subseteq bucket.segs
    /\ bucket.latest # None => \E m \in bucket.mans : m.n = bucket.latest

\* What the engine vouches for is on stable storage in the WAL it speaks of,
\* though the fsync that covered the bytes ran outside every lock and the
\* file may have been replaced meanwhile (DurableWal::vouch).
Current == pos.snapshot = snap.id /\ pos.wal = wal.id /\ ~pos.busy
VouchedIsDurable ==
    Current => /\ pos.len =< wal.synced
               /\ pos.frames # None => pos.frames = floor + pos.len

\* A restore of the newest point, with the segments uploaded after its
\* manifest, gives back a state the store was in and can never lose again:
\* no look at the directory paired a snapshot with another one's WAL.
TailIsHistory ==
    \A m \in bucket.mans :
        m.n = bucket.latest => IsPrefix(Restored(m, TailOf(m)), Durable)

\* The bucket is a set of restore points as RestorePoints describes them.
Numbers == {m.n : m \in bucket.mans}
Points ==
    INSTANCE RestorePoints WITH
        history <- Durable,
        points <- [n \in Numbers |-> Restored(CHOOSE m \in bucket.mans : m.n = n, << >>)],
        latest <- bucket.latest
RefinesPoints == Points!Spec

\* Once nobody writes any more and no interrupted snapshot stands, LATEST
\* comes to name everything there is (run_once defers, and never gives up).
\* A handle that loaded between another process's snapshot and its WAL does not
\* see the new WAL while that has the length of the old one (refresh_checking),
\* and the worker waits until somebody writes.  Under a policy that skips the
\* fsync the handle's own last commits are vouched for by nobody: not claimed.
Overlooked == snap.id = eng.snap /\ wal.id # eng.wal /\ Len(wal.frames) = eng.consumed
CatchesUp ==
    left.strict /\ <>[](intent = {} /\ ~job.refused /\ ~Overlooked) => <>[](bucket.latest = Len(Durable))
=============================================================================
